---------------------------- MODULE Extract_proofs ----------------------------
(***************************************************************************)
(* Theorems about Extract, for replies of any length composed of any       *)
(* pieces, any number of messages, and a transcript torn anywhere.         *)
(***************************************************************************)
EXTENDS Extract, Basics_proofs

-----------------------------------------------------------------------------
(* Fences.                                                                 *)

\* Nothing follows on the last line.
Closed(text) == text = <<>> \/ text[Len(text)] = "nl"

\* What follows a closed text says nothing about the ends of its lines.
LEMMA LineEndsApart ==
  ASSUME NEW T, NEW u \in Seq(T), NEW v \in Seq(T), Closed(u),
         NEW p \in 1 .. Len(u) + Len(v)
  PROVE  /\ p <= Len(u) /\ u[p] # "nl" => (AtLineEnd(u \o v, p + 1) <=> AtLineEnd(u, p + 1))
         /\ p > Len(u) => (AtLineEnd(u \o v, p + 1) <=> AtLineEnd(v, p - Len(u) + 1))
<1> DEFINE t == u \o v
           n == Len(u)
<1>1. /\ Len(t) = n + Len(v) /\ n \in Nat /\ Len(v) \in Nat
      /\ \A i \in 1..n : t[i] = u[i]
      /\ \A i \in 1..Len(v) : t[n + i] = v[i]
  BY Joined2
<1>2. n # 0 => u[n] = "nl"
  BY DEF Closed
<1> HIDE DEF t, n
<1>3. ASSUME p <= n, u[p] # "nl" PROVE AtLineEnd(t, p + 1) <=> AtLineEnd(u, p + 1)
  <2>1. p \in 1..n /\ p < n /\ n \in p + 1 .. n
    BY <1>1, <1>2, <1>3
  <2>2. ASSUME AtLineEnd(t, p + 1), NEW q \in p + 1 .. n, \A i \in p + 1 .. q - 1 : u[i] = "sp"
        PROVE  u[q] \in {"sp", "nl"}
    <3>1. q \in p + 1 .. Len(t) /\ \A i \in p + 1 .. q - 1 : t[i] = "sp"
      BY <1>1, <2>1, <2>2, SMTT(30)
    <3>2. t[q] \in {"sp", "nl"} /\ t[q] = u[q]
      BY <1>1, <2>1, <2>2, <3>1 DEF AtLineEnd
    <3>3. QED BY <3>2
  <2>3. ASSUME AtLineEnd(u, p + 1), NEW q \in p + 1 .. Len(t),
               \A i \in p + 1 .. q - 1 : t[i] = "sp"
        PROVE  t[q] \in {"sp", "nl"}
    <3>1. q <= n
      <4> SUFFICES ASSUME q > n PROVE FALSE
        BY <1>1
      <4>1. n \in p + 1 .. q - 1
        BY <1>1, <2>1
      <4>2. QED BY <1>1, <1>2, <2>1, <2>3, <4>1
    <3>2. q \in p + 1 .. n /\ \A i \in p + 1 .. q - 1 : u[i] = "sp" /\ t[q] = u[q]
      BY <1>1, <2>1, <2>3, <3>1
    <3>3. u[q] \in {"sp", "nl"} /\ t[q] = u[q]
      <4>1. t[q] = u[q]
        BY <1>1, <2>1, <3>1
      <4>2. QED BY <2>3, <3>2, <4>1, n = Len(u) DEF AtLineEnd, n
    <3>4. QED BY <3>3
  <2>4. QED BY <2>2, <2>3 DEF AtLineEnd, n
<1>4. ASSUME p > n PROVE AtLineEnd(t, p + 1) <=> AtLineEnd(v, p - n + 1)
  <2>1. p - n \in Nat /\ p - n >= 1
    BY <1>1, <1>4
  <2>2. ASSUME AtLineEnd(t, p + 1), NEW q \in p - n + 1 .. Len(v),
               \A i \in p - n + 1 .. q - 1 : v[i] = "sp"
        PROVE  v[q] \in {"sp", "nl"}
    <3>1. PICK r \in p + 1 .. Len(t) : r = n + q
      BY <1>1, <2>1
    <3>2. ASSUME NEW i \in p + 1 .. r - 1 PROVE t[i] = "sp"
      <4>1. i - n \in p - n + 1 .. q - 1 /\ i - n \in 1..Len(v) /\ n + (i - n) = i
        BY <1>1, <2>1, <3>1, SMTT(30)
      <4>2. QED BY <1>1, <2>2, <4>1
    <3>3. t[r] \in {"sp", "nl"}
      BY <2>2, <3>1, <3>2 DEF AtLineEnd
    <3>4. q \in 1..Len(v)
      BY <1>1, <2>1
    <3>5. QED BY <1>1, <3>1, <3>3, <3>4
  <2>3. ASSUME AtLineEnd(v, p - n + 1), NEW q \in p + 1 .. Len(t),
               \A i \in p + 1 .. q - 1 : t[i] = "sp"
        PROVE  t[q] \in {"sp", "nl"}
    <3>1. q - n \in p - n + 1 .. Len(v) /\ q - n \in 1..Len(v) /\ n + (q - n) = q
      BY <1>1, <2>1
    <3>2. ASSUME NEW i \in p - n + 1 .. q - n - 1 PROVE v[i] = "sp"
      <4>1. n + i \in p + 1 .. q - 1 /\ i \in 1..Len(v)
        BY <1>1, <2>1, <3>1
      <4>2. QED BY <1>1, <2>3, <4>1
    <3>3. v[q - n] \in {"sp", "nl"}
      BY <2>3, <3>1, <3>2 DEF AtLineEnd
    <3>4. QED BY <1>1, <3>1, <3>3
  <2>4. QED BY <2>2, <2>3 DEF AtLineEnd
<1>5. QED BY <1>3, <1>4 DEF t, n

\* A fence is one of the text's places.
LEMMA FencePlaces ==
  ASSUME NEW T, NEW t \in Seq(T), NEW m, NEW limit \in 1 .. Len(t) + 1
  PROVE  /\ Fences(t, m, limit) \in SUBSET (0..Len(t)) /\ Fences(t, m, limit) \subseteq 1..Len(t)
         /\ Fences(t, m, limit) # {} =>
                LET f == Max(Fences(t, m, limit))
                IN  /\ f \in 1 .. limit - 1 /\ t[f] = m /\ AtLineEnd(t, f + 1)
                    /\ \A p \in Fences(t, m, limit) : f >= p
<1>1. Len(t) \in Nat
  BY LenProperties
<1> DEFINE F == Fences(t, m, limit)
<1>2. /\ F \in SUBSET (0..Len(t)) /\ F \subseteq 1..Len(t)
      /\ \A p \in F : p \in 1 .. limit - 1 /\ t[p] = m /\ AtLineEnd(t, p + 1)
  BY <1>1 DEF Fences
<1> HIDE DEF F
<1>3. F # {} => Max(F) \in F /\ \A p \in F : Max(F) >= p
  BY <1>1, <1>2, MinMax
<1>4. QED BY <1>2, <1>3 DEF F

\* Behind a closed text, a text that closes no fence leaves its reply alone.
LEMMA NothingFenced ==
  ASSUME NEW T, NEW u \in Seq(T), NEW v \in Seq(T), Closed(u),
         Fences(v, "E", Len(v) + 1) = {}
  PROVE  ExtractBetween(u \o v) = ExtractBetween(u)
<1> DEFINE t == u \o v
           n == Len(u)
<1>1. /\ t \in Seq(T) /\ Len(t) = n + Len(v) /\ n \in Nat /\ Len(v) \in Nat
      /\ \A i \in 1..n : t[i] = u[i]
      /\ \A i \in 1..Len(v) : t[n + i] = v[i]
  BY Joined2
<1>2. \A p \in 1..n : u[p] # "nl" => (AtLineEnd(t, p + 1) <=> AtLineEnd(u, p + 1))
  <2> TAKE p \in 1..n
  <2>1. p \in 1 .. Len(u) + Len(v)
    BY <1>1
  <2>2. QED BY <2>1, LineEndsApart
<1>3. \A p \in 1..Len(v) : AtLineEnd(t, n + p + 1) <=> AtLineEnd(v, p + 1)
  <2> TAKE p \in 1..Len(v)
  <2>1. n + p \in 1 .. Len(u) + Len(v) /\ n + p > Len(u) /\ (n + p) - Len(u) + 1 = p + 1
    BY <1>1
  <2>2. QED BY <2>1, LineEndsApart
<1> HIDE DEF t, n
<1>4. \A m \in {"B", "E"}, limit \in 1 .. n + 1 : Fences(t, m, limit) = Fences(u, m, limit)
  <2> TAKE m \in {"B", "E"}, limit \in 1 .. n + 1
  <2>1. \A p \in 1 .. limit - 1 : p \in 1..n /\ t[p] = u[p]
    BY <1>1
  <2>2. m # "nl"
    OBVIOUS
  <2>3. QED BY <1>2, <2>1, <2>2 DEF Fences
<1>5. Fences(t, "E", Len(t) + 1) = Fences(u, "E", n + 1)
  <2>1. ASSUME NEW p \in 1..Len(t), t[p] = "E", AtLineEnd(t, p + 1) PROVE p <= n
    <3> SUFFICES ASSUME p > n PROVE FALSE
      BY <1>1
    <3>1. p - n \in 1..Len(v) /\ n + (p - n) = p /\ n + (p - n) + 1 = p + 1
      BY <1>1
    <3>2. v[p - n] = "E" /\ AtLineEnd(v, p - n + 1)
      BY <1>1, <1>3, <2>1, <3>1
    <3>3. p - n \in Fences(v, "E", Len(v) + 1)
      BY <1>1, <3>1, <3>2 DEF Fences
    <3>4. QED BY <3>3
  <2>2. Fences(t, "E", Len(t) + 1) = Fences(t, "E", n + 1)
    BY <1>1, <2>1 DEF Fences
  <2>3. QED BY <1>1, <1>4, <2>2
<1>6. CASE Fences(u, "E", n + 1) = {}
  BY <1>5, <1>6 DEF ExtractBetween, t, n
<1>7. CASE Fences(u, "E", n + 1) # {}
  <2> DEFINE e == Max(Fences(u, "E", n + 1))
             B == Fences(u, "B", e)
  <2>1. e \in 1..n /\ u \in Seq(T) /\ n + 1 \in 1 .. Len(u) + 1
    BY <1>1, <1>7, FencePlaces DEF n
  <2>2. B = Fences(t, "B", e)
    BY <1>1, <1>4, <2>1
  <2>3. B # {} => Max(B) \in 1 .. e - 1
    BY <1>1, <2>1, FencePlaces DEF n
  <2> HIDE DEF e, B
  <2>4. ASSUME B # {} PROVE SubSeq(t, Max(B) + 1, e - 1) = SubSeq(u, Max(B) + 1, e - 1)
    <3>1. PICK b : b = Max(B)
      OBVIOUS
    <3>2. b \in 1 .. e - 1 /\ b + 1 \in Int /\ e - 1 \in Int
      BY <1>1, <2>1, <2>3, <2>4, <3>1
    <3>3. /\ 1 <= b + 1 /\ (b + 1) - 1 <= e - 1 /\ e - 1 <= Len(u) /\ e - 1 <= Len(t)
          /\ (e - 1) - (b + 1) = (e - 1) - (b + 1)
      BY <1>1, <2>1, <3>2 DEF n
    <3>4. \A i \in b + 1 .. e - 1 : t[(b + 1) + (i - (b + 1))] = u[i]
      BY <1>1, <2>1, <3>2
    <3>5. SubSeq(t, b + 1, e - 1) = SubSeq(u, b + 1, e - 1)
      BY <1>1, <3>2, <3>3, <3>4, SameCut
    <3>6. QED BY <3>1, <3>5
  <2>5. ExtractBetween(t) = IF B = {} THEN None ELSE Some(Trim(SubSeq(t, Max(B) + 1, e - 1)))
    BY <1>5, <1>7, <2>2 DEF ExtractBetween, e
  <2>6. ExtractBetween(u) = IF B = {} THEN None ELSE Some(Trim(SubSeq(u, Max(B) + 1, e - 1)))
    BY <1>7 DEF ExtractBetween, e, B, n
  <2>7. ExtractBetween(t) = ExtractBetween(u)
    <3>1. CASE B = {}
      BY <2>5, <2>6, <3>1, Zenon
    <3>2. CASE B # {}
      <4>1. SubSeq(t, Max(B) + 1, e - 1) = SubSeq(u, Max(B) + 1, e - 1)
        BY <2>4, <3>2
      <4>2. QED BY <2>5, <2>6, <3>2, <4>1, Zenon
    <3>3. QED BY <3>1, <3>2
  <2>8. QED BY <2>7 DEF t
<1>8. QED BY <1>6, <1>7

\* A marker that stands in prose: what is behind it on its line is no blank.
InProse(s, p) == \E q \in p + 1 .. Len(s) :
                     (\A i \in p + 1 .. q - 1 : s[i] = "sp") /\ s[q] \notin {"sp", "nl"}

\* The reply between a fence and the last closing marker, on a line of its own.
LastIn(t, mid, n, e) ==
    /\ e \in 1..Len(t) /\ e = n + Len(mid) + 2 /\ t[n + 1] = "B" /\ t[e] = "E"
    /\ \A i \in 1..Len(mid) : t[n + 1 + i] = mid[i]
    /\ \A i \in e + 1 .. Len(t) : t[i] \in {"sp", "nl"}
    /\ \E k \in 1..Len(mid) : mid[k] = "nl" /\ \A i \in 1 .. k - 1 : mid[i] = "sp"
    /\ \A i \in 1..Len(mid) : mid[i] = "B" => InProse(mid, i)

LEMMA LastFence ==
  ASSUME NEW T, NEW t \in Seq(T), NEW mid \in Seq(T), NEW n \in Nat, NEW e, LastIn(t, mid, n, e)
  PROVE  ExtractBetween(t) = Some(Trim(mid))
<1>0. /\ e \in 1..Len(t) /\ e = n + Len(mid) + 2 /\ t[n + 1] = "B" /\ t[e] = "E"
      /\ \A i \in 1..Len(mid) : t[n + 1 + i] = mid[i]
      /\ \A i \in e + 1 .. Len(t) : t[i] \in {"sp", "nl"}
      /\ \A i \in 1..Len(mid) : mid[i] = "B" => InProse(mid, i)
  BY DEF LastIn
<1>00. PICK k \in 1..Len(mid) : mid[k] = "nl" /\ \A i \in 1 .. k - 1 : mid[i] = "sp"
  BY DEF LastIn
<1> USE <1>0, <1>00
<1>1. Len(t) \in Nat /\ Len(mid) \in Nat
  BY LenProperties
<1> DEFINE m == Len(mid)
           ends == Fences(t, "E", Len(t) + 1)
           begins == Fences(t, "B", e)
<1>2. e \in ends /\ \A p \in ends : p <= e
  <2>1. AtLineEnd(t, e + 1)
    BY DEF AtLineEnd
  <2>2. e \in ends
    BY <1>1, <2>1 DEF Fences
  <2>3. ASSUME NEW p \in ends, p > e PROVE FALSE
    <3>1. p \in e + 1 .. Len(t) /\ t[p] = "E"
      BY <1>1, <2>3 DEF Fences
    <3>2. QED BY <3>1
  <2>4. ends \subseteq 1..Len(t)
    BY <1>1 DEF Fences
  <2> HIDE DEF ends
  <2>5. QED BY <1>1, <2>2, <2>3, <2>4
<1>3. Max(ends) = e
  <2>1. ends \in SUBSET (0..Len(t))
    BY <1>1 DEF Fences
  <2> HIDE DEF ends
  <2>2. PICK x : x = Max(ends)
    OBVIOUS
  <2>3. x \in ends /\ \A p \in ends : x >= p
    BY <1>1, <1>2, <2>1, <2>2, MinMax
  <2>4. x \in Nat /\ x <= e /\ x >= e
    BY <1>1, <1>2, <2>1, <2>3
  <2>5. QED BY <2>2, <2>4
<1>4. n + 1 \in begins
  <2>1. ASSUME NEW q \in n + 1 + 1 .. Len(t), \A i \in n + 1 + 1 .. q - 1 : t[i] = "sp"
        PROVE  t[q] \in {"sp", "nl"}
    <3>1. t[n + 1 + k] = "nl" /\ n + 1 + k \in Nat
      BY <1>1
    <3>2. q <= n + 1 + k
      <4> SUFFICES ASSUME q > n + 1 + k PROVE FALSE
        BY <1>1
      <4>1. n + 1 + k \in n + 1 + 1 .. q - 1
        BY <1>1
      <4>2. QED BY <2>1, <3>1, <4>1
    <3>3. q - (n + 1) \in 1..k /\ n + 1 + (q - (n + 1)) = q
      BY <1>1, <3>2
    <3>4. t[q] = mid[q - (n + 1)]
      BY <1>1, <3>3
    <3>5. CASE q - (n + 1) = k
      BY <3>4, <3>5
    <3>6. CASE q - (n + 1) # k
      <4>1. q - (n + 1) \in 1 .. k - 1
        BY <1>1, <3>3, <3>6
      <4>2. QED BY <3>4, <4>1
    <3>7. QED BY <3>5, <3>6
  <2>2. n + 1 \in 1 .. e - 1
    BY <1>1
  <2>3. AtLineEnd(t, n + 1 + 1)
    BY <2>1 DEF AtLineEnd
  <2>4. QED BY <2>2, <2>3 DEF Fences
<1>5. ASSUME NEW p \in begins PROVE p <= n + 1
  <2>1. p \in 1 .. e - 1 /\ t[p] = "B" /\ AtLineEnd(t, p + 1)
    BY <1>5 DEF Fences
  <2>2. SUFFICES ASSUME p > n + 1 PROVE FALSE
    BY <1>1, <2>1
  <2>3. PICK i \in 1..m : p = n + 1 + i
    <3>1. p - (n + 1) \in 1..m /\ n + 1 + (p - (n + 1)) = p
      BY <1>1, <2>1, <2>2
    <3>2. QED BY <3>1
  <2>4. PICK q \in i + 1 .. m : (\A j \in i + 1 .. q - 1 : mid[j] = "sp") /\ mid[q] \notin {"sp", "nl"}
    BY <2>1, <2>3 DEF InProse
  <2>5. PICK r \in p + 1 .. Len(t) : r = n + 1 + q
    BY <1>1, <2>3, <2>4
  <2>6. ASSUME NEW j \in p + 1 .. r - 1 PROVE t[j] = "sp"
    <3>1. j - (n + 1) \in i + 1 .. q - 1 /\ j - (n + 1) \in 1..m /\ n + 1 + (j - (n + 1)) = j
      BY <1>1, <2>3, <2>4, <2>5
    <3>2. mid[j - (n + 1)] = "sp"
      BY <2>4, <3>1
    <3>3. QED BY <3>1, <3>2
  <2>7. t[r] \in {"sp", "nl"}
    BY <2>1, <2>5, <2>6 DEF AtLineEnd
  <2>8. q \in 1..m
    BY <1>1, <2>3, <2>4
  <2>9. QED BY <2>4, <2>5, <2>7, <2>8
<1>6. Max(begins) = n + 1
  <2>1. begins \in SUBSET (0..Len(t))
    BY <1>1 DEF Fences
  <2> HIDE DEF begins
  <2>2. PICK x : x = Max(begins)
    OBVIOUS
  <2>3. x \in begins /\ \A p \in begins : x >= p
    BY <1>1, <1>4, <2>1, <2>2, MinMax
  <2>4. x \in Nat /\ x <= n + 1 /\ x >= n + 1
    BY <1>1, <1>4, <1>5, <2>1, <2>3
  <2>5. QED BY <2>2, <2>4
<1>7. SubSeq(t, n + 1 + 1, e - 1) = mid
  <2>1. SubSeq(mid, 1, m) = mid
    BY SubSeqFull
  <2>2. /\ 1 \in Int /\ m \in Int /\ n + 1 + 1 \in Int /\ e - 1 \in Int
        /\ 1 <= 1 /\ 1 - 1 <= m /\ m <= Len(mid) /\ 1 <= n + 1 + 1 /\ e - 1 <= Len(t)
        /\ (e - 1) - (n + 1 + 1) = m - 1
    BY <1>1
  <2>3. \A i \in 1..m : t[(n + 1 + 1) + (i - 1)] = mid[i]
    <3> TAKE i \in 1..m
    <3>1. (n + 1 + 1) + (i - 1) = n + 1 + i
      BY <1>1
    <3>2. QED BY <3>1
  <2>4. SubSeq(t, n + 1 + 1, e - 1) = SubSeq(mid, 1, m)
    BY <2>2, <2>3, SameCut
  <2>5. QED BY <2>1, <2>4
<1>8. ends # {} /\ begins # {}
  BY <1>2, <1>4
<1> HIDE DEF ends, begins
<1>9. ExtractBetween(t) = Some(Trim(SubSeq(t, Max(begins) + 1, Max(ends) - 1)))
  BY <1>3, <1>8, Zenon DEF ExtractBetween, ends, begins
<1>10. QED BY <1>3, <1>6, <1>7, <1>9

-----------------------------------------------------------------------------
(* Blanks around a text.                                                   *)

\* They are trimmed.
LEMMA TrimBlanks ==
  ASSUME NEW T, NEW t \in Seq(T), NEW s \in Seq(T), NEW n \in Nat,
         n + Len(s) <= Len(t), \A i \in 1..Len(s) : t[n + i] = s[i],
         \A i \in 1..n : t[i] \in Blanks,
         \A i \in n + Len(s) + 1 .. Len(t) : t[i] \in Blanks
  PROVE  Trim(t) = Trim(s)
<1> DEFINE K == {i \in DOMAIN s : s[i] \notin Blanks}
           L == {i \in DOMAIN t : t[i] \notin Blanks}
<1>1. Len(s) \in Nat /\ Len(t) \in Nat /\ DOMAIN s = 1..Len(s) /\ DOMAIN t = 1..Len(t)
  BY LenProperties
<1>2. \A i \in K : i \in 1..Len(s) /\ n + i \in L
  BY <1>1
<1>3. ASSUME NEW i \in L PROVE i - n \in K
  <2>1. i \in 1..Len(t) /\ t[i] \notin Blanks
    BY <1>1
  <2>2. i > n /\ i <= n + Len(s)
    <3>1. i \notin 1..n /\ i \notin n + Len(s) + 1 .. Len(t)
      BY <2>1
    <3>2. QED BY <1>1, <2>1, <3>1
  <2>3. i - n \in 1..Len(s) /\ n + (i - n) = i
    BY <1>1, <2>1, <2>2
  <2>4. QED BY <1>1, <2>1, <2>3
<1>4. /\ K \in SUBSET (0..Len(s)) /\ L \in SUBSET (0..Len(t))
      /\ K \subseteq 1..Len(s) /\ L \subseteq 1..Len(t)
  BY <1>1
<1>5. /\ Trim(s) = IF K = {} THEN <<>> ELSE SubSeq(s, Min(K), Max(K))
      /\ Trim(t) = IF L = {} THEN <<>> ELSE SubSeq(t, Min(L), Max(L))
  BY DEF Trim
<1> HIDE DEF K, L
<1>6. CASE K = {}
  <2>1. L = {}
    BY <1>3, <1>6
  <2>2. QED BY <1>5, <1>6, <2>1
<1>7. CASE K # {}
  <2>1. L # {}
    BY <1>2, <1>7
  <2>2. PICK a, b : a = Min(K) /\ b = Max(K)
    OBVIOUS
  <2>3. a \in K /\ b \in K /\ \A i \in K : a <= i /\ i <= b
    BY <1>1, <1>4, <1>7, <2>2, MinMax
  <2>4. PICK c, d : c = Min(L) /\ d = Max(L)
    OBVIOUS
  <2>5. c \in L /\ d \in L /\ \A i \in L : c <= i /\ i <= d
    BY <1>1, <1>4, <2>1, <2>4, MinMax
  <2>6. a \in 1..Len(s) /\ b \in 1..Len(s) /\ c \in 1..Len(t) /\ d \in 1..Len(t) /\ a <= b
    BY <1>1, <1>4, <2>3, <2>5
  <2>7. c = n + a /\ d = n + b
    <3>1. c <= n + a /\ n + b <= d
      BY <1>2, <2>3, <2>5
    <3>2. a <= c - n /\ d - n <= b
      BY <1>3, <2>3, <2>5
    <3>3. QED BY <1>1, <2>6, <3>1, <3>2
  <2>8. \A i \in a..b : t[c + (i - a)] = s[i]
    <3> TAKE i \in a..b
    <3>1. i \in 1..Len(s) /\ c + (i - a) = n + i
      BY <1>1, <2>6, <2>7
    <3>2. QED BY <3>1
  <2>9. /\ a \in Int /\ b \in Int /\ c \in Int /\ d \in Int /\ 1 <= a /\ a - 1 <= b
        /\ b <= Len(s) /\ 1 <= c /\ d <= Len(t) /\ d - c = b - a
    BY <1>1, <2>6, <2>7
  <2>10. SubSeq(t, c, d) = SubSeq(s, a, b)
    BY <2>8, <2>9, SameCut
  <2>11. QED BY <1>5, <1>7, <2>1, <2>2, <2>4, <2>10
<1>8. QED BY <1>6, <1>7

-----------------------------------------------------------------------------
(* A fenced reply.                                                         *)

\* What replies are: no line ends in the opening marker.
Replies == {s \in Seq(Characters) : \A i \in 1..Len(s) : s[i] = "B" => InProse(s, i)}

Pads == {<<>>, <<"sp">>}

LEMMA CharactersAre ==
  /\ {"sp", "nl", "n", "u", "B", "E", "qt", "bs", "ctl", "astral", "lone"} \subseteq Characters
  /\ {"K", "x", "HI", "LO", "CU", "end"} \cap Characters = {}
  BY DEF Characters

LEMMA PadIs ==
  ASSUME NEW T, "sp" \in T, NEW pad \in Pads
  PROVE  /\ pad \in Seq(T) /\ Len(pad) \in 0..1 /\ \A i \in 1..Len(pad) : pad[i] = "sp"
<1>1. CASE pad = <<>>
  BY <1>1
<1>2. CASE pad = <<"sp">>
  BY <1>2
<1>3. QED BY <1>1, <1>2 DEF Pads

\* What stands where in a fence with p blanks around b characters.
FenceWith(f, T, body, p, b) ==
    /\ f \in Seq(T) /\ p \in 0..1 /\ b \in Nat /\ Len(f) = p + b + 4 + p
    /\ f[1] = "B" /\ f[p + 2] = "nl" /\ f[p + b + 3] = "nl" /\ f[p + b + 4] = "E"
    /\ \A i \in 1..p : f[1 + i] = "sp" /\ f[p + b + 4 + i] = "sp"
    /\ \A i \in 1..b : f[p + 2 + i] = body[i]

LEMMA FenceIs ==
  ASSUME NEW T, {"B", "E", "nl", "sp"} \subseteq T, NEW body \in Seq(T), NEW pad \in Pads,
         NEW p, p = Len(pad), NEW b, b = Len(body)
  PROVE  FenceWith(Fence(body, pad), T, body, p, b)
<1> DEFINE x1 == <<"B">>
           x2 == x1 \o pad
           x3 == x2 \o <<"nl">>
           x4 == x3 \o body
           y  == <<"nl", "E">>
           x5 == x4 \o y
           x6 == x5 \o pad
<1>0. pad \in Seq(T) /\ p \in 0..1 /\ b \in Nat /\ \A i \in 1..p : pad[i] = "sp"
  BY PadIs, LenProperties
<1>2. /\ x1 \in Seq(T) /\ Len(x1) = 1 /\ x1[1] = "B"
      /\ <<"nl">> \in Seq(T) /\ Len(<<"nl">>) = 1 /\ <<"nl">>[1] = "nl"
      /\ y \in Seq(T) /\ Len(y) = 2 /\ y[1] = "nl" /\ y[2] = "E"
  OBVIOUS
<1> HIDE DEF x1, y
<1>3. /\ x2 \in Seq(T) /\ Len(x2) = 1 + p /\ x2[1] = "B"
      /\ \A i \in 1..p : x2[1 + i] = "sp"
  <2>0. x1 \in Seq(T) /\ pad \in Seq(T)
    BY <1>0, <1>2
  <2>1. /\ x2 \in Seq(T) /\ Len(x2) = Len(x1) + Len(pad)
        /\ Len(x1) \in Nat /\ Len(pad) \in Nat
        /\ \A i \in 1..Len(x1) : x2[i] = x1[i]
        /\ \A i \in 1..Len(pad) : x2[Len(x1) + i] = pad[i]
    BY <2>0, Joined2
  <2> HIDE DEF x2
  <2>2. QED BY <1>0, <1>2, <2>1
<1> HIDE DEF x2
<1>4. /\ x3 \in Seq(T) /\ Len(x3) = 2 + p /\ x3[1] = "B" /\ x3[p + 2] = "nl"
      /\ \A i \in 1..p : x3[1 + i] = "sp"
  BY <1>0, <1>2, <1>3, Joined2
<1> HIDE DEF x3
<1>5. /\ x4 \in Seq(T) /\ Len(x4) = 2 + p + b /\ x4[1] = "B" /\ x4[p + 2] = "nl"
      /\ \A i \in 1..p : x4[1 + i] = "sp"
      /\ \A i \in 1..b : x4[p + 2 + i] = body[i]
  <2>0. x3 \in Seq(T)
    BY <1>0, <1>4
  <2>1. /\ x4 \in Seq(T) /\ Len(x4) = Len(x3) + Len(body)
        /\ Len(x3) \in Nat /\ Len(body) \in Nat
        /\ \A i \in 1..Len(x3) : x4[i] = x3[i]
        /\ \A i \in 1..Len(body) : x4[Len(x3) + i] = body[i]
    BY <2>0, Joined2
  <2> HIDE DEF x4
  <2>2. QED BY <1>0, <1>4, <2>1
<1> HIDE DEF x4
<1>6. /\ x5 \in Seq(T) /\ Len(x5) = 4 + p + b /\ x5[1] = "B" /\ x5[p + 2] = "nl"
      /\ x5[p + b + 3] = "nl" /\ x5[p + b + 4] = "E"
      /\ \A i \in 1..p : x5[1 + i] = "sp"
      /\ \A i \in 1..b : x5[p + 2 + i] = body[i]
  <2>0. x4 \in Seq(T) /\ y \in Seq(T)
    BY <1>0, <1>2, <1>5
  <2>1. /\ x5 \in Seq(T) /\ Len(x5) = Len(x4) + Len(y)
        /\ Len(x4) \in Nat /\ Len(y) \in Nat
        /\ \A i \in 1..Len(x4) : x5[i] = x4[i]
        /\ \A i \in 1..Len(y) : x5[Len(x4) + i] = y[i]
    BY <2>0, Joined2
  <2> HIDE DEF x5
  <2>2. x5[p + b + 3] = "nl" /\ x5[p + b + 4] = "E"
    <3>1. 1 \in 1..Len(y) /\ 2 \in 1..Len(y) /\ Len(x4) + 1 = p + b + 3 /\ Len(x4) + 2 = p + b + 4
      BY <1>0, <1>2, <1>5
    <3>2. QED BY <1>2, <2>1, <3>1
  <2>3. /\ 1 \in 1..Len(x4) /\ p + 2 \in 1..Len(x4) /\ \A i \in 1..p : 1 + i \in 1..Len(x4)
        /\ \A i \in 1..b : p + 2 + i \in 1..Len(x4)
    BY <1>0, <1>5
  <2>4. Len(x5) = 4 + p + b
    BY <1>0, <1>2, <1>5, <2>1
  <2>5. QED BY <1>5, <2>1, <2>2, <2>3, <2>4, ZenonT(30)
<1> HIDE DEF x5
<1>7. /\ x6 \in Seq(T) /\ Len(x6) = p + b + 4 + p /\ x6[1] = "B" /\ x6[p + 2] = "nl"
      /\ x6[p + b + 3] = "nl" /\ x6[p + b + 4] = "E"
      /\ \A i \in 1..p : x6[1 + i] = "sp" /\ x6[p + b + 4 + i] = "sp"
      /\ \A i \in 1..b : x6[p + 2 + i] = body[i]
  <2>0. x5 \in Seq(T) /\ pad \in Seq(T)
    BY <1>0, <1>6
  <2>1. /\ x6 \in Seq(T) /\ Len(x6) = Len(x5) + Len(pad)
        /\ Len(x5) \in Nat /\ Len(pad) \in Nat
        /\ \A i \in 1..Len(x5) : x6[i] = x5[i]
        /\ \A i \in 1..Len(pad) : x6[Len(x5) + i] = pad[i]
    BY <2>0, Joined2
  <2> HIDE DEF x6
  <2>2. /\ 1 \in 1..Len(x5) /\ p + 2 \in 1..Len(x5) /\ \A i \in 1..p : 1 + i \in 1..Len(x5)
        /\ \A i \in 1..b : p + 2 + i \in 1..Len(x5)
        /\ p + b + 3 \in 1..Len(x5) /\ p + b + 4 \in 1..Len(x5)
    BY <1>0, <1>6
  <2>3. \A i \in 1..p : x6[p + b + 4 + i] = "sp"
    <3> TAKE i \in 1..p
    <3>1. i \in 1..Len(pad) /\ Len(x5) + i = p + b + 4 + i
      BY <1>0, <1>6
    <3>2. x6[Len(x5) + i] = pad[i] /\ pad[i] = "sp"
      BY <1>0, <2>1, <3>1
    <3>3. QED BY <3>1, <3>2
  <2>4. Len(x6) = p + b + 4 + p
    BY <1>0, <1>6, <2>1
  <2>5. QED BY <1>6, <2>1, <2>2, <2>3, <2>4
<1>8. x6 = Fence(body, pad)
  BY DEF Fence, x1, x2, x3, x4, x5, y
<1>9. QED BY <1>0, <1>7, <1>8 DEF FenceWith

\* Whatever is before it, and if only blanks are behind it, a fenced reply is read.
LEMMA FenceIsRead ==
  ASSUME NEW T, Characters \subseteq T, NEW u \in Seq(T), NEW body \in Replies, NEW pad \in Pads,
         NEW tail \in Seq({"sp", "nl"})
  PROVE  /\ u \o Fence(body, pad) \o tail \in Seq(T)
         /\ ExtractBetween(u \o Fence(body, pad) \o tail) = Some(Trim(body))
<1> DEFINE f == Fence(body, pad)
           x == u \o f
           t == x \o tail
<1>0. PICK n, p, b : n = Len(u) /\ p = Len(pad) /\ b = Len(body)
  OBVIOUS
<1> DEFINE e == n + p + b + 4
           mid == SubSeq(f, 2, p + b + 3)
<1>1. body \in Seq(T) /\ tail \in Seq(T) /\ {"B", "E", "nl", "sp"} \subseteq T
  BY CharactersAre, SeqMonotonic DEF Replies
<1>2. /\ f \in Seq(T) /\ p \in 0..1 /\ b \in Nat /\ Len(f) = p + b + 4 + p
      /\ f[1] = "B" /\ f[p + 2] = "nl" /\ f[p + b + 3] = "nl" /\ f[p + b + 4] = "E"
      /\ \A i \in 1..p : f[1 + i] = "sp" /\ f[p + b + 4 + i] = "sp"
      /\ \A i \in 1..b : f[p + 2 + i] = body[i]
  <2>1. body \in Seq(T) /\ {"B", "E", "nl", "sp"} \subseteq T
    BY <1>1
  <2>2. p = Len(pad) /\ b = Len(body)
    BY <1>0
  <2>3. FenceWith(f, T, body, p, b)
    BY <2>1, <2>2, FenceIs
  <2> HIDE DEF f
  <2>4. QED BY <2>3 DEF FenceWith
<1> HIDE DEF f
<1>3. /\ n \in Nat /\ x \in Seq(T) /\ Len(x) = n + Len(f)
      /\ \A i \in 1..Len(f) : x[n + i] = f[i]
  <2>0. f \in Seq(T)
    BY <1>2
  <2>1. /\ x \in Seq(T) /\ Len(x) = Len(u) + Len(f)
        /\ Len(u) \in Nat /\ Len(f) \in Nat
        /\ \A i \in 1..Len(u) : x[i] = u[i]
        /\ \A i \in 1..Len(f) : x[Len(u) + i] = f[i]
    BY <2>0, Joined2
  <2> HIDE DEF x
  <2>2. QED BY <1>0, <2>1
<1> HIDE DEF x
<1>4. /\ t \in Seq(T) /\ Len(t) = n + Len(f) + Len(tail) /\ Len(tail) \in Nat
      /\ \A i \in 1..Len(f) : t[n + i] = f[i]
      /\ \A i \in 1..Len(tail) : t[n + Len(f) + i] \in {"sp", "nl"}
  <2>0. x \in Seq(T) /\ tail \in Seq(T)
    BY <1>1, <1>3
  <2>1. /\ t \in Seq(T) /\ Len(t) = Len(x) + Len(tail) /\ Len(tail) \in Nat
        /\ \A i \in 1..Len(x) : t[i] = x[i]
        /\ \A i \in 1..Len(tail) : t[Len(x) + i] = tail[i]
    BY <2>0, Joined2
  <2>2. \A i \in 1..Len(tail) : tail[i] \in {"sp", "nl"}
    BY ElementOfSeq
  <2> HIDE DEF t
  <2>3. \A i \in 1..Len(f) : n + i \in 1..Len(x)
    BY <1>2, <1>3
  <2>4. QED BY <1>2, <1>3, <2>1, <2>2, <2>3, ZenonT(30)
<1> HIDE DEF t
<1>5. /\ mid \in Seq(T) /\ Len(mid) = p + b + 2
      /\ \A i \in 1 .. p + b + 2 : mid[i] = f[1 + i]
  <2>1. 2 \in 1 .. Len(f) + 1 /\ p + b + 3 \in 2 - 1 .. Len(f)
    BY <1>2
  <2>2. PICK c : c = p + b + 3
    OBVIOUS
  <2>3. /\ SubSeq(f, 2, c) \in Seq(T) /\ Len(SubSeq(f, 2, c)) = c - 2 + 1
        /\ \A i \in 1 .. c - 2 + 1 : SubSeq(f, 2, c)[i] = f[2 + i - 1]
    BY <1>2, <2>1, <2>2, CutOut
  <2>4. c - 2 + 1 = p + b + 2 /\ \A i \in 1 .. p + b + 2 : 2 + i - 1 = 1 + i
    BY <1>2, <2>2
  <2>5. QED BY <2>2, <2>3, <2>4
<1> HIDE DEF mid
<1>6. /\ \A i \in 1..b : mid[p + 1 + i] = body[i]
      /\ \A i \in 1..p : mid[i] = "sp"
      /\ mid[p + 1] = "nl" /\ mid[p + b + 2] = "nl"
  <2>1. \A i \in 1..b : p + 1 + i \in 1 .. p + b + 2 /\ 1 + (p + 1 + i) = p + 2 + i
    BY <1>2
  <2>2. \A i \in 1..p : i \in 1 .. p + b + 2
    BY <1>2
  <2>3. /\ p + 1 \in 1 .. p + b + 2 /\ 1 + (p + 1) = p + 2
        /\ p + b + 2 \in 1 .. p + b + 2 /\ 1 + (p + b + 2) = p + b + 3
    BY <1>2
  <2>4. QED BY <1>2, <1>5, <2>1, <2>2, <2>3
<1>7. ASSUME NEW i \in 1..Len(mid), mid[i] = "B" PROVE InProse(mid, i)
  <2>1. i \notin 1..p /\ i # p + 1 /\ i # p + b + 2
    BY <1>6, <1>7
  <2>2. PICK j \in 1..b : i = p + 1 + j
    <3>1. i - (p + 1) \in 1..b /\ i = p + 1 + (i - (p + 1))
      BY <1>2, <1>5, <2>1
    <3>2. QED BY <3>1
  <2>3. body[j] = "B"
    BY <1>6, <1>7, <2>2
  <2>4. PICK q \in j + 1 .. b : (\A h \in j + 1 .. q - 1 : body[h] = "sp") /\ body[q] \notin {"sp", "nl"}
    BY <1>0, <2>3 DEF Replies, InProse
  <2>5. PICK r \in i + 1 .. Len(mid) : r = p + 1 + q
    BY <1>2, <1>5, <2>2, <2>4
  <2>6. mid[r] \notin {"sp", "nl"}
    <3>1. q \in 1..b
      BY <1>2, <2>2, <2>4
    <3>2. QED BY <1>6, <2>4, <2>5, <3>1
  <2>7. ASSUME NEW h \in i + 1 .. r - 1 PROVE mid[h] = "sp"
    <3>1. h - (p + 1) \in j + 1 .. q - 1 /\ h - (p + 1) \in 1..b /\ p + 1 + (h - (p + 1)) = h
      BY <1>2, <1>5, <2>2, <2>4, <2>5
    <3>2. body[h - (p + 1)] = "sp"
      BY <2>4, <3>1
    <3>3. QED BY <1>6, <3>1, <3>2
  <2>8. QED BY <2>5, <2>6, <2>7 DEF InProse
<1>8. Trim(mid) = Trim(body)
  <2>1. /\ p + 1 \in Nat /\ p + 1 + Len(body) <= Len(mid)
        /\ \A i \in 1..Len(body) : mid[p + 1 + i] = body[i]
    BY <1>0, <1>2, <1>5, <1>6
  <2>2. ASSUME NEW i \in 1 .. p + 1 PROVE mid[i] \in Blanks
    <3>1. i \in 1..p \/ i = p + 1
      BY <1>2
    <3>2. QED BY <1>6, <3>1 DEF Blanks
  <2>3. ASSUME NEW i \in p + 1 + Len(body) + 1 .. Len(mid) PROVE mid[i] \in Blanks
    <3>1. p + 1 + b + 1 <= i /\ i <= p + b + 2 /\ i \in Int
      BY <1>0, <1>2, <1>5
    <3>2. i = p + b + 2
      BY <1>2, <3>1
    <3>3. QED BY <1>6, <3>2 DEF Blanks
  <2>4. mid \in Seq(T) /\ body \in Seq(T)
    BY <1>1, <1>5
  <2>5. PICK c : c = p + 1
    OBVIOUS
  <2>6. QED BY <2>1, <2>2, <2>3, <2>4, <2>5, TrimBlanks
<1>9. /\ e \in 1..Len(t) /\ e = n + Len(mid) + 2 /\ t[n + 1] = "B" /\ t[e] = "E"
      /\ p + 1 \in 1..Len(mid) /\ mid[p + 1] = "nl" /\ \A i \in 1 .. (p + 1) - 1 : mid[i] = "sp"
  <2>1. 1 \in 1..Len(f) /\ p + b + 4 \in 1..Len(f) /\ n + (p + b + 4) = e
    BY <1>2, <1>3
  <2>2. \A i \in 1 .. (p + 1) - 1 : i \in 1..p
    BY <1>2
  <2>3. t[n + 1] = "B" /\ t[e] = "E"
    BY <1>2, <1>4, <2>1
  <2>4. e \in 1..Len(t) /\ e = n + Len(mid) + 2 /\ p + 1 \in 1..Len(mid)
    BY <1>2, <1>3, <1>4, <1>5
  <2>5. QED BY <1>6, <2>2, <2>3, <2>4
<1>10. \A i \in 1..Len(mid) : t[n + 1 + i] = mid[i]
  <2> TAKE i \in 1..Len(mid)
  <2>1. 1 + i \in 1..Len(f) /\ n + (1 + i) = n + 1 + i /\ i \in 1 .. p + b + 2
    BY <1>2, <1>3, <1>5
  <2>2. QED BY <1>4, <1>5, <2>1
<1>11. ASSUME NEW i \in e + 1 .. Len(t) PROVE t[i] \in {"sp", "nl"}
  <2>1. CASE i > n + Len(f)
    <3>1. i - (n + Len(f)) \in 1..Len(tail) /\ n + Len(f) + (i - (n + Len(f))) = i
      BY <1>2, <1>3, <1>4, <2>1
    <3>2. QED BY <1>4, <3>1
  <2>2. CASE ~ (i > n + Len(f))
    <3>1. i - e \in 1..p /\ p + b + 4 + (i - e) \in 1..Len(f) /\ n + (p + b + 4 + (i - e)) = i
      BY <1>2, <1>3, <1>4, <2>2
    <3>2. QED BY <1>2, <1>4, <3>1
  <2>3. QED BY <2>1, <2>2
<1>12. ExtractBetween(t) = Some(Trim(mid))
  <2>1. PICK k : k = p + 1
    OBVIOUS
  <2>2. k \in 1..Len(mid) /\ mid[k] = "nl" /\ \A i \in 1 .. k - 1 : mid[i] = "sp"
    BY <1>9, <2>1
  <2>3. t \in Seq(T) /\ mid \in Seq(T) /\ n \in Nat
    BY <1>3, <1>4, <1>5
  <2> HIDE DEF e
  <2>4. /\ e \in 1..Len(t) /\ e = n + Len(mid) + 2 /\ t[n + 1] = "B" /\ t[e] = "E"
    BY <1>9
  <2>5. LastIn(t, mid, n, e)
    BY <1>7, <1>10, <1>11, <2>2, <2>4 DEF LastIn
  <2>6. QED BY <2>3, <2>5, LastFence
<1>13. QED BY <1>4, <1>8, <1>12 DEF t, x, f

\* What replies are composed to is a reply.
LEMMA RepliesJoin ==
  ASSUME NEW x \in Replies, NEW y \in Replies
  PROVE  x \o y \in Replies
<1> DEFINE t == x \o y
<1>1. x \in Seq(Characters) /\ y \in Seq(Characters)
  BY DEF Replies
<1>2. /\ t \in Seq(Characters) /\ Len(t) = Len(x) + Len(y)
      /\ Len(x) \in Nat /\ Len(y) \in Nat
      /\ \A i \in 1..Len(x) : t[i] = x[i]
      /\ \A i \in 1..Len(y) : t[Len(x) + i] = y[i]
  BY <1>1, Joined2
<1> HIDE DEF t
<1>3. ASSUME NEW i \in 1..Len(t), t[i] = "B" PROVE InProse(t, i)
  <2>1. CASE i <= Len(x)
    <3>1. i \in 1..Len(x) /\ x[i] = "B"
      BY <1>2, <1>3, <2>1
    <3>2. PICK q \in i + 1 .. Len(x) : (\A h \in i + 1 .. q - 1 : x[h] = "sp") /\ x[q] \notin {"sp", "nl"}
      BY <3>1 DEF Replies, InProse
    <3>3. q \in i + 1 .. Len(t) /\ q \in 1..Len(x) /\ \A h \in i + 1 .. q - 1 : h \in 1..Len(x)
      BY <1>2, <3>1
    <3>4. t[q] \notin {"sp", "nl"} /\ \A h \in i + 1 .. q - 1 : t[h] = "sp"
      BY <1>2, <3>2, <3>3
    <3>5. QED BY <3>3, <3>4 DEF InProse
  <2>2. CASE ~ (i <= Len(x))
    <3>1. PICK j \in 1..Len(y) : i = Len(x) + j
      <4>1. i - Len(x) \in 1..Len(y) /\ i = Len(x) + (i - Len(x))
        BY <1>2, <2>2
      <4>2. QED BY <4>1
    <3>2. y[j] = "B"
      BY <1>2, <1>3, <3>1
    <3>3. PICK q \in j + 1 .. Len(y) : (\A h \in j + 1 .. q - 1 : y[h] = "sp") /\ y[q] \notin {"sp", "nl"}
      BY <3>2 DEF Replies, InProse
    <3>4. PICK r \in i + 1 .. Len(t) : r = Len(x) + q
      BY <1>2, <3>1
    <3>5. t[r] \notin {"sp", "nl"}
      <4>1. q \in 1..Len(y)
        BY <1>2, <3>1
      <4>2. QED BY <1>2, <3>3, <3>4, <4>1
    <3>6. ASSUME NEW h \in i + 1 .. r - 1 PROVE t[h] = "sp"
      <4>1. h - Len(x) \in j + 1 .. q - 1 /\ h - Len(x) \in 1..Len(y) /\ Len(x) + (h - Len(x)) = h
        BY <1>2, <3>1, <3>3, <3>4
      <4>2. y[h - Len(x)] = "sp"
        BY <3>3, <4>1
      <4>3. QED BY <1>2, <4>1, <4>2
    <3>7. QED BY <3>4, <3>5, <3>6 DEF InProse
  <2>3. QED BY <2>1, <2>2
<1>4. QED BY <1>2, <1>3 DEF Replies, t

LEMMA PieceIs ==
  ASSUME NEW piece \in Pieces
  PROVE  piece \in Replies
<1>1. piece \in Seq(Characters) /\ DOMAIN piece = 1..Len(piece)
  BY ExtractAssumption, LenProperties DEF ExtractAssumption
<1>2. ASSUME NEW i \in 1..Len(piece), piece[i] = "B" PROVE InProse(piece, i)
  <2>1. ~AtLineEnd(piece, i + 1)
    BY <1>1, <1>2, BodiesDoNotOpen DEF BodiesDoNotOpen
  <2>2. QED BY <2>1 DEF AtLineEnd, InProse
<1>3. QED BY <1>1, <1>2 DEF Replies

LEMMA BodyIs == Body \subseteq Replies
<1>1. Replies \in SUBSET Seq(Characters) /\ <<>> \in Replies
  BY DEF Replies
<1>2. \A x, y \in Replies : x \o y \in Replies
  BY RepliesJoin
<1>3. \A piece \in Pieces : piece \in Replies
  BY PieceIs
<1>4. ASSUME NEW n \in 0..MaxPieces, NEW ps \in [1..n -> Pieces] PROVE FlattenSeq(ps) \in Replies
  <2>1. n \in Nat
    BY ExtractAssumption DEF ExtractAssumption
  <2>2. ps \in Seq(Replies)
    <3>1. ps \in [1..n -> Replies]
      BY <1>3
    <3> HIDE DEF Replies
    <3>2. QED BY <2>1, <3>1, SeqDef
  <2>3. QED BY <1>1, <1>2, <2>2, FlattenIn
<1>5. QED BY <1>4 DEF Body

-----------------------------------------------------------------------------
(* Lines.                                                                  *)

\* The lines of a text, one by one.
LinesUpTo(f, s) ==
    /\ f[0] = <<>>
    /\ \A i \in 1 .. Len(s) + 1 :
          f[i] = IF i \in LineEnds(s) THEN Append(f[i - 1], Line(s, i)) ELSE f[i - 1]

LEMMA LinesAre ==
  ASSUME NEW T, NEW s \in Seq(T), NEW V, \A e \in LineEnds(s) : Line(s, e) \in V
  PROVE  \E f \in [0 .. Len(s) + 1 -> Seq(V)] : LinesUpTo(f, s) /\ LinesOf(s) = f[Len(s) + 1]
<1> DEFINE n == Len(s) + 1
           W == Seq(V)
           step == [i \in 1..n |-> [r \in W |->
                       IF i \in LineEnds(s) THEN Append(r, Line(s, i)) ELSE r]]
           F(g) == [i \in 0..n |-> IF i = 0 THEN <<>>
                       ELSE IF i \in LineEnds(s) THEN Append(g[i - 1], Line(s, i)) ELSE g[i - 1]]
           Upto == CHOOSE g : g = F(g)
<1>1. n \in Nat
  BY LenProperties
<1>2. LinesOf(s) = Upto[n]
  BY DEF LinesOf
<1> HIDE DEF n
<1>3. <<>> \in W /\ \A i \in 1..n, r \in W : i \in LineEnds(s) => Append(r, Line(s, i)) \in W
  BY AppendProperties
<1> HIDE DEF W
<1>4. step \in [1..n -> [W -> W]]
  BY <1>3
<1>5. \A i \in 1..n : \A r \in W : step[i][r] = IF i \in LineEnds(s) THEN Append(r, Line(s, i)) ELSE r
  OBVIOUS
<1> HIDE DEF step
<1>6. PICK f \in [0..n -> W] : Follows(f, <<>>, step, n)
  BY <1>1, <1>3, <1>4, SomeRecursion
<1>7. \A i \in 1..n : f[i] = IF i \in LineEnds(s) THEN Append(f[i - 1], Line(s, i)) ELSE f[i - 1]
  <2> TAKE i \in 1..n
  <2>1. f[i - 1] \in W
    BY <1>1, <1>6
  <2>2. QED BY <1>5, <1>6, <2>1 DEF Follows
<1>8. f = F(f)
  <2>1. \A i \in 0..n : i = 0 \/ i \in 1..n
    BY <1>1
  <2>2. \A i \in 0..n : f[i] = IF i = 0 THEN <<>>
                 ELSE IF i \in LineEnds(s) THEN Append(f[i - 1], Line(s, i)) ELSE f[i - 1]
    BY <1>6, <1>7, <2>1 DEF Follows
  <2>3. f = [i \in 0..n |-> f[i]]
    BY <1>6
  <2>4. QED BY <2>2, <2>3
<1>9. Upto = F(Upto)
  <2> HIDE DEF F
  <2>1. QED BY <1>8
<1> HIDE DEF Upto
<1>10. /\ Upto[0] = <<>>
       /\ \A i \in 1..n : Upto[i] =
              IF i \in LineEnds(s) THEN Append(Upto[i - 1], Line(s, i)) ELSE Upto[i - 1]
  <2>1. 0 \in 0..n /\ \A i \in 1..n : i \in 0..n /\ i # 0
    BY <1>1
  <2>2. \A i \in 0..n : Upto[i] = IF i = 0 THEN <<>>
                 ELSE IF i \in LineEnds(s) THEN Append(Upto[i - 1], Line(s, i)) ELSE Upto[i - 1]
    BY <1>9
  <2>3. QED BY <2>1, <2>2
<1>11. \A i \in 0..n : f[i] = Upto[i]
  <2>1. Alike(f, Upto, n)
    BY <1>6, <1>7, <1>10 DEF Alike, Follows
  <2>2. QED BY <1>1, <2>1, SameRecursion
<1>12. f[n] = Upto[n]
  BY <1>1, <1>11
<1>13. QED BY <1>2, <1>6, <1>7, <1>12 DEF LinesUpTo, Follows, n, W

\* Where the lines of a text end, and where the one that ends there begins.
LEMMA LineIs ==
  ASSUME NEW T, NEW s \in Seq(T), NEW e \in LineEnds(s)
  PROVE  /\ e \in 1 .. Len(s) + 1 /\ (e <= Len(s) => s[e] = "nl") /\ Len(s) \in Nat
         /\ \E b \in 1..e : /\ Line(s, e) = SubSeq(s, b, e - 1)
                            /\ \A i \in b .. e - 1 : s[i] # "nl"
                            /\ b = 1 \/ (b - 1 \in LineEnds(s) /\ s[b - 1] = "nl")
<1>1. Len(s) \in Nat /\ DOMAIN s = 1..Len(s)
  BY LenProperties
<1>2. /\ \A x \in LineEnds(s) : x \in 1 .. Len(s) + 1 /\ (x <= Len(s) => s[x] = "nl")
      /\ \A i \in 1..Len(s) : s[i] = "nl" => i \in LineEnds(s)
  BY <1>1 DEF LineEnds
<1> DEFINE S == {0} \cup {x \in LineEnds(s) : x < e}
<1>3. S \in SUBSET (0 .. Len(s) + 1) /\ S # {} /\ Len(s) + 1 \in Nat
  BY <1>1, <1>2
<1>4. PICK m : m = Max(S)
  OBVIOUS
<1>5. m \in S /\ \A k \in S : m >= k
  <2> HIDE DEF S
  <2>1. QED BY <1>3, <1>4, MinMax
<1>6. m \in Nat /\ m + 1 \in 1..e /\ e \in 1 .. Len(s) + 1
  BY <1>2, <1>5
<1>7. Line(s, e) = SubSeq(s, m + 1, e - 1)
  BY <1>4 DEF Line
<1>8. ASSUME NEW i \in m + 1 .. e - 1 PROVE s[i] # "nl"
  <2>1. i \in 1..Len(s) /\ i < e /\ i > m
    BY <1>1, <1>6
  <2>2. QED BY <1>1, <1>2, <1>5, <2>1
<1>9. m + 1 = 1 \/ (m + 1 - 1 \in LineEnds(s) /\ s[m + 1 - 1] = "nl")
  <2>1. CASE m = 0
    BY <2>1
  <2>2. CASE m # 0
    <3>1. m \in LineEnds(s) /\ m < e /\ m + 1 - 1 = m
      BY <1>5, <1>6, <2>2
    <3>2. m <= Len(s)
      BY <1>1, <1>6, <3>1
    <3>3. QED BY <1>2, <3>1, <3>2
  <2>3. QED BY <2>1, <2>2
<1>10. QED BY <1>1, <1>2, <1>6, <1>7, <1>8, <1>9, SMTT(30)

-----------------------------------------------------------------------------
(* A screen without fences.                                                *)

ScreenTokens == Characters \cup Words \cup {"a", "b"}

\* Markers are named in prose only.
Chat == {s \in Seq(ScreenTokens) : \A p \in 1..Len(s) : s[p] \in {"B", "E"} =>
            p + 2 <= Len(s) /\ s[p + 1] = "sp" /\ s[p + 2] = "n"}

LEMMA ChatJoin ==
  ASSUME NEW x \in Chat, NEW y \in Chat
  PROVE  x \o y \in Chat
<1> DEFINE t == x \o y
<1>1. x \in Seq(ScreenTokens) /\ y \in Seq(ScreenTokens)
  BY DEF Chat
<1>2. /\ t \in Seq(ScreenTokens) /\ Len(t) = Len(x) + Len(y)
      /\ Len(x) \in Nat /\ Len(y) \in Nat
      /\ \A i \in 1..Len(x) : t[i] = x[i]
      /\ \A i \in 1..Len(y) : t[Len(x) + i] = y[i]
  BY <1>1, Joined2
<1> HIDE DEF t
<1>3. ASSUME NEW p \in 1..Len(t), t[p] \in {"B", "E"}
      PROVE  p + 2 <= Len(t) /\ t[p + 1] = "sp" /\ t[p + 2] = "n"
  <2>1. CASE p <= Len(x)
    <3>1. p \in 1..Len(x) /\ x[p] \in {"B", "E"}
      BY <1>2, <1>3, <2>1
    <3>2. p + 2 <= Len(x) /\ x[p + 1] = "sp" /\ x[p + 2] = "n"
      BY <3>1 DEF Chat
    <3>3. p + 1 \in 1..Len(x) /\ p + 2 \in 1..Len(x)
      BY <1>2, <3>1, <3>2
    <3>4. QED BY <1>2, <3>2, <3>3
  <2>2. CASE ~ (p <= Len(x))
    <3>1. PICK j \in 1..Len(y) : p = Len(x) + j
      <4>1. p - Len(x) \in 1..Len(y) /\ p = Len(x) + (p - Len(x))
        BY <1>2, <2>2
      <4>2. QED BY <4>1
    <3>2. y[j] \in {"B", "E"}
      BY <1>2, <1>3, <3>1
    <3>3. j + 2 <= Len(y) /\ y[j + 1] = "sp" /\ y[j + 2] = "n"
      BY <3>2 DEF Chat
    <3>4. /\ j + 1 \in 1..Len(y) /\ j + 2 \in 1..Len(y)
          /\ Len(x) + (j + 1) = p + 1 /\ Len(x) + (j + 2) = p + 2
      BY <1>2, <3>1, <3>3
    <3>5. QED BY <1>2, <3>3, <3>4
  <2>3. QED BY <2>1, <2>2
<1>4. QED BY <1>2, <1>3 DEF Chat, t

\* So it has no fence.
LEMMA ChatUnfenced ==
  ASSUME NEW s \in Chat
  PROVE  ExtractBetween(s) = None
<1>1. Len(s) \in Nat
  BY LenProperties DEF Chat
<1>2. ASSUME NEW p \in 1..Len(s), s[p] = "E" PROVE ~AtLineEnd(s, p + 1)
  <2>1. p + 2 <= Len(s) /\ s[p + 1] = "sp" /\ s[p + 2] = "n"
    BY <1>2 DEF Chat
  <2>2. p + 2 \in p + 1 .. Len(s) /\ \A i \in p + 1 .. (p + 2) - 1 : i = p + 1
    BY <1>1, <2>1
  <2>3. QED BY <2>1, <2>2 DEF AtLineEnd
<1>3. Fences(s, "E", Len(s) + 1) = {}
  BY <1>1, <1>2 DEF Fences
<1>4. QED BY <1>3 DEF ExtractBetween

\* Nor do its lines, or the text they make.
LEMMA ChatLines ==
  ASSUME NEW s \in Chat
  PROVE  LinesOf(s) \in Seq(Chat)
<1>1. s \in Seq(ScreenTokens)
  BY DEF Chat
<1>2. ASSUME NEW e \in LineEnds(s) PROVE Line(s, e) \in Chat
  <2>1. PICK b \in 1..e : Line(s, e) = SubSeq(s, b, e - 1)
    BY <1>1, LineIs
  <2>2. e \in 1 .. Len(s) + 1 /\ (e <= Len(s) => s[e] = "nl") /\ Len(s) \in Nat
    BY <1>1, LineIs
  <2>3. PICK a : a = e - 1
    OBVIOUS
  <2>4. b \in 1 .. Len(s) + 1 /\ a \in b - 1 .. Len(s)
    BY <2>2, <2>3
  <2>5. PICK l : l = SubSeq(s, b, a)
    OBVIOUS
  <2>6. /\ l \in Seq(ScreenTokens) /\ Len(l) = a - b + 1
        /\ \A i \in 1 .. a - b + 1 : l[i] = s[b + i - 1]
    BY <1>1, <2>4, <2>5, CutOut
  <2>7. ASSUME NEW p \in 1..Len(l), l[p] \in {"B", "E"}
        PROVE  p + 2 <= Len(l) /\ l[p + 1] = "sp" /\ l[p + 2] = "n"
    <3>1. PICK q \in 1..Len(s) : q = b + p - 1
      BY <2>2, <2>4, <2>6
    <3>2. s[q] \in {"B", "E"}
      BY <2>6, <2>7, <3>1
    <3>3. q + 2 <= Len(s) /\ s[q + 1] = "sp" /\ s[q + 2] = "n"
      BY <3>2 DEF Chat
    <3>4. q + 2 <= a
      <4>1. q <= a
        BY <2>2, <2>3, <2>4, <2>6, <3>1
      <4>2. e # q + 1 /\ e # q + 2
        BY <2>2, <3>3
      <4>3. QED BY <2>2, <2>3, <2>4, <3>1, <3>3, <4>1, <4>2
    <3>5. /\ p + 1 \in 1 .. a - b + 1 /\ p + 2 \in 1 .. a - b + 1
          /\ b + (p + 1) - 1 = q + 1 /\ b + (p + 2) - 1 = q + 2
      BY <2>2, <2>3, <2>4, <2>6, <3>1, <3>4
    <3>6. QED BY <2>6, <3>3, <3>5
  <2>8. QED BY <2>1, <2>3, <2>5, <2>6, <2>7, ZenonT(30) DEF Chat
<1>3. PICK f \in [0 .. Len(s) + 1 -> Seq(Chat)] : LinesOf(s) = f[Len(s) + 1]
  BY <1>1, <1>2, LinesAre
<1>4. Len(s) + 1 \in 0 .. Len(s) + 1
  BY <1>1, LenProperties
<1>5. QED BY <1>3, <1>4

LEMMA ChatJoined ==
  ASSUME NEW lines \in Seq(Chat)
  PROVE  Join(lines) \in Chat
<1>1. <<"nl">> \in Chat /\ <<>> \in Chat
  BY CharactersAre DEF Chat, ScreenTokens
<1>2. Chat \in SUBSET Seq(ScreenTokens)
  BY DEF Chat
<1>3. Len(lines) \in Nat /\ DOMAIN lines = 1..Len(lines) /\ \A i \in 1..Len(lines) : lines[i] \in Chat
  BY LenProperties, ElementOfSeq
<1> DEFINE ss == [i \in DOMAIN lines |-> IF i = 1 THEN lines[i] ELSE <<"nl">> \o lines[i]]
<1>4. ss \in [1..Len(lines) -> Chat]
  BY <1>1, <1>3, ChatJoin
<1>5. ss \in Seq(Chat)
  <2> HIDE DEF ss
  <2>1. QED BY <1>3, <1>4, SeqDef
<1>6. \A x, y \in Chat : x \o y \in Chat
  BY ChatJoin
<1> HIDE DEF ss
<1>7. FlattenSeq(ss) \in Chat
  BY <1>1, <1>2, <1>5, <1>6, FlattenIn
<1>8. QED BY <1>7 DEF Join, ss

\* Answers of the CLIs that omit the markers name none.
Plain == Seq(Words \cup {"a", "b"})

LEMMA PlainIsChat ==
  /\ Plain \subseteq Chat /\ Chat \subseteq Seq(ScreenTokens) /\ <<>> \in Plain
  /\ \A m \in {"dot", "mark", "status", "rule", "prompt", "nl", "sp"} : <<m>> \in Chat
  /\ <<"dot", "sp">> \in Chat /\ <<"sp", "sp">> \in Chat
  /\ <<"prompt", "sp", "n", "sp", "B">> \o <<"sp", "n">> \in Chat
  /\ <<"sp", "sp", "n", "sp", "E", "sp", "n">> \in Chat
<1>1. /\ {"dot", "mark", "status", "rule", "prompt", "nl", "sp", "n", "B", "E", "a", "b"} \subseteq ScreenTokens
      /\ Words \cup {"a", "b"} \subseteq ScreenTokens
      /\ "B" \notin Words \cup {"a", "b"} /\ "E" \notin Words \cup {"a", "b"}
  BY DEF ScreenTokens, Characters, Words
<1>2. ASSUME NEW s \in Plain PROVE s \in Chat
  <2>1. s \in Seq(Words \cup {"a", "b"}) /\ \A i \in 1..Len(s) : s[i] \in Words \cup {"a", "b"}
    BY ElementOfSeq DEF Plain
  <2>2. s \in Seq(ScreenTokens)
    BY <1>1, <2>1, SeqMonotonic
  <2>3. QED BY <1>1, <2>1, <2>2 DEF Chat
<1>3. \A m \in {"dot", "mark", "status", "rule", "prompt", "nl", "sp"} : <<m>> \in Chat
  BY <1>1 DEF Chat
<1>4. <<"dot", "sp">> \in Chat /\ <<"sp", "sp">> \in Chat
  BY <1>1 DEF Chat
<1>5. <<"sp", "sp", "n", "sp", "E", "sp", "n">> \in Chat
  <2> DEFINE s == <<"sp", "sp", "n", "sp", "E", "sp", "n">>
  <2>1. s \in Seq(ScreenTokens) /\ Len(s) = 7
    BY <1>1
  <2>2. \A p \in 1..7 : s[p] \in {"B", "E"} => p = 5
    OBVIOUS
  <2>3. s[6] = "sp" /\ s[7] = "n"
    OBVIOUS
  <2> HIDE DEF s
  <2>4. \A p \in 1..Len(s) : s[p] \in {"B", "E"} => p + 2 <= Len(s) /\ s[p + 1] = "sp" /\ s[p + 2] = "n"
    BY <2>1, <2>2, <2>3
  <2>5. s \in Chat
    BY <2>1, <2>4 DEF Chat
  <2>6. QED BY <2>5 DEF s
<1>6. <<"prompt", "sp", "n", "sp", "B">> \o <<"sp", "n">> \in Chat
  <2> DEFINE s == <<"prompt", "sp", "n", "sp", "B", "sp", "n">>
  <2>1. s \in Seq(ScreenTokens) /\ Len(s) = 7
    BY <1>1
  <2>2. \A p \in 1..7 : s[p] \in {"B", "E"} => p = 5
    OBVIOUS
  <2>3. s[6] = "sp" /\ s[7] = "n"
    OBVIOUS
  <2>4. s = <<"prompt", "sp", "n", "sp", "B">> \o <<"sp", "n">>
    OBVIOUS
  <2> HIDE DEF s
  <2>5. \A p \in 1..Len(s) : s[p] \in {"B", "E"} => p + 2 <= Len(s) /\ s[p + 1] = "sp" /\ s[p + 2] = "n"
    BY <2>1, <2>2, <2>3
  <2>6. s \in Chat
    BY <2>1, <2>5 DEF Chat
  <2>7. QED BY <2>4, <2>6
<1>7. <<>> \in Plain
  BY DEF Plain
<1>8. Plain \subseteq Chat /\ Chat \subseteq Seq(ScreenTokens)
  BY <1>2 DEF Chat
<1>9. QED BY <1>3, <1>4, <1>5, <1>6, <1>7, <1>8

LEMMA WordedIs ==
  ASSUME NEW answer \in AnswerTexts
  PROVE  Worded(answer) \in Seq(Plain) /\ Len(Worded(answer)) >= 1
<1>1. AnswerLines \subseteq Seq(Words) /\ MaxRows \in Nat
  BY ExtractAssumption DEF ExtractAssumption
<1>2. PICK n \in 0 .. MaxRows - 1 : \E ls \in [1..n -> AnswerLines] : answer = << <<"text">> >> \o ls
  BY DEF AnswerTexts
<1>2a. PICK ls \in [1..n -> AnswerLines] : answer = << <<"text">> >> \o ls
  BY <1>2
<1> DEFINE V == Seq(Words)
<1>3. <<"text">> \in V
  BY DEF Words
<1>4. /\ answer \in Seq(V) /\ Len(answer) = n + 1 /\ n \in Nat
  <2>1. << <<"text">> >> \in Seq(V) /\ Len(<< <<"text">> >>) = 1
    <3> HIDE DEF V
    <3>1. QED BY <1>3
  <2>2. n \in Nat /\ ls \in [1..n -> V]
    BY <1>1
  <2>3. ls \in Seq(V) /\ Len(ls) = n
    <3> HIDE DEF V
    <3>1. ls \in Seq(V)
      BY <2>2, SeqDef
    <3>2. QED BY <2>2, <3>1, LenProperties
  <2> HIDE DEF V
  <2>4. /\ << <<"text">> >> \o ls \in Seq(V)
        /\ Len(<< <<"text">> >> \o ls) = Len(<< <<"text">> >>) + Len(ls)
    BY <2>1, <2>3, Joined2
  <2>5. QED BY <1>2a, <2>1, <2>2, <2>3, <2>4
<1>5. DOMAIN answer = 1 .. n + 1 /\ \A k \in 1 .. n + 1 : answer[k] \in Seq(Words)
  BY <1>4, LenProperties, ElementOfSeq
<1> DEFINE letter == IF "a" \in ToSet(screen) THEN "b" ELSE "a"
           Said(line) == [i \in DOMAIN line |-> IF line[i] = "text" THEN letter ELSE line[i]]
           w == [k \in DOMAIN answer |-> Said(answer[k])]
<1>6. w = Worded(answer)
  BY DEF Worded
<1>7. letter \in {"a", "b"}
  OBVIOUS
<1> HIDE DEF letter
<1>8. ASSUME NEW line \in Seq(Words) PROVE Said(line) \in Plain
  <2>1. DOMAIN line = 1..Len(line) /\ Len(line) \in Nat /\ \A i \in 1..Len(line) : line[i] \in Words
    BY LenProperties, ElementOfSeq
  <2>2. Said(line) \in [1..Len(line) -> Words \cup {"a", "b"}]
    BY <1>7, <2>1
  <2>3. QED BY <2>1, <2>2, SeqDef DEF Plain
<1>9. w \in [1 .. n + 1 -> Plain]
  BY <1>5, <1>8
<1> HIDE DEF w
<1>10. w \in Seq(Plain)
  BY <1>4, <1>9, SeqDef
<1>11. Len(w) = n + 1
  BY <1>4, <1>9, <1>10, LenProperties
<1>12. QED BY <1>4, <1>6, <1>10, <1>11

-----------------------------------------------------------------------------
(* The reply on the screen.                                                *)

\* What FencedReply needs: a message ends its last line, so the next one cannot change
\* where the lines of the earlier ones end; and a target that omits the markers names
\* them in prose only.
ScreenInv ==
    /\ program \in {"unknown", "claude", "codex"}
    /\ program = "unknown" => /\ screen \in Seq(Characters) /\ Closed(screen)
                              /\ shown \in Seq(Replies)
    /\ program # "unknown" => screen \in Chat /\ shown = <<>>
    /\ FencedReply

LEMMA CloseJoin ==
  ASSUME NEW T, NEW x \in Seq(T), NEW y \in Seq(T), Closed(y), y # <<>>
  PROVE  Closed(x \o y)
<1>1. /\ x \o y \in Seq(T) /\ Len(x \o y) = Len(x) + Len(y)
      /\ Len(x) \in Nat /\ Len(y) \in Nat
      /\ \A i \in 1..Len(y) : (x \o y)[Len(x) + i] = y[i]
  BY Joined2
<1>2. Len(y) \in 1..Len(y) /\ y[Len(y)] = "nl"
  <2>1. Len(y) # 0
    BY EmptySeq
  <2>2. QED BY <1>1, <2>1 DEF Closed
<1>3. (x \o y)[Len(x \o y)] = "nl"
  BY <1>1, <1>2
<1>4. QED BY <1>3 DEF Closed

\* An instruction is prose on the marker's line.
LEMMA MentionIsRead ==
  ASSUME NEW m \in {"B", "E"}, NEW s \in Seq(Characters), Closed(s)
  PROVE  LET t == s \o Instruction(m) \o <<"nl">>
         IN  t \in Seq(Characters) /\ Closed(t) /\ ExtractBetween(t) = ExtractBetween(s)
<1> DEFINE v == <<m, "sp", "n", "nl">>
<1>1. v \in Seq(Characters) /\ Len(v) = 4 /\ v # <<>> /\ v[4] = "nl" /\ v[2] = "sp" /\ v[3] = "n"
  BY CharactersAre
<1>2. \A i \in 1..4 : v[i] = "E" => i = 1
  OBVIOUS
<1>3. Instruction(m) \o <<"nl">> = v
  <2> DEFINE i == Instruction(m)
             w == i \o <<"nl">>
  <2>1. /\ i \in Seq(Characters) /\ Len(i) = 3 /\ i[1] = m /\ i[2] = "sp" /\ i[3] = "n"
        /\ <<"nl">> \in Seq(Characters) /\ Len(<<"nl">>) = 1 /\ <<"nl">>[1] = "nl"
    BY CharactersAre DEF Instruction
  <2>2. v[1] = m
    OBVIOUS
  <2> HIDE DEF i, v
  <2>3. /\ w \in Seq(Characters) /\ Len(w) = Len(i) + Len(<<"nl">>)
        /\ \A h \in 1..Len(i) : w[h] = i[h]
        /\ \A h \in 1..Len(<<"nl">>) : w[Len(i) + h] = <<"nl">>[h]
    <3>1. i \in Seq(Characters) /\ <<"nl">> \in Seq(Characters)
      BY <2>1
    <3>2. QED BY <3>1, Joined2
  <2> HIDE DEF w
  <2>4. \A h \in 1..4 : w[h] = v[h]
    <3>1. w[1] = m /\ w[2] = "sp" /\ w[3] = "n" /\ w[4] = "nl"
      BY <2>1, <2>3
    <3>2. \A h \in 1..4 : h = 1 \/ h = 2 \/ h = 3 \/ h = 4
      OBVIOUS
    <3>3. QED BY <1>1, <2>2, <3>1, <3>2
  <2>5. w = v
    BY <1>1, <2>1, <2>3, <2>4, SameItems, SMTT(30)
  <2>6. QED BY <2>5 DEF w, i
<1> HIDE DEF v
<1>4. s \o Instruction(m) \o <<"nl">> = s \o v
  <2>1. Instruction(m) \in Seq(Characters) /\ <<"nl">> \in Seq(Characters)
    BY CharactersAre DEF Instruction
  <2>2. (s \o Instruction(m)) \o <<"nl">> = s \o (Instruction(m) \o <<"nl">>)
    BY <2>1, ConcatAssociative
  <2>3. QED BY <1>3, <2>2
<1>5. Closed(v) /\ Closed(s \o v) /\ s \o v \in Seq(Characters)
  <2>1. Closed(v)
    BY <1>1 DEF Closed
  <2>2. QED BY <1>1, <2>1, CloseJoin, Joined2
<1>6. Fences(v, "E", Len(v) + 1) = {}
  <2>1. ~AtLineEnd(v, 2)
    BY <1>1 DEF AtLineEnd
  <2>2. QED BY <1>1, <1>2, <2>1 DEF Fences
<1>7. ExtractBetween(s \o v) = ExtractBetween(s)
  BY <1>1, <1>6, NothingFenced
<1>8. QED BY <1>4, <1>5, <1>7

\* A reply that was cut off closes no fence.
LEMMA AbandonIsRead ==
  ASSUME NEW body \in Replies, "E" \notin ToSet(body), NEW s \in Seq(Characters), Closed(s)
  PROVE  LET t == s \o <<"B", "nl">> \o body \o <<"nl">>
         IN  t \in Seq(Characters) /\ Closed(t) /\ ExtractBetween(t) = ExtractBetween(s)
<1>1. /\ body \in Seq(Characters) /\ <<"B", "nl">> \in Seq(Characters) /\ <<"nl">> \in Seq(Characters)
      /\ Len(body) \in Nat /\ Len(<<"B", "nl">>) = 2 /\ <<"B", "nl">>[1] = "B" /\ <<"B", "nl">>[2] = "nl"
      /\ Len(<<"nl">>) = 1 /\ <<"nl">>[1] = "nl" /\ <<"nl">> # <<>>
  BY CharactersAre, LenProperties DEF Replies
<1>2. \A i \in 1..Len(body) : body[i] # "E"
  BY <1>1, LenProperties DEF ToSet
<1> DEFINE x == <<"B", "nl">> \o body
           v == x \o <<"nl">>
<1>3. /\ x \in Seq(Characters) /\ Len(x) = 2 + Len(body)
      /\ \A i \in 1..2 : x[i] = <<"B", "nl">>[i]
      /\ \A i \in 1..Len(body) : x[2 + i] = body[i]
  BY <1>1, Joined2
<1>4. \A i \in 1..Len(x) : x[i] # "E"
  <2> TAKE i \in 1..Len(x)
  <2>1. i = 1 \/ i = 2 \/ (i - 2 \in 1..Len(body) /\ 2 + (i - 2) = i)
    BY <1>1, <1>3
  <2>2. CASE i = 1 \/ i = 2
    <3>1. i \in 1..2
      BY <2>2
    <3>2. <<"B", "nl">>[i] # "E"
      BY <2>2
    <3>3. QED BY <1>3, <3>1, <3>2
  <2>3. CASE i - 2 \in 1..Len(body) /\ 2 + (i - 2) = i
    <3>1. x[2 + (i - 2)] = body[i - 2] /\ body[i - 2] # "E"
      BY <1>2, <1>3, <2>3
    <3>2. QED BY <2>3, <3>1
  <2>4. QED BY <2>1, <2>2, <2>3
<1> HIDE DEF x
<1>5. /\ v \in Seq(Characters) /\ Len(v) = Len(x) + 1 /\ Len(x) \in Nat
      /\ \A i \in 1..Len(x) : v[i] = x[i]
      /\ \A i \in 1..1 : v[Len(x) + i] = <<"nl">>[i]
  BY <1>1, <1>3, Joined2
<1>6. v[Len(v)] = "nl" /\ v # <<>> /\ \A i \in 1..Len(v) : v[i] # "E"
  <2> HIDE DEF v
  <2>1. v[Len(x) + 1] = "nl"
    BY <1>1, <1>5
  <2>2. \A i \in 1..Len(v) : i \in 1..Len(x) \/ i = Len(x) + 1
    BY <1>5
  <2>3. v # <<>>
    BY <1>5
  <2>4. QED BY <1>4, <1>5, <2>1, <2>2, <2>3
<1>7. s \o <<"B", "nl">> \o body \o <<"nl">> = s \o v
  <2>1. s \o <<"B", "nl">> \o body = s \o x
    BY <1>1, ConcatAssociative DEF x
  <2>2. (s \o x) \o <<"nl">> = s \o (x \o <<"nl">>)
    BY <1>1, <1>3, ConcatAssociative, SMTT(30)
  <2>3. QED BY <2>1, <2>2
<1> HIDE DEF v
<1>8. Closed(s \o v) /\ s \o v \in Seq(Characters)
  <2>1. Closed(v)
    BY <1>6 DEF Closed
  <2>2. QED BY <1>5, <1>6, <2>1, CloseJoin, Joined2
<1>9. Fences(v, "E", Len(v) + 1) = {}
  BY <1>5, <1>6 DEF Fences
<1>10. ExtractBetween(s \o v) = ExtractBetween(s)
  BY <1>5, <1>9, NothingFenced
<1>11. QED BY <1>7, <1>8, <1>10

\* A completed reply is the one that is read.
LEMMA AnswerIsRead ==
  ASSUME NEW body \in Replies, NEW pad \in Pads, NEW quoted \in BOOLEAN,
         NEW s \in Seq(Characters), Closed(s)
  PROVE  LET quote == IF quoted THEN Instruction("B") ELSE <<>>
             t == s \o quote \o <<"nl">> \o Fence(body, pad) \o <<"nl">>
         IN  t \in Seq(Characters) /\ Closed(t) /\ ExtractBetween(t) = Some(Trim(body))
<1> DEFINE quote == IF quoted THEN Instruction("B") ELSE <<>>
           u == s \o quote \o <<"nl">>
           x == u \o Fence(body, pad)
           t == x \o <<"nl">>
<1>1. quote \in Seq(Characters) /\ <<"nl">> \in Seq(Characters) /\ <<"nl">> \in Seq({"sp", "nl"})
      /\ <<"nl">> # <<>> /\ Closed(<<"nl">>)
  BY CharactersAre DEF Instruction, Closed
<1> HIDE DEF quote
<1>2. u \in Seq(Characters)
  BY <1>1, ConcatProperties
<1> HIDE DEF u
<1>3. t \in Seq(Characters) /\ ExtractBetween(t) = Some(Trim(body))
  BY <1>1, <1>2, FenceIsRead
<1>4. Fence(body, pad) \in Seq(Characters)
  <2>1. body \in Seq(Characters) /\ {"B", "E", "nl", "sp"} \subseteq Characters
    BY CharactersAre DEF Replies
  <2>2. FenceWith(Fence(body, pad), Characters, body, Len(pad), Len(body))
    BY <2>1, FenceIs
  <2>3. QED BY <2>2 DEF FenceWith
<1>5. x \in Seq(Characters)
  BY <1>2, <1>4, ConcatProperties
<1>6. Closed(t)
  <2> HIDE DEF x
  <2>1. QED BY <1>1, <1>5, CloseJoin
<1>7. QED BY <1>3, <1>6 DEF quote, u, x, t

\* What is drawn below an answer, and the answer itself, only name the markers in prose.
LEMMA DrawIsChat ==
  ASSUME NEW answer \in AnswerTexts, screen \in Chat, Draw(Worded(answer))
  PROVE  screen' \in Chat
<1>1. PICK w : w = Worded(answer)
  OBVIOUS
<1>2. /\ w \in Seq(Plain) /\ Len(w) >= 1 /\ Len(w) \in Nat
      /\ \A k \in 1..Len(w) : w[k] \in Plain
  BY <1>1, WordedIs, LenProperties, ElementOfSeq
<1>3. \A x, y \in Chat : x \o y \in Chat
  BY ChatJoin
<1> DEFINE top == << <<"prompt", "sp", "n", "sp", "B">> \o <<"sp", "n">>,
                     <<"sp", "sp", "n", "sp", "E", "sp", "n">>, <<>>, <<"dot", "sp">> \o w[1] >>
           rest == [k \in 1 .. Len(w) - 1 |->
                      IF w[k + 1] = <<>> THEN <<>> ELSE <<"sp", "sp">> \o w[k + 1]]
           low == << <<>>, IF program = "claude" THEN <<"mark">> ELSE <<"status">>,
                     <<"rule">>, <<"prompt">>, <<>> >>
<1>4. screen' = screen \o Join(top \o rest \o low)
  BY <1>1 DEF Draw
<1>5. <<"dot", "sp">> \o w[1] \in Chat
  <2>1. w[1] \in Plain
    BY <1>2
  <2>2. QED BY <1>3, <2>1, PlainIsChat
<1>6. top \in Seq(Chat)
  <2>1. PICK a, b, c, d : /\ a = <<"prompt", "sp", "n", "sp", "B">> \o <<"sp", "n">>
                          /\ b = <<"sp", "sp", "n", "sp", "E", "sp", "n">>
                          /\ c = <<>> /\ d = <<"dot", "sp">> \o w[1]
    OBVIOUS
  <2>2. a \in Chat /\ b \in Chat /\ c \in Chat /\ d \in Chat
    BY <1>5, <2>1, PlainIsChat
  <2>3. <<a, b, c, d>> \in Seq(Chat)
    BY <2>2
  <2>4. QED BY <2>1, <2>3
<1>7. rest \in Seq(Chat)
  <2>1. ASSUME NEW k \in 1 .. Len(w) - 1
        PROVE  (IF w[k + 1] = <<>> THEN <<>> ELSE <<"sp", "sp">> \o w[k + 1]) \in Chat
    <3>1. k + 1 \in 1..Len(w)
      BY <1>2
    <3>2. w[k + 1] \in Plain
      BY <1>2, <3>1
    <3>3. QED BY <1>3, <3>2, PlainIsChat
  <2>2. Len(w) - 1 \in Nat
    BY <1>2
  <2>3. rest \in [1 .. Len(w) - 1 -> Chat]
    BY <2>1
  <2> HIDE DEF rest
  <2>4. QED BY <2>2, <2>3, SeqDef
<1>8. low \in Seq(Chat)
  <2>1. PICK a, b, c, d : /\ a = <<>> /\ b = (IF program = "claude" THEN <<"mark">> ELSE <<"status">>)
                          /\ c = <<"rule">> /\ d = <<"prompt">>
    OBVIOUS
  <2>2. a \in Chat /\ b \in Chat /\ c \in Chat /\ d \in Chat
    <3>1. b = <<"mark">> \/ b = <<"status">>
      BY <2>1
    <3>2. <<>> \in Chat
      BY PlainIsChat
    <3>3. QED BY <2>1, <3>1, <3>2, PlainIsChat
  <2>3. <<a, b, c, d, a>> \in Seq(Chat)
    BY <2>2
  <2>4. QED BY <2>1, <2>3
<1> HIDE DEF top, rest, low
<1>9. top \o rest \o low \in Seq(Chat)
  BY <1>6, <1>7, <1>8, ConcatProperties
<1>10. Join(top \o rest \o low) \in Chat
  BY <1>9, ChatJoined
<1>11. QED BY <1>3, <1>4, <1>10

LEMMA ScrollIsChat ==
  ASSUME screen \in Chat, ScrollOff
  PROVE  screen' \in Chat
<1>1. PICK lines : lines = LinesOf(screen)
  OBVIOUS
<1>2. lines \in Seq(Chat) /\ Len(lines) \in Nat /\ DOMAIN lines = 1..Len(lines)
  BY <1>1, ChatLines, LenProperties
<1>3. /\ Bullets(lines) # {} /\ Bullets(lines) \subseteq 1..Len(lines)
      /\ screen' = Join(SubSeq(lines, Max(Bullets(lines)) + 1, Len(lines)) \o << <<>> >>)
  BY <1>1, <1>2 DEF ScrollOff, Bullets
<1>4. PICK m : m = Max(Bullets(lines))
  OBVIOUS
<1>5. m \in 1..Len(lines)
  <2>1. Bullets(lines) \in SUBSET (0..Len(lines))
    BY <1>2, <1>3
  <2>2. m \in Bullets(lines)
    BY <1>2, <1>3, <1>4, <2>1, MinMax
  <2>3. QED BY <1>3, <2>2
<1>6. SubSeq(lines, m + 1, Len(lines)) \in Seq(Chat)
  <2>1. m + 1 \in 1 .. Len(lines) + 1 /\ Len(lines) \in m + 1 - 1 .. Len(lines)
    BY <1>2, <1>5
  <2>2. QED BY <1>2, <2>1, CutOut
<1>7. <<>> \in Chat
  BY PlainIsChat
<1>8. SubSeq(lines, m + 1, Len(lines)) \o << <<>> >> \in Seq(Chat)
  BY <1>6, <1>7, ConcatProperties
<1>9. QED BY <1>3, <1>4, <1>8, ChatJoined

\* The screen yields the reply that was completed last (`extract_between`): an echoed or
\* quoted instruction, a marker in a reply and a reply that was cut off change nothing.
THEOREM ScreenInvHolds == Spec => []ScreenInv
<1>1. Init => ScreenInv
  <2> SUFFICES ASSUME Init PROVE ScreenInv
    OBVIOUS
  <2>1. /\ program \in {"unknown", "claude", "codex"} /\ screen = <<>> /\ shown = <<>>
    BY DEF Init
  <2>2. screen \in Chat /\ screen \in Seq(Characters) /\ shown \in Seq(Replies) /\ Closed(screen)
    BY <2>1, PlainIsChat DEF Closed
  <2>3. ExtractBetween(screen) = None
    BY <2>2, ChatUnfenced
  <2>4. QED BY <2>1, <2>2, <2>3 DEF ScreenInv, FencedReply
<1>2. ASSUME ScreenInv, [Next]_vars PROVE ScreenInv'
  <2>0. Body \subseteq Replies
    BY BodyIs
  <2>1. CASE UNCHANGED vars
    BY <1>2, <2>1 DEF vars, fencedVars, ScreenInv, FencedReply
  <2>2. CASE program = "unknown" /\ ~torn /\ Fenced
    <3>0. /\ screen \in Seq(Characters) /\ Closed(screen) /\ shown \in Seq(Replies)
          /\ program = "unknown" /\ FencedReply
      BY <1>2, <2>2 DEF ScreenInv
    <3>1. ASSUME NEW marker \in {"B", "E"}, Mention(marker) PROVE ScreenInv'
      <4>1. /\ program' = "unknown" /\ shown' = shown
            /\ screen' = screen \o Instruction(marker) \o <<"nl">>
        BY <3>0, <3>1 DEF Mention, Message
      <4>2. screen' \in Seq(Characters) /\ Closed(screen') /\ ExtractBetween(screen') = ExtractBetween(screen)
        BY <3>0, <4>1, MentionIsRead
      <4>3. QED BY <3>0, <4>1, <4>2 DEF ScreenInv, FencedReply, Closed
    <3>2. ASSUME NEW body \in Body, NEW pad \in {<<>>, <<"sp">>}, NEW quoted \in BOOLEAN,
                 Answer(body, pad, quoted)
          PROVE  ScreenInv'
      <4>1. PICK quote : quote = IF quoted THEN Instruction("B") ELSE <<>>
        OBVIOUS
      <4>2. /\ program' = "unknown" /\ shown' = Append(shown, body)
            /\ screen' = screen \o quote \o <<"nl">> \o Fence(body, pad) \o <<"nl">>
        BY <3>0, <3>2, <4>1 DEF Answer, Message
      <4>3. body \in Replies /\ pad \in Pads
        BY <2>0 DEF Pads
      <4>4. screen' \in Seq(Characters) /\ Closed(screen') /\ ExtractBetween(screen') = Some(Trim(body))
        BY <3>0, <4>1, <4>2, <4>3, AnswerIsRead
      <4>5. shown' \in Seq(Replies) /\ shown' # <<>> /\ Last(shown') = body
        BY <3>0, <4>2, <4>3, AppendProperties DEF Last
      <4>6. QED BY <4>2, <4>4, <4>5 DEF ScreenInv, FencedReply, Closed
    <3>3. ASSUME NEW body \in Body, Abandon(body) PROVE ScreenInv'
      <4>1. /\ program' = "unknown" /\ shown' = shown /\ "E" \notin ToSet(body)
            /\ screen' = screen \o <<"B", "nl">> \o body \o <<"nl">>
        BY <3>0, <3>3 DEF Abandon, Message
      <4>2. screen' \in Seq(Characters) /\ Closed(screen') /\ ExtractBetween(screen') = ExtractBetween(screen)
        BY <2>0, <3>0, <4>1, AbandonIsRead
      <4>3. QED BY <3>0, <4>1, <4>2 DEF ScreenInv, FencedReply, Closed
    <3>4. ASSUME NEW k \in 1 .. Len(Last(file)) - 1, Tear(k) PROVE ScreenInv'
      <4>1. UNCHANGED <<program, screen, shown>>
        BY <3>4 DEF Tear
      <4>2. QED BY <1>2, <4>1 DEF ScreenInv, FencedReply
    <3>5. QED BY <2>2, <3>1, <3>2, <3>3, <3>4 DEF Fenced
  <2>3. CASE program # "unknown" /\ Unfenced
    <3>0. program \in {"claude", "codex"} /\ screen \in Chat /\ shown = <<>>
      BY <1>2, <2>3 DEF ScreenInv
    <3>1. program' = program /\ shown' = shown /\ screen' \in Chat
      <4>1. ASSUME NEW answer \in AnswerTexts, Draw(Worded(answer)) PROVE screen' \in Chat
        BY <3>0, <4>1, DrawIsChat
      <4>2. ASSUME ScrollOff PROVE screen' \in Chat
        BY <3>0, <4>2, ScrollIsChat
      <4>3. QED BY <2>3, <4>1, <4>2 DEF Unfenced, Draw, ScrollOff, fencedVars
    <3>2. ExtractBetween(screen') = None
      BY <3>1, ChatUnfenced
    <3>3. QED BY <3>0, <3>1, <3>2 DEF ScreenInv, FencedReply
  <2>4. QED BY <1>2, <2>1, <2>2, <2>3 DEF Next
<1>3. QED BY <1>1, <1>2, PTL DEF Spec

THEOREM ScreenYieldsLastReply == Spec => []FencedReply
<1>1. ScreenInv => FencedReply
  BY DEF ScreenInv
<1>2. QED BY <1>1, ScreenInvHolds, PTL

-----------------------------------------------------------------------------
(* Texts in JSON.                                                          *)

\* What the code's texts are made of: no halves of characters.
Whole == Characters \ {"lone"}

\* What JSON writes a text with, and a line.
Escapes == {"sp", "n", "u", "B", "E", "bs", "qt", "HI", "LO", "CU"}
Json    == Escapes \cup {"K", "x"}

\* E are the characters of e that a backslash escapes.
Marks(e, E) ==
    /\ E \in SUBSET (1 .. Len(e) + 1) /\ 1 \notin E
    /\ \A i \in 1..Len(e) : i + 1 \in E <=> e[i] = "bs" /\ i \notin E

\* No quote of the text ends it, and the quote behind it does.
Sealed == {e \in Seq(Escapes) : \E E : /\ Marks(e, E) /\ Len(e) + 1 \notin E
                                       /\ \A i \in 1..Len(e) : e[i] = "qt" => i \in E}

LEMMA SealedJoin ==
  ASSUME NEW x \in Sealed, NEW y \in Sealed
  PROVE  x \o y \in Sealed
<1> DEFINE t == x \o y
<1>1. x \in Seq(Escapes) /\ y \in Seq(Escapes)
  BY DEF Sealed
<1>2. /\ t \in Seq(Escapes) /\ Len(t) = Len(x) + Len(y)
      /\ Len(x) \in Nat /\ Len(y) \in Nat
      /\ \A i \in 1..Len(x) : t[i] = x[i]
      /\ \A i \in 1..Len(y) : t[Len(x) + i] = y[i]
  BY <1>1, Joined2
<1> HIDE DEF t
<1>3. PICK n, m : n = Len(x) /\ m = Len(y)
  OBVIOUS
<1>4. n \in Nat /\ m \in Nat /\ Len(t) = n + m
  BY <1>2, <1>3
<1>5. PICK G \in SUBSET (1 .. n + 1) :
          /\ 1 \notin G /\ n + 1 \notin G
          /\ \A i \in 1..n : i + 1 \in G <=> x[i] = "bs" /\ i \notin G
          /\ \A i \in 1..n : x[i] = "qt" => i \in G
  BY <1>3 DEF Sealed, Marks
<1>6. PICK H \in SUBSET (1 .. m + 1) :
          /\ 1 \notin H /\ m + 1 \notin H
          /\ \A i \in 1..m : i + 1 \in H <=> y[i] = "bs" /\ i \notin H
          /\ \A i \in 1..m : y[i] = "qt" => i \in H
  BY <1>3 DEF Sealed, Marks
<1>7. PICK K : K = {i \in 1 .. n + m + 1 : i \in G \/ i - n \in H}
  OBVIOUS
<1>8. /\ \A i \in 1 .. n + 1 : i \in K <=> i \in G
      /\ \A i \in 1 .. m + 1 : n + i \in K <=> i \in H
  <2>1. ASSUME NEW i \in 1 .. n + 1 PROVE i \in K <=> i \in G
    <3>1. i \in 1 .. n + m + 1 /\ i - n \notin H
      BY <1>4, <1>6
    <3>2. QED BY <1>7, <3>1
  <2>2. ASSUME NEW i \in 1 .. m + 1 PROVE n + i \in K <=> i \in H
    <3>1. n + i \in 1 .. n + m + 1 /\ n + i \notin G /\ (n + i) - n = i
      BY <1>4, <1>5
    <3>2. QED BY <1>7, <3>1
  <2>3. QED BY <2>1, <2>2
<1>9. ASSUME NEW i \in 1 .. n + m
      PROVE  /\ i + 1 \in K <=> t[i] = "bs" /\ i \notin K
             /\ t[i] = "qt" => i \in K
  <2>1. CASE i <= n
    <3>1. i \in 1..n /\ i \in 1 .. n + 1 /\ i + 1 \in 1 .. n + 1
      BY <1>4, <2>1
    <3>2. (i \in K <=> i \in G) /\ (i + 1 \in K <=> i + 1 \in G) /\ t[i] = x[i]
      BY <1>2, <1>3, <1>8, <3>1
    <3>3. QED BY <1>5, <3>1, <3>2
  <2>2. CASE ~(i <= n)
    <3>1. PICK j \in 1..m : i = n + j /\ i + 1 = n + (j + 1) /\ j \in 1 .. m + 1 /\ j + 1 \in 1 .. m + 1
      <4>1. i - n \in 1..m /\ i = n + (i - n) /\ i + 1 = n + ((i - n) + 1)
            /\ i - n \in 1 .. m + 1 /\ (i - n) + 1 \in 1 .. m + 1
        BY <1>4, <2>2
      <4>2. QED BY <4>1
    <3>2. (i \in K <=> j \in H) /\ (i + 1 \in K <=> j + 1 \in H) /\ t[i] = y[j]
      BY <1>2, <1>3, <1>8, <3>1
    <3>3. QED BY <1>6, <3>1, <3>2
  <2>3. QED BY <2>1, <2>2
<1>10. 1 \notin K /\ n + m + 1 \notin K
  <2>1. 1 \in 1 .. n + 1 /\ m + 1 \in 1 .. m + 1 /\ n + (m + 1) = n + m + 1
    BY <1>4
  <2>2. QED BY <1>5, <1>6, <1>8, <2>1
<1>11. Marks(t, K)
  BY <1>4, <1>7, <1>9, <1>10 DEF Marks
<1>12. t \in Sealed
  BY <1>2, <1>4, <1>9, <1>10, <1>11 DEF Sealed
<1>13. QED BY <1>12 DEF t

LEMMA SealedBy ==
  ASSUME NEW e \in Seq(Escapes), NEW E, Marks(e, E), Len(e) + 1 \notin E,
         \A i \in 1..Len(e) : e[i] = "qt" => i \in E
  PROVE  e \in Sealed
BY DEF Sealed

LEMMA SealedToken ==
  ASSUME NEW c \in Whole
  PROVE  EncodeToken(c) \in Sealed
<1>1. c \in {"sp", "n", "u", "B", "E", "nl", "qt", "bs", "ctl", "astral"}
  BY DEF Whole, Characters
<1>2. CASE c \in {"sp", "n", "u", "B", "E"}
  <2>1. EncodeToken(c) = <<c>>
    BY <1>2 DEF EncodeToken
  <2>2. <<c>> \in Seq(Escapes) /\ Len(<<c>>) = 1 /\ <<c>>[1] = c /\ c # "bs" /\ c # "qt"
    BY <1>2 DEF Escapes
  <2>3. Marks(<<c>>, {}) /\ 2 \notin {}
    BY <2>2 DEF Marks
  <2>4. <<c>> \in Sealed
    BY <2>2, <2>3 DEF Sealed
  <2>5. QED BY <2>1, <2>4
<1>3. CASE c \in {"nl", "qt", "bs"}
  <2>1. PICK d \in {"n", "qt", "bs"} : EncodeToken(c) = <<"bs", d>>
    BY <1>3 DEF EncodeToken
  <2>2. PICK e : e = <<"bs", d>>
    OBVIOUS
  <2>3. e \in Seq(Escapes) /\ Len(e) = 2 /\ e[1] = "bs" /\ e[2] = d
    BY <2>2 DEF Escapes
  <2>4. /\ \A i \in 1..2 : i + 1 \in {2} <=> e[i] = "bs" /\ i \notin {2}
        /\ \A i \in 1..2 : e[i] = "qt" => i \in {2}
    <3>1. \A i \in 1..2 : i = 1 \/ i = 2
      OBVIOUS
    <3>2. QED BY <2>3, <3>1
  <2>5. Marks(e, {2})
    BY <2>3, <2>4 DEF Marks
  <2>6. e \in Sealed
    <3>1. Len(e) + 1 \notin {2} /\ \A i \in 1..Len(e) : e[i] = "qt" => i \in {2}
      BY <2>3, <2>4
    <3>2. QED BY <2>3, <2>5, <3>1, SealedBy
  <2>7. QED BY <2>1, <2>2, <2>6
<1>4. CASE c = "ctl"
  <2>1. PICK e : e = <<"bs", "u", "CU">> /\ EncodeToken(c) = e
    BY <1>4 DEF EncodeToken
  <2>2. e \in Seq(Escapes) /\ Len(e) = 3 /\ e[1] = "bs" /\ e[2] = "u" /\ e[3] = "CU"
    BY <2>1 DEF Escapes
  <2>3. /\ \A i \in 1..3 : i + 1 \in {2} <=> e[i] = "bs" /\ i \notin {2}
        /\ \A i \in 1..3 : e[i] = "qt" => i \in {2}
    <3>1. \A i \in 1..3 : i = 1 \/ i = 2 \/ i = 3
      OBVIOUS
    <3>2. QED BY <2>2, <3>1
  <2>4. Marks(e, {2})
    BY <2>2, <2>3 DEF Marks
  <2>5. e \in Sealed
    <3>1. Len(e) + 1 \notin {2} /\ \A i \in 1..Len(e) : e[i] = "qt" => i \in {2}
      BY <2>2, <2>3
    <3>2. QED BY <2>2, <2>4, <3>1, SealedBy
  <2>6. QED BY <2>1, <2>5
<1>5. CASE c = "astral"
  <2>1. PICK e : e = <<"bs", "u", "HI", "bs", "u", "LO">> /\ EncodeToken(c) = e
    BY <1>5 DEF EncodeToken
  <2>2. e \in Seq(Escapes) /\ Len(e) = 6 /\ e[1] = "bs" /\ e[2] = "u" /\ e[3] = "HI"
        /\ e[4] = "bs" /\ e[5] = "u" /\ e[6] = "LO"
    BY <2>1 DEF Escapes
  <2>3. /\ \A i \in 1..6 : i + 1 \in {2, 5} <=> e[i] = "bs" /\ i \notin {2, 5}
        /\ \A i \in 1..6 : e[i] = "qt" => i \in {2, 5}
    <3>1. \A i \in 1..6 : i = 1 \/ i = 2 \/ i = 3 \/ i = 4 \/ i = 5 \/ i = 6
      OBVIOUS
    <3>2. QED BY <2>2, <3>1
  <2>4. Marks(e, {2, 5})
    BY <2>2, <2>3 DEF Marks
  <2>5. e \in Sealed
    <3>1. Len(e) + 1 \notin {2, 5} /\ \A i \in 1..Len(e) : e[i] = "qt" => i \in {2, 5}
      BY <2>2, <2>3
    <3>2. QED BY <2>2, <2>4, <3>1, SealedBy
  <2>6. QED BY <2>1, <2>5
<1>6. QED BY <1>1, <1>2, <1>3, <1>4, <1>5

LEMMA EncodeSealed ==
  ASSUME NEW t \in Seq(Whole)
  PROVE  Encode(t) \in Sealed
<1>1. Len(t) \in Nat /\ DOMAIN t = 1..Len(t) /\ \A i \in 1..Len(t) : t[i] \in Whole
  BY LenProperties, ElementOfSeq
<1> DEFINE ss == [i \in DOMAIN t |-> EncodeToken(t[i])]
<1>2. ss \in [1..Len(t) -> Sealed]
  BY <1>1, SealedToken
<1>3. Sealed \in SUBSET Seq(Escapes) /\ <<>> \in Sealed
  <2>1. Marks(<<>>, {}) /\ <<>> \in Seq(Escapes) /\ Len(<<>>) = 0
    BY DEF Marks
  <2>2. <<>> \in Sealed
    BY <2>1 DEF Sealed
  <2>3. QED BY <2>2 DEF Sealed
<1>4. \A x, y \in Sealed : x \o y \in Sealed
  BY SealedJoin
<1>5. ss \in Seq(Sealed)
  <2> HIDE DEF ss
  <2>1. QED BY <1>1, <1>2, SeqDef
<1> HIDE DEF ss
<1>6. FlattenSeq(ss) \in Sealed
  BY <1>3, <1>4, <1>5, FlattenIn
<1>7. QED BY <1>6 DEF Encode, ss

\* Which characters of a line are escaped.
LEMMA EscapedIs ==
  ASSUME NEW T, NEW line \in Seq(T), NEW start \in 1 .. Len(line) + 1
  PROVE  \E E : \A j \in 0..Len(line) :
            /\ j \in E <=> j > start /\ line[j - 1] = "bs" /\ j - 1 \notin E
            /\ Escaped(line, start, j) <=> j \in E
<1>1. PICK n \in Nat : n = Len(line)
  BY LenProperties
<1> DEFINE Is(g) == g = [j \in 0..n |-> j > start /\ line[j - 1] = "bs" /\ ~g[j - 1]]
           Esc   == CHOOSE g : Is(g)
           step  == [j \in 1..n |-> [b \in BOOLEAN |-> j > start /\ line[j - 1] = "bs" /\ ~b]]
<1>2. \A j : Escaped(line, start, j) = Esc[j]
  BY <1>1 DEF Escaped
<1>3. \E g : Is(g)
  <2>1. step \in [1..n -> [BOOLEAN -> BOOLEAN]]
    OBVIOUS
  <2>2. \A j \in 1..n : \A b \in BOOLEAN : step[j][b] = (j > start /\ line[j - 1] = "bs" /\ ~b)
    OBVIOUS
  <2> HIDE DEF step
  <2>3. PICK f \in [0..n -> BOOLEAN] : Follows(f, FALSE, step, n)
    BY <2>1, SomeRecursion
  <2>4. ASSUME NEW j \in 0..n PROVE f[j] = (j > start /\ line[j - 1] = "bs" /\ ~f[j - 1])
    <3>1. CASE j = 0
      <4>1. f[j] = FALSE /\ ~(j > start)
        BY <2>3, <3>1 DEF Follows
      <4>2. QED BY <4>1, Zenon
    <3>2. CASE j # 0
      <4>1. j \in 1..n /\ j - 1 \in 0..n
        BY <3>2
      <4>2. f[j] = step[j][f[j - 1]] /\ f[j - 1] \in BOOLEAN
        BY <2>3, <4>1 DEF Follows
      <4>3. QED BY <2>2, <4>1, <4>2, Zenon
    <3>3. QED BY <3>1, <3>2
  <2>5. f = [j \in 0..n |-> f[j]]
    BY <2>3
  <2>6. Is(f)
    BY <2>4, <2>5, Zenon
  <2>7. QED BY <2>6
<1>4. Is(Esc)
  <2> HIDE DEF Is
  <2>1. QED BY <1>3
<1> HIDE DEF Esc
<1>5. \A j \in 0..n : Esc[j] = (j > start /\ line[j - 1] = "bs" /\ ~Esc[j - 1])
  BY <1>4, Zenon
<1> HIDE DEF Is
<1>6. PICK E : E = {j \in 0..n : Esc[j]}
  OBVIOUS
<1>7. ASSUME NEW j \in 0..n PROVE j \in E <=> j > start /\ line[j - 1] = "bs" /\ j - 1 \notin E
  <2>1. j > start => j - 1 \in 0..n
    OBVIOUS
  <2>2. j > start => (j - 1 \in E <=> Esc[j - 1])
    BY <1>6, <2>1, Zenon
  <2>3. j \in E <=> Esc[j]
    BY <1>6, Zenon
  <2>4. Esc[j] <=> j > start /\ line[j - 1] = "bs" /\ ~Esc[j - 1]
    BY <1>5, Zenon
  <2>5. QED BY <2>2, <2>3, <2>4, Zenon
<1>8. ASSUME NEW j \in 0..n PROVE Escaped(line, start, j) <=> j \in E
  BY <1>2, <1>6, Zenon
<1>9. QED BY <1>1, <1>7, <1>8

\* The quote behind a text of a line ends it, and if the line ends before, none does.
LEMMA ClosingIs ==
  ASSUME NEW T, NEW line \in Seq(T), NEW start \in 1 .. Len(line) + 1, NEW e \in Sealed,
         \A i \in 1..Len(e) : start + i - 1 <= Len(line) => line[start + i - 1] = e[i],
         start + Len(e) <= Len(line) => line[start + Len(e)] = "qt"
  PROVE  /\ start + Len(e) > Len(line) => Closing(line, start) = {}
         /\ start + Len(e) <= Len(line) =>
                Closing(line, start) # {} /\ Min(Closing(line, start)) = start + Len(e)
<1>1. Len(e) \in Nat /\ Len(line) \in Nat
  BY LenProperties DEF Sealed
<1>2. PICK n, l : n = Len(e) /\ l = Len(line)
  OBVIOUS
<1>3. n \in Nat /\ l \in Nat /\ start \in 1 .. l + 1
  BY <1>1, <1>2
<1>4. PICK E : \A j \in 0..l :
          /\ j \in E <=> j > start /\ line[j - 1] = "bs" /\ j - 1 \notin E
          /\ Escaped(line, start, j) <=> j \in E
  BY <1>2, EscapedIs
<1>5. PICK G : /\ 1 \notin G /\ n + 1 \notin G
               /\ \A i \in 1..n : i + 1 \in G <=> e[i] = "bs" /\ i \notin G
               /\ \A i \in 1..n : e[i] = "qt" => i \in G
  BY <1>2 DEF Sealed, Marks
<1>6. /\ \A i \in 1..n : start + i - 1 <= l => line[start + i - 1] = e[i]
      /\ start + n <= l => line[start + n] = "qt"
  BY <1>2
<1> DEFINE S == {i \in 1 .. n + 1 : start + i - 1 <= l /\ ~(start + i - 1 \in E <=> i \in G)}
<1>7. S = {}
  <2>1. SUFFICES ASSUME S # {} PROVE FALSE
    OBVIOUS
  <2>2. S \in SUBSET (0 .. n + 1) /\ n + 1 \in Nat
    BY <1>3
  <2>3. PICK m \in S : \A k \in S : m <= k
    <3> HIDE DEF S
    <3>1. QED BY <2>1, <2>2, Least
  <2>4. m \in 1 .. n + 1 /\ start + m - 1 <= l /\ start + m - 1 \in 0..l
        /\ ~(start + m - 1 \in E <=> m \in G)
    BY <1>3
  <2>5. CASE m = 1
    <3>1. start + m - 1 = start /\ ~(start > start)
      BY <1>3, <2>5
    <3>2. start + m - 1 \notin E
      BY <1>4, <2>4, <3>1
    <3>3. QED BY <1>5, <2>4, <2>5, <3>2
  <2>6. CASE m # 1
    <3>1. PICK k \in 1..n : k = m - 1 /\ k + 1 = m
      BY <1>3, <2>4, <2>6
    <3>2. k \notin S
      BY <1>3, <2>3, <2>4, <3>1
    <3>3. PICK j \in 0..l : j = start + m - 1 /\ j > start /\ j - 1 = start + k - 1
      BY <1>3, <2>4, <2>6, <3>1
    <3>4. j - 1 \in E <=> k \in G
      BY <1>3, <3>1, <3>2, <3>3
    <3>5. line[j - 1] = e[k]
      BY <1>3, <1>6, <3>1, <3>3
    <3>6. j \in E <=> k + 1 \in G
      <4>1. j \in E <=> j > start /\ line[j - 1] = "bs" /\ j - 1 \notin E
        BY <1>4, Zenon
      <4>2. k + 1 \in G <=> e[k] = "bs" /\ k \notin G
        BY <1>5
      <4>3. QED BY <3>3, <3>4, <3>5, <4>1, <4>2, Zenon
    <3>7. QED BY <2>4, <3>1, <3>3, <3>6
  <2>7. QED BY <2>5, <2>6
<1>8. \A i \in 1 .. n + 1 : start + i - 1 <= l => (start + i - 1 \in E <=> i \in G)
  BY <1>7
<1> HIDE DEF S
<1>9. PICK C : C = Closing(line, start)
  OBVIOUS
<1>10. C = {i \in start..l : line[i] = "qt" /\ i \notin E}
  <2>1. \A i \in start..l : i \in 0..l
    BY <1>3
  <2>2. \A i \in start..l : Escaped(line, start, i) <=> i \in E
    BY <1>4, <2>1, Zenon
  <2>3. QED BY <1>2, <1>9, <2>2 DEF Closing
<1>11. ASSUME NEW i \in C PROVE i >= start + n
  <2>1. SUFFICES ASSUME i < start + n PROVE FALSE
    BY <1>3, <1>10
  <2>2. PICK h \in 1..n : h = i - start + 1 /\ i = start + h - 1 /\ h \in 1 .. n + 1
    BY <1>3, <1>10, <2>1
  <2>3. line[i] = e[h] /\ (i \in E <=> h \in G)
    BY <1>3, <1>6, <1>8, <1>10, <2>2
  <2>4. QED BY <1>5, <1>10, <2>2, <2>3
<1>12. CASE start + n > l
  <2>1. C = {}
    BY <1>3, <1>10, <1>11, <1>12
  <2>2. QED BY <1>2, <1>3, <1>9, <1>12, <2>1
<1>13. CASE start + n <= l
  <2>1. start + n \in C
    <3>1. n + 1 \in 1 .. n + 1 /\ start + (n + 1) - 1 = start + n /\ start + n \in start..l
      BY <1>3, <1>13
    <3>2. start + n \notin E
      BY <1>5, <1>8, <1>13, <3>1
    <3>3. QED BY <1>6, <1>10, <1>13, <3>1, <3>2
  <2>2. C \in SUBSET (0..l) /\ C # {}
    BY <1>3, <1>10, <2>1
  <2>3. PICK q : q = Min(C)
    OBVIOUS
  <2>4. q \in C /\ \A k \in C : q <= k
    BY <1>3, <2>2, <2>3, MinMax
  <2>5. q = start + n
    BY <1>3, <1>10, <1>11, <2>1, <2>4
  <2>6. QED BY <1>2, <1>3, <1>9, <1>13, <2>2, <2>3, <2>5
<1>14. QED BY <1>3, <1>12, <1>13

\* What a text yields up to each of its places.
ReadsUpTo(r, s) ==
    /\ r[0] = [text |-> <<>>, next |-> 1]
    /\ \A i \in 1..Len(s) :
          /\ i < r[i - 1].next => r[i] = r[i - 1]
          /\ i >= r[i - 1].next /\ s[i] # "bs" =>
                r[i] = [text |-> Append(r[i - 1].text, s[i]), next |-> i + 1]
          /\ i >= r[i - 1].next /\ s[i] = "bs" =>
                r[i] = [text |-> r[i - 1].text \o EscapeAt(s, i).char,
                        next |-> i + EscapeAt(s, i).skip]

\* What an escape can yield.
Yield == Json \cup {"nl", "astral", "garbled", "ctl"}

LEMMA EscapeTyped ==
  ASSUME NEW s \in Seq(Json), NEW i \in Nat
  PROVE  EscapeAt(s, i).skip \in Nat /\ EscapeAt(s, i).char \in Seq(Yield)
<1>1. ASSUME NEW j \in Nat PROVE LowHalf(s, j).skip \in Nat /\ LowHalf(s, j).char \in Seq(Yield)
  <2>1. LowHalf(s, j).skip \in {0, 2, 3}
    BY DEF LowHalf
  <2>2. LowHalf(s, j).char \in {<<>>, <<"astral">>, <<"garbled">>}
    <3>1. CASE At(s, j) # "bs" \/ At(s, j + 1) # "u"
      BY <3>1 DEF LowHalf
    <3>2. CASE ~(At(s, j) # "bs" \/ At(s, j + 1) # "u")
      BY <3>2 DEF LowHalf
    <3>3. QED BY <3>1, <3>2
  <2>3. <<>> \in Seq(Yield) /\ <<"astral">> \in Seq(Yield) /\ <<"garbled">> \in Seq(Yield)
    BY DEF Yield
  <2>4. LowHalf(s, j).char \in Seq(Yield)
    BY <2>2, <2>3, Zenon
  <2>5. QED BY <2>1, <2>4
<1>2. PICK c, unit : c = At(s, i + 1) /\ unit = At(s, i + 2)
  OBVIOUS
<1>3. c = "end" \/ c \in Json
  <2>1. DOMAIN s = 1..Len(s) /\ \A k \in 1..Len(s) : s[k] \in Json
    BY LenProperties, ElementOfSeq
  <2>2. QED BY <1>2, <2>1 DEF At
<1>4. PICK h : h = LowHalf(s, i + 3)
  OBVIOUS
<1>5. h.skip \in Nat /\ h.char \in Seq(Yield)
  BY <1>1, <1>4
<1>6. \A d \in Yield : <<d>> \in Seq(Yield)
  OBVIOUS
<1>7. <<>> \in Seq(Yield) /\ <<"nl">> \in Seq(Yield) /\ <<"ctl">> \in Seq(Yield) /\ (c # "end" => <<c>> \in Seq(Yield))
  BY <1>3, <1>6 DEF Yield
<1>8. CASE c = "end"
  <2>1. EscapeAt(s, i) = [skip |-> 1, char |-> <<>>]
    BY <1>2, <1>8 DEF EscapeAt
  <2>2. QED BY <1>7, <2>1
<1>9. CASE c = "n"
  <2>1. EscapeAt(s, i) = [skip |-> 2, char |-> <<"nl">>]
    BY <1>2, <1>9 DEF EscapeAt
  <2>2. QED BY <1>7, <2>1
<1>10. CASE c = "u" /\ unit = "HI"
  <2>1. EscapeAt(s, i) = [skip |-> 3 + h.skip, char |-> h.char]
    BY <1>2, <1>4, <1>10 DEF EscapeAt
  <2>2. QED BY <1>5, <2>1
<1>11. CASE c = "u" /\ unit = "CU"
  <2>1. EscapeAt(s, i) = [skip |-> 3, char |-> <<"ctl">>]
    BY <1>2, <1>11 DEF EscapeAt
  <2>2. QED BY <1>7, <2>1
<1>12. CASE c = "u" /\ unit \notin {"HI", "CU"}
  <2>1. EscapeAt(s, i) = [skip |-> 3, char |-> <<>>]
    BY <1>2, <1>12 DEF EscapeAt
  <2>2. QED BY <1>7, <2>1
<1>13. CASE c \notin {"end", "n", "u"}
  <2>1. EscapeAt(s, i) = [skip |-> 2, char |-> <<c>>]
    BY <1>2, <1>13 DEF EscapeAt
  <2>2. QED BY <1>7, <1>13, <2>1
<1>14. QED BY <1>8, <1>9, <1>10, <1>11, <1>12, <1>13

LEMMA ReadIs ==
  ASSUME NEW s \in Seq(Json)
  PROVE  \E r : ReadsUpTo(r, s) /\ Unescape(s) = r[Len(s)].text
<1>1. PICK n \in Nat : n = Len(s)
  BY LenProperties
<1> DEFINE Step(i, read) ==
              CASE i < read.next -> read
                [] i >= read.next /\ s[i] # "bs" ->
                     [text |-> Append(read.text, s[i]), next |-> i + 1]
                [] i >= read.next /\ s[i] = "bs" ->
                     [text |-> read.text \o EscapeAt(s, i).char,
                      next |-> i + EscapeAt(s, i).skip]
           Is(g) == g = [i \in 0..n |-> IF i = 0 THEN [text |-> <<>>, next |-> 1] ELSE Step(i, g[i - 1])]
           Read  == CHOOSE g : Is(g)
           V     == [text : Seq(Yield), next : Nat]
           step  == [i \in 1..n |-> [v \in V |-> Step(i, v)]]
<1>2. Unescape(s) = Read[n].text
  BY <1>1 DEF Unescape
<1>2a. \A a \in Seq(Yield), b \in Nat : [text |-> a, next |-> b] \in V
  OBVIOUS
<1>3. ASSUME NEW i \in 1..n, NEW v \in V PROVE Step(i, v) \in V
  <2>1. s[i] \in Yield /\ i \in Nat
    BY <1>1, ElementOfSeq DEF Yield
  <2>2. EscapeAt(s, i).skip \in Nat /\ EscapeAt(s, i).char \in Seq(Yield)
    BY <2>1, EscapeTyped
  <2>3. v.next \in Nat /\ v.text \in Seq(Yield)
    OBVIOUS
  <2>4. CASE i < v.next
    <3>1. Step(i, v) = v
      BY <2>3, <2>4
    <3>2. QED BY <3>1
  <2>5. CASE i >= v.next /\ s[i] # "bs"
    <3>1. Step(i, v) = [text |-> Append(v.text, s[i]), next |-> i + 1]
      BY <2>1, <2>3, <2>5
    <3>2. Append(v.text, s[i]) \in Seq(Yield)
      BY <2>1, <2>3, AppendProperties
    <3>3. i + 1 \in Nat
      BY <2>1
    <3>4. QED BY <1>2a, <3>1, <3>2, <3>3, Zenon
  <2>6. CASE i >= v.next /\ s[i] = "bs"
    <3>1. Step(i, v) = [text |-> v.text \o EscapeAt(s, i).char, next |-> i + EscapeAt(s, i).skip]
      BY <2>1, <2>3, <2>6
    <3>2. v.text \o EscapeAt(s, i).char \in Seq(Yield) /\ i + EscapeAt(s, i).skip \in Nat
      BY <2>1, <2>2, <2>3, ConcatProperties
    <3>3. QED BY <1>2a, <3>1, <3>2, Zenon
  <2>7. QED BY <2>1, <2>3, <2>4, <2>5, <2>6
<1> HIDE DEF Step
<1>4. step \in [1..n -> [V -> V]]
  <2> HIDE DEF V
  <2>1. QED BY <1>3
<1>5. [text |-> <<>>, next |-> 1] \in V
  OBVIOUS
<1>6. \A i \in 1..n : \A v \in V : step[i][v] = Step(i, v)
  OBVIOUS
<1> HIDE DEF V, step
<1>7. PICK f \in [0..n -> V] : Follows(f, [text |-> <<>>, next |-> 1], step, n)
  BY <1>4, <1>5, SomeRecursion
<1>8. \A i \in 0..n : f[i] = IF i = 0 THEN [text |-> <<>>, next |-> 1] ELSE Step(i, f[i - 1])
  <2> TAKE i \in 0..n
  <2>1. CASE i = 0
    BY <1>7, <2>1 DEF Follows
  <2>2. CASE i # 0
    <3>1. i \in 1..n /\ i - 1 \in 0..n
      BY <2>2
    <3>2. f[i] = step[i][f[i - 1]] /\ f[i - 1] \in V
      BY <1>7, <3>1 DEF Follows
    <3>3. QED BY <1>6, <2>2, <3>1, <3>2
  <2>3. QED BY <2>1, <2>2
<1>9. Is(f)
  <2>1. f = [i \in 0..n |-> f[i]]
    BY <1>7
  <2>2. QED BY <1>8, <2>1, Zenon
<1>10. Is(Read)
  <2> HIDE DEF Is
  <2>1. QED BY <1>9
<1> HIDE DEF Read
<1>11. \A i \in 0..n : Read[i] = IF i = 0 THEN [text |-> <<>>, next |-> 1] ELSE Step(i, Read[i - 1])
  BY <1>10, Zenon
<1> HIDE DEF Is
<1>12. Read[0] = [text |-> <<>>, next |-> 1]
  <2>1. 0 \in 0..n
    OBVIOUS
  <2>2. QED BY <1>11, <2>1, Zenon
<1>13. ASSUME NEW i \in 1..n PROVE Read[i] = Step(i, Read[i - 1])
  <2>1. i \in 0..n /\ i # 0
    OBVIOUS
  <2>2. QED BY <1>11, <2>1, Zenon
<1>14. \A i \in 1..n : Read[i] = f[i]
  <2>1. Alike(f, Read, n)
    <3>1. f[0] = Read[0]
      BY <1>7, <1>12 DEF Follows
    <3>2. ASSUME NEW i \in 1..n, f[i - 1] = Read[i - 1] PROVE f[i] = Read[i]
      <4>1. i \in 0..n /\ i # 0
        OBVIOUS
      <4>2. f[i] = Step(i, f[i - 1])
        BY <1>8, <4>1, Zenon
      <4>3. QED BY <1>13, <3>2, <4>2
    <3>3. QED BY <3>1, <3>2 DEF Alike
  <2>2. QED BY <2>1, SameRecursion
<1>15. ASSUME NEW i \in 1..n
       PROVE  /\ i < Read[i - 1].next => Read[i] = Read[i - 1]
              /\ i >= Read[i - 1].next /\ s[i] # "bs" =>
                    Read[i] = [text |-> Append(Read[i - 1].text, s[i]), next |-> i + 1]
              /\ i >= Read[i - 1].next /\ s[i] = "bs" =>
                    Read[i] = [text |-> Read[i - 1].text \o EscapeAt(s, i).char,
                               next |-> i + EscapeAt(s, i).skip]
  <2>1. PICK v : v = Read[i - 1]
    OBVIOUS
  <2>2. v.next \in Nat
    <3>1. v = f[i - 1] /\ i - 1 \in 0..n
      BY <1>7, <1>12, <1>14, <2>1 DEF Follows
    <3>2. v \in V
      BY <1>7, <3>1
    <3>3. QED BY <3>2 DEF V
  <2>3. Read[i] = Step(i, v)
    BY <1>13, <2>1
  <2>4. i < v.next => Step(i, v) = v
    BY <2>2, SMTT(30) DEF Step
  <2>5. i >= v.next /\ s[i] # "bs" => Step(i, v) = [text |-> Append(v.text, s[i]), next |-> i + 1]
    BY <2>2 DEF Step
  <2>6. i >= v.next /\ s[i] = "bs" =>
           Step(i, v) = [text |-> v.text \o EscapeAt(s, i).char, next |-> i + EscapeAt(s, i).skip]
    <3>1. i >= v.next => ~(i < v.next)
      BY <2>2
    <3>2. QED BY <3>1, Zenon DEF Step
  <2>7. QED BY <2>1, <2>3, <2>4, <2>5, <2>6
<1>16. ReadsUpTo(Read, s)
  BY <1>1, <1>12, <1>15 DEF ReadsUpTo
<1>17. QED BY <1>1, <1>2, <1>16

\* Up to o, what a text says is u, and w, which says c, is next.
Says(r, o, u) == r[o] = [text |-> u, next |-> o + 1]

IsNext(s, r, u, o, c, w) ==
    /\ ReadsUpTo(r, s) /\ Says(r, o, u)
    /\ w = EncodeToken(c) /\ o + Len(w) <= Len(s) /\ \A j \in 1..Len(w) : s[o + j] = w[j]

\* One character is read back, whatever is behind it.
LEMMA TokenIsRead ==
  ASSUME NEW s \in Seq(Json), NEW r, NEW u \in Seq(Whole), NEW c \in Whole,
         NEW o \in Nat, NEW w, IsNext(s, r, u, o, c, w)
  PROVE  Says(r, o + Len(w), Append(u, c))
<1> USE DEF Says
<1>0. PICK l \in Nat : l = Len(s)
  BY LenProperties
<1>00. /\ ReadsUpTo(r, s) /\ r[o] = [text |-> u, next |-> o + 1]
       /\ w = EncodeToken(c) /\ o + Len(w) <= Len(s)
       /\ \A j \in 1..Len(w) : s[o + j] = w[j]
  BY DEF IsNext, Says
<1> USE <1>00
<1>1. \A i \in 1..l :
          /\ i < r[i - 1].next => r[i] = r[i - 1]
          /\ i >= r[i - 1].next /\ s[i] # "bs" =>
                r[i] = [text |-> Append(r[i - 1].text, s[i]), next |-> i + 1]
          /\ i >= r[i - 1].next /\ s[i] = "bs" =>
                r[i] = [text |-> r[i - 1].text \o EscapeAt(s, i).char,
                        next |-> i + EscapeAt(s, i).skip]
  BY <1>0 DEF ReadsUpTo
<1>2. DOMAIN s = 1..l
  BY <1>0, LenProperties
<1>3. r[o].text = u /\ r[o].next = o + 1
  OBVIOUS
<1>4. c \in {"sp", "n", "u", "B", "E", "nl", "qt", "bs", "ctl", "astral"}
  BY DEF Whole, Characters
<1>5. Append(u, c) = u \o <<c>>
  BY AppendIsConcat
<1>6. PICK p : p = o + 1
  OBVIOUS
<1>7. p \in Nat /\ p - 1 = o /\ p >= r[p - 1].next /\ r[p - 1].text = u
  BY <1>3, <1>6
<1>8. ASSUME p <= l, s[p] = "bs"
      PROVE  r[p] = [text |-> u \o EscapeAt(s, p).char, next |-> p + EscapeAt(s, p).skip]
  <2>1. p \in 1..l
    BY <1>0, <1>6, <1>8
  <2>2. QED BY <1>1, <1>7, <1>8, <2>1
<1>9. ASSUME NEW q \in Nat, NEW x, p <= q, q < l, r[q] = x, q + 1 < x.next
      PROVE  r[q + 1] = x
  <2>1. q + 1 \in 1..l /\ (q + 1) - 1 = q
    BY <1>0, <1>6, <1>9
  <2>2. QED BY <1>1, <1>9, <2>1
<1>10. CASE c \in {"sp", "n", "u", "B", "E"}
  <2>1. w = <<c>>
    BY <1>10 DEF EncodeToken
  <2>2. Len(w) = 1 /\ s[p] = c /\ c # "bs" /\ p \in 1..l
    <3>1. Len(w) = 1 /\ w[1] = c
      BY <2>1
    <3>2. QED BY <1>0, <1>6, <1>10, <3>1
  <2>3. r[p] = [text |-> Append(u, c), next |-> p + 1]
    BY <1>1, <1>7, <2>2
  <2>4. QED BY <1>6, <2>2, <2>3
<1>11. CASE c \in {"nl", "qt", "bs"}
  <2>1. PICK d \in {"n", "qt", "bs"} : w = <<"bs", d>> /\ c = IF d = "n" THEN "nl" ELSE d
    BY <1>11 DEF EncodeToken
  <2>2. Len(w) = 2 /\ s[p] = "bs" /\ s[p + 1] = d /\ p + 1 \in 1..l /\ p \in 1..l
    <3>1. Len(w) = 2 /\ w[1] = "bs" /\ w[2] = d
      BY <2>1
    <3>2. s[o + 1] = w[1] /\ s[o + 2] = w[2] /\ o + 2 = p + 1
      BY <1>6, <3>1
    <3>3. QED BY <1>0, <1>6, <3>1, <3>2
  <2>3. At(s, p + 1) = d
    BY <1>2, <2>2 DEF At
  <2>4. EscapeAt(s, p) = [skip |-> 2, char |-> <<c>>]
    <3>1. CASE d = "n"
      BY <2>1, <2>3, <3>1 DEF EscapeAt
    <3>2. CASE d # "n"
      <4>1. d \notin {"end", "n", "u"} /\ c = d
        BY <2>1, <3>2
      <4>2. QED BY <2>3, <4>1 DEF EscapeAt
    <3>3. QED BY <3>1, <3>2
  <2>5. PICK x : x = [text |-> Append(u, c), next |-> p + 2]
    OBVIOUS
  <2>6. r[p] = x /\ x.next = p + 2
    BY <1>5, <1>8, <2>2, <2>4, <2>5
  <2>7. r[p + 1] = x
    <3>1. p <= p /\ p < l /\ p + 1 < x.next
      BY <1>0, <1>7, <2>2, <2>6
    <3>2. QED BY <1>7, <1>9, <2>6, <3>1
  <2>8. o + Len(w) = p + 1 /\ o + Len(w) + 1 = p + 2
    BY <1>6, <2>2
  <2>9. QED BY <2>5, <2>7, <2>8
<1>12. CASE c = "ctl"
  <2>1. w = <<"bs", "u", "CU">>
    BY <1>12 DEF EncodeToken
  <2>2. /\ Len(w) = 3 /\ s[p] = "bs" /\ s[p + 1] = "u" /\ s[p + 2] = "CU"
        /\ p \in 1..l /\ p + 1 \in 1..l /\ p + 2 \in 1..l
    <3>1. Len(w) = 3 /\ w[1] = "bs" /\ w[2] = "u" /\ w[3] = "CU"
      BY <2>1
    <3>2. s[o + 1] = w[1] /\ s[o + 2] = w[2] /\ s[o + 3] = w[3] /\ o + 2 = p + 1 /\ o + 3 = p + 2
      BY <1>6, <3>1
    <3>3. QED BY <1>0, <1>6, <3>1, <3>2
  <2>3. At(s, p + 1) = "u" /\ At(s, p + 2) = "CU"
    BY <1>2, <2>2 DEF At
  <2>4. EscapeAt(s, p) = [skip |-> 3, char |-> <<c>>]
    BY <1>12, <2>3 DEF EscapeAt
  <2>5. PICK x : x = [text |-> Append(u, c), next |-> p + 3]
    OBVIOUS
  <2>6. r[p] = x /\ x.next = p + 3
    BY <1>5, <1>8, <2>2, <2>4, <2>5
  <2>7. r[p + 1] = x
    <3>1. p <= p /\ p < l /\ p + 1 < x.next
      BY <1>0, <1>7, <2>2, <2>6
    <3>2. QED BY <1>7, <1>9, <2>6, <3>1
  <2>8. r[p + 2] = x
    <3>1. PICK q \in Nat : q = p + 1
      BY <1>7
    <3>2. q + 1 = p + 2 /\ p <= q /\ q < l /\ q + 1 < x.next /\ r[q] = x
      BY <1>0, <1>7, <2>2, <2>6, <2>7, <3>1
    <3>3. QED BY <1>9, <3>2
  <2>9. o + Len(w) = p + 2 /\ o + Len(w) + 1 = p + 3
    BY <1>6, <2>2
  <2>10. QED BY <2>5, <2>8, <2>9
<1>13. CASE c = "astral"
  <2>1. w = <<"bs", "u", "HI", "bs", "u", "LO">>
    BY <1>13 DEF EncodeToken
  <2>2. /\ Len(w) = 6 /\ s[p] = "bs" /\ s[p + 1] = "u" /\ s[p + 2] = "HI"
        /\ s[p + 3] = "bs" /\ s[p + 4] = "u" /\ s[p + 5] = "LO"
        /\ p \in 1..l /\ p + 5 \in 1..l
    <3>1. /\ Len(w) = 6 /\ w[1] = "bs" /\ w[2] = "u" /\ w[3] = "HI"
          /\ w[4] = "bs" /\ w[5] = "u" /\ w[6] = "LO"
      BY <2>1
    <3>2. /\ s[o + 1] = w[1] /\ s[o + 2] = w[2] /\ s[o + 3] = w[3]
          /\ s[o + 4] = w[4] /\ s[o + 5] = w[5] /\ s[o + 6] = w[6]
      BY <3>1
    <3>3. o + 2 = p + 1 /\ o + 3 = p + 2 /\ o + 4 = p + 3 /\ o + 5 = p + 4 /\ o + 6 = p + 5
      BY <1>6
    <3>4. QED BY <1>0, <1>6, <3>1, <3>2, <3>3
  <2>3. /\ At(s, p + 1) = "u" /\ At(s, p + 2) = "HI" /\ At(s, p + 3) = "bs"
        /\ At(s, p + 4) = "u" /\ At(s, p + 5) = "LO"
    <3>1. \A k \in 1..5 : p + k \in DOMAIN s
      BY <1>2, <2>2, SMTT(30)
    <3>2. QED BY <2>2, <3>1 DEF At
  <2>4. EscapeAt(s, p) = [skip |-> 6, char |-> <<c>>]
    <3>1. PICK q : q = p + 3
      OBVIOUS
    <3>2. q + 1 = p + 4 /\ q + 2 = p + 5
      BY <1>7, <3>1
    <3>3. LowHalf(s, q) = [skip |-> 3, char |-> <<"astral">>]
      BY <2>3, <3>1, <3>2 DEF LowHalf
    <3>4. EscapeAt(s, p) = [skip |-> 3 + LowHalf(s, q).skip, char |-> LowHalf(s, q).char]
      BY <2>3, <3>1 DEF EscapeAt
    <3>5. QED BY <1>13, <3>3, <3>4
  <2>5. PICK x : x = [text |-> Append(u, c), next |-> p + 6]
    OBVIOUS
  <2>6. r[p] = x /\ x.next = p + 6
    BY <1>5, <1>8, <2>2, <2>4, <2>5
  <2>7. ASSUME NEW k \in 0..4, r[p + k] = x PROVE r[p + (k + 1)] = x
    <3>1. PICK q \in Nat : q = p + k
      <4>1. p + k \in Nat
        BY <1>7
      <4>2. QED BY <4>1
    <3>2. q + 1 = p + (k + 1) /\ p <= q /\ q < l /\ q + 1 < x.next /\ r[q] = x
      BY <1>0, <1>7, <2>2, <2>6, <2>7, <3>1
    <3>3. QED BY <1>9, <3>2
  <2>8. r[p + 5] = x
    <3>1. r[p + 0] = x
      BY <1>7, <2>6
    <3>2. r[p + 1] = x
      BY <2>7, <3>1
    <3>3. r[p + 2] = x
      BY <2>7, <3>2
    <3>4. r[p + 3] = x
      BY <2>7, <3>3
    <3>5. r[p + 4] = x
      BY <2>7, <3>4
    <3>6. QED BY <2>7, <3>5
  <2>9. o + Len(w) = p + 5 /\ o + Len(w) + 1 = p + 6
    BY <1>6, <2>2
  <2>10. QED BY <2>5, <2>8, <2>9
<1>14. QED BY <1>4, <1>10, <1>11, <1>12, <1>13

\* A stretch that is one item longer.
LEMMA OneMore ==
  ASSUME NEW T, NEW t \in Seq(T), NEW k \in Nat, k + 1 <= Len(t)
  PROVE  /\ SubSeq(t, 1, k) \in Seq(T) /\ t[k + 1] \in T
         /\ Append(SubSeq(t, 1, k), t[k + 1]) = SubSeq(t, 1, k + 1)
<1>1. PICK n \in Nat : n = Len(t)
  BY LenProperties
<1>2. 1 \in 1 .. n + 1 /\ k \in 1 - 1 .. n /\ k + 1 \in 1 - 1 .. n /\ k + 1 \in 1..n
  BY <1>1
<1>3. t[k + 1] \in T
  BY <1>1, <1>2, ElementOfSeq
<1>4. PICK x : x = SubSeq(t, 1, k)
  OBVIOUS
<1>5. PICK y : y = SubSeq(t, 1, k + 1)
  OBVIOUS
<1>6. x \in Seq(T) /\ Len(x) = k /\ \A i \in 1..k : x[i] = t[i]
  <2>1. x \in Seq(T) /\ Len(x) = k - 1 + 1 /\ \A i \in 1 .. k - 1 + 1 : x[i] = t[1 + i - 1]
    BY <1>1, <1>2, <1>4, CutOut
  <2>2. QED BY <2>1
<1>7. y \in Seq(T) /\ Len(y) = k + 1 /\ \A i \in 1 .. k + 1 : y[i] = t[i]
  <2>1. y \in Seq(T) /\ Len(y) = k + 1 - 1 + 1 /\ \A i \in 1 .. k + 1 - 1 + 1 : y[i] = t[1 + i - 1]
    BY <1>1, <1>2, <1>5, CutOut
  <2>2. QED BY <2>1
<1>8. PICK z : z = Append(x, t[k + 1])
  OBVIOUS
<1>9. z \in Seq(T) /\ Len(z) = k + 1 /\ z[k + 1] = t[k + 1] /\ \A i \in 1..k : z[i] = x[i]
  BY <1>3, <1>6, <1>8, AppendProperties
<1>10. \A i \in 1 .. k + 1 : z[i] = y[i]
  <2> TAKE i \in 1 .. k + 1
  <2>1. i \in 1..k \/ i = k + 1
    OBVIOUS
  <2>2. QED BY <1>6, <1>7, <1>9, <2>1
<1>11. z = y
  BY <1>7, <1>9, <1>10, SameItems
<1>12. QED BY <1>3, <1>4, <1>5, <1>6, <1>8, <1>11

\* What JSON escapes comes back as it was (`json_unescape`), unless it is half of a
\* character.
THEOREM Unescaped ==
  ASSUME NEW t \in Seq(Whole)
  PROVE  /\ Unescape(Encode(t)) = t
         /\ Len(t) >= 1 /\ t[1] = "B" => Len(Encode(t)) >= 1 /\ Encode(t)[1] = "B"
<1>1. PICK n \in Nat : n = Len(t)
  BY LenProperties
<1>2. DOMAIN t = 1..n /\ \A i \in 1..n : t[i] \in Whole
  BY <1>1, LenProperties, ElementOfSeq
<1> DEFINE ss == [i \in DOMAIN t |-> EncodeToken(t[i])]
<1>3. PICK V : V = Seq(Escapes)
  OBVIOUS
<1>4. \A c \in Whole : EncodeToken(c) \in V
  BY <1>3, SealedToken DEF Sealed
<1>5. ss \in [1..n -> V] /\ \A i \in 1..n : ss[i] = EncodeToken(t[i])
  BY <1>2, <1>4
<1>6. Encode(t) = FlattenSeq(ss)
  BY DEF Encode
<1> HIDE DEF ss
<1>7. ss \in Seq(V) /\ Len(ss) = n
  <2>1. ss \in Seq(V)
    BY <1>5, SeqDef
  <2>2. QED BY <1>5, <2>1, LenProperties
<1>8. PICK f \in [0..n -> V] :
          /\ f[0] = <<>> /\ \A i \in 1..n : f[i] = f[i - 1] \o ss[i]
          /\ Encode(t) = f[n]
  <2>1. \E f \in [0..Len(ss) -> V] :
           /\ f[0] = <<>> /\ \A i \in 1..Len(ss) : f[i] = f[i - 1] \o ss[i]
           /\ FlattenSeq(ss) = f[Len(ss)]
    BY <1>3, <1>7, Flattened
  <2>2. QED BY <1>6, <1>7, <2>1
<1>9. \A k \in 0..n : f[k] \in Seq(Escapes)
  BY <1>3, <1>8
<1>10. ASSUME NEW x \in Seq(Escapes) PROVE x \in Seq(Json)
  BY SeqMonotonic DEF Json
<1> DEFINE Reads(k) == \A y \in Seq(Json) : \A r : ReadsUpTo(r, f[k] \o y) =>
                          r[Len(f[k])] = [text |-> SubSeq(t, 1, k), next |-> Len(f[k]) + 1]
           Opens(k) == k >= 1 /\ t[1] = "B" => Len(f[k]) >= 1 /\ f[k][1] = "B"
<1>11. Reads(0) /\ Opens(0)
  <2>1. Len(f[0]) = 0 /\ SubSeq(t, 1, 0) = <<>>
    BY <1>8
  <2>2. Len(f[0]) + 1 = 1 /\ ~(0 >= 1)
    BY <2>1
  <2>3. \A y, r : ReadsUpTo(r, y) => r[0] = [text |-> <<>>, next |-> 1]
    BY DEF ReadsUpTo
  <2>4. Reads(0)
    BY <2>1, <2>2, <2>3, Zenon
  <2>5. Opens(0)
    BY <2>2
  <2>6. QED BY <2>4, <2>5
<1>12. ASSUME NEW k \in 0 .. n - 1, Reads(k) /\ Opens(k) PROVE Reads(k + 1) /\ Opens(k + 1)
  <2>1. k \in 0..n /\ k + 1 \in 1..n /\ (k + 1) - 1 = k /\ k \in Nat /\ k + 1 \in 0..n
    OBVIOUS
  <2>2. PICK e, w, c : e = f[k] /\ c = t[k + 1] /\ w = EncodeToken(c)
    OBVIOUS
  <2>3. e \in Seq(Escapes) /\ c \in Whole /\ w \in Seq(Escapes)
    BY <1>2, <1>3, <1>4, <1>9, <2>1, <2>2
  <2>4. f[k + 1] = e \o w
    BY <1>5, <1>8, <2>1, <2>2
  <2>5. PICK o : o = Len(e)
    OBVIOUS
  <2>6. /\ Len(e \o w) = o + Len(w) /\ o \in Nat /\ Len(w) \in Nat
        /\ \A i \in 1..o : (e \o w)[i] = e[i]
        /\ \A i \in 1..Len(w) : (e \o w)[o + i] = w[i]
    BY <2>3, <2>5, Joined2
  <2>7. PICK u : u = SubSeq(t, 1, k)
    OBVIOUS
  <2>8. u \in Seq(Whole) /\ Append(u, c) = SubSeq(t, 1, k + 1)
    BY <1>1, <2>1, <2>2, <2>7, OneMore
  <2>9. ASSUME NEW y \in Seq(Json), NEW r, ReadsUpTo(r, f[k + 1] \o y)
        PROVE  r[Len(f[k + 1])] = [text |-> SubSeq(t, 1, k + 1), next |-> Len(f[k + 1]) + 1]
    <3>1. e \in Seq(Json) /\ w \in Seq(Json)
      BY <1>10, <2>3
    <3>2. PICK z : z = w \o y
      OBVIOUS
    <3>3. /\ z \in Seq(Json) /\ Len(z) = Len(w) + Len(y) /\ Len(y) \in Nat
          /\ \A i \in 1..Len(w) : z[i] = w[i]
      BY <3>1, <3>2, Joined2
    <3>4. PICK s : s = e \o z
      OBVIOUS
    <3>5. /\ s \in Seq(Json) /\ Len(s) = o + Len(z)
          /\ \A i \in 1..Len(z) : s[o + i] = z[i]
      <4>1. e \in Seq(Json) /\ z \in Seq(Json)
        BY <3>1, <3>3
      <4>2. /\ e \o z \in Seq(Json) /\ Len(e \o z) = Len(e) + Len(z)
            /\ \A i \in 1..Len(z) : (e \o z)[Len(e) + i] = z[i]
        BY <4>1, Joined2
      <4>3. QED BY <2>5, <3>4, <4>2
    <3>6. s = f[k + 1] \o y
      <4>1. (e \o w) \o y = e \o (w \o y)
        BY <3>1, ConcatAssociative, SMTT(30)
      <4>2. QED BY <2>4, <3>2, <3>4, <4>1
    <3>7. ReadsUpTo(r, s)
      BY <2>9, <3>6
    <3>8. r[o] = [text |-> u, next |-> o + 1]
      BY <1>12, <2>2, <2>5, <2>7, <3>3, <3>4, <3>7
    <3>9. o + Len(w) <= Len(s) /\ \A j \in 1..Len(w) : s[o + j] = w[j]
      BY <2>6, <3>3, <3>5
    <3>10. r[o + Len(w)] = [text |-> Append(u, c), next |-> o + Len(w) + 1]
      <4>1. /\ s \in Seq(Json) /\ u \in Seq(Whole) /\ c \in Whole /\ o \in Nat
            /\ w = EncodeToken(c)
        BY <2>2, <2>3, <2>6, <2>8, <3>5
      <4>2. IsNext(s, r, u, o, c, w)
        BY <3>7, <3>8, <3>9, <4>1 DEF IsNext, Says
      <4>3. Says(r, o + Len(w), Append(u, c))
        BY <4>1, <4>2, TokenIsRead
      <4>4. QED BY <4>3 DEF Says
    <3>11. QED BY <2>4, <2>6, <2>8, <3>10
  <2>10. ASSUME t[1] = "B" PROVE Len(f[k + 1]) >= 1 /\ f[k + 1][1] = "B"
    <3>1. CASE k = 0
      <4>1. e = <<>> /\ c = "B"
        BY <1>8, <2>2, <2>10, <3>1
      <4>2. w = <<"B">>
        BY <2>2, <4>1 DEF EncodeToken
      <4>3. Len(w) = 1 /\ w[1] = "B" /\ o = 0
        BY <2>5, <4>1, <4>2
      <4>4. QED BY <2>4, <2>6, <4>3
    <3>2. CASE k # 0
      <4>1. o >= 1 /\ e[1] = "B"
        BY <1>12, <2>1, <2>2, <2>5, <2>10, <3>2
      <4>2. QED BY <2>4, <2>6, <4>1
    <3>3. QED BY <3>1, <3>2
  <2>11. QED BY <2>9, <2>10
<1> HIDE DEF Reads, Opens
<1> DEFINE S == {k \in 0..n : ~(Reads(k) /\ Opens(k))}
<1>13. S = {}
  <2>1. SUFFICES ASSUME S # {} PROVE FALSE
    OBVIOUS
  <2>2. PICK m \in S : \A k \in S : m <= k
    <3>1. S \in SUBSET (0..n)
      OBVIOUS
    <3> HIDE DEF S
    <3>2. QED BY <2>1, <3>1, Least
  <2>3. m \in 0..n /\ ~(Reads(m) /\ Opens(m))
    OBVIOUS
  <2>4. m # 0
    BY <1>11, <2>3
  <2>5. PICK k \in 0 .. n - 1 : m = k + 1 /\ k \in 0..n /\ k < m
    <3>1. m - 1 \in 0 .. n - 1 /\ m = (m - 1) + 1 /\ m - 1 \in 0..n /\ m - 1 < m
      BY <2>3, <2>4
    <3>2. QED BY <3>1
  <2>6. Reads(k) /\ Opens(k)
    <3>1. k \notin S
      BY <2>2, <2>3, <2>5
    <3>2. QED BY <2>5, <3>1
  <2>7. Reads(m) /\ Opens(m)
    BY <1>12, <2>5, <2>6
  <2>8. QED BY <2>3, <2>7
<1>14. Reads(n) /\ Opens(n)
  <2>1. n \in 0..n /\ n \notin S
    BY <1>13
  <2>2. QED BY <2>1
<1> HIDE DEF S
<1>15. PICK e : e = Encode(t)
  OBVIOUS
<1>16. e \in Seq(Json) /\ e = f[n] /\ e \o <<>> = e /\ <<>> \in Seq(Json)
  <2>1. n \in 0..n /\ e = f[n]
    BY <1>8, <1>15
  <2>2. e \in Seq(Json)
    BY <1>9, <1>10, <2>1
  <2>3. e \o <<>> = e
    BY <2>2, ConcatEmptySeq
  <2>4. QED BY <2>1, <2>2, <2>3
<1>17. PICK r : ReadsUpTo(r, e) /\ Unescape(e) = r[Len(e)].text
  BY <1>16, ReadIs
<1>18. r[Len(e)] = [text |-> SubSeq(t, 1, n), next |-> Len(e) + 1]
  BY <1>14, <1>16, <1>17 DEF Reads
<1>19. SubSeq(t, 1, n) = t
  <2>1. 1 \in 1 .. n + 1 /\ n \in 1 - 1 .. n
    OBVIOUS
  <2>2. PICK x : x = SubSeq(t, 1, n)
    OBVIOUS
  <2>3. x \in Seq(Whole) /\ Len(x) = n - 1 + 1 /\ \A i \in 1 .. n - 1 + 1 : x[i] = t[1 + i - 1]
    BY <1>1, <2>1, <2>2, CutOut
  <2>4. Len(x) = n /\ \A i \in 1..n : x[i] = t[i]
    BY <2>3
  <2>5. QED BY <1>1, <2>2, <2>3, <2>4, SameItems
<1>20. QED BY <1>1, <1>14, <1>15, <1>16, <1>17, <1>18, <1>19 DEF Opens

-----------------------------------------------------------------------------
(* Lines of the transcript, whole and torn.                                *)

\* What stands where in a block with n characters.
BlockWith(x, e, n) ==
    /\ x \in Seq(Json) /\ n \in Nat /\ Len(x) = n + 3 /\ x[1] = "K"
    /\ \A i \in 1..n : x[1 + i] = e[i]
    /\ x[n + 2] = "qt" /\ x[n + 3] = "x"

LEMMA BlockIs ==
  ASSUME NEW t \in Seq(Whole), NEW e, e = Encode(t), NEW n, n = Len(e)
  PROVE  BlockWith(Block(t), e, n)
<1>1. e \in Seq(Json)
  <2>1. e \in Seq(Escapes)
    BY EncodeSealed DEF Sealed
  <2>2. QED BY <2>1, SeqMonotonic DEF Json
<1>2. PICK k, z : k = <<"K">> /\ z = <<"qt", "x">>
  OBVIOUS
<1>3. /\ k \in Seq(Json) /\ Len(k) = 1 /\ k[1] = "K"
      /\ z \in Seq(Json) /\ Len(z) = 2 /\ z[1] = "qt" /\ z[2] = "x"
  BY <1>2 DEF Json, Escapes
<1>4. PICK x : x = k \o e
  OBVIOUS
<1>5. /\ x \in Seq(Json) /\ Len(x) = Len(k) + Len(e) /\ Len(e) \in Nat
      /\ \A i \in 1..Len(k) : x[i] = k[i]
      /\ \A i \in 1..Len(e) : x[Len(k) + i] = e[i]
  <2>1. k \in Seq(Json) /\ e \in Seq(Json)
    BY <1>1, <1>3
  <2>2. QED BY <1>4, <2>1, Joined2
<1>6. /\ n \in Nat /\ Len(x) = n + 1 /\ x[1] = "K" /\ \A i \in 1..n : x[1 + i] = e[i]
  BY <1>3, <1>5
<1>7. PICK y : y = x \o z
  OBVIOUS
<1>8. /\ y \in Seq(Json) /\ Len(y) = Len(x) + Len(z)
      /\ \A i \in 1..Len(x) : y[i] = x[i]
      /\ \A i \in 1..Len(z) : y[Len(x) + i] = z[i]
  <2>1. x \in Seq(Json) /\ z \in Seq(Json)
    BY <1>3, <1>5
  <2>2. QED BY <1>7, <2>1, Joined2
<1>9. y[1] = "K" /\ \A i \in 1..n : y[1 + i] = e[i]
  <2>1. 1 \in 1..Len(x) /\ \A i \in 1..n : 1 + i \in 1..Len(x)
    BY <1>6
  <2>2. QED BY <1>6, <1>8, <2>1
<1>10. Len(y) = n + 3 /\ y[n + 2] = "qt" /\ y[n + 3] = "x"
  <2>1. y[Len(x) + 1] = z[1] /\ y[Len(x) + 2] = z[2]
    BY <1>3, <1>8
  <2>2. Len(x) + 1 = n + 2 /\ Len(x) + 2 = n + 3 /\ Len(y) = n + 3
    BY <1>3, <1>6, <1>8
  <2>3. QED BY <1>3, <2>1, <2>2
<1>11. Block(t) = y
  BY <1>2, <1>4, <1>7 DEF Block
<1>12. QED BY <1>6, <1>8, <1>9, <1>10, <1>11 DEF BlockWith

\* The first k characters of a line with two texts that are written as q and f.
CutWith(cut, k, q, a, f, b) ==
    /\ cut \in Seq(Json) /\ Len(cut) = k /\ k \in 1 .. a + b + 7 /\ a \in Nat /\ b \in Nat
    /\ cut[1] = "x" /\ (k >= 2 => cut[2] = "K")
    /\ \A i \in 1..a : i + 2 <= k => cut[i + 2] = q[i]
    /\ k >= a + 3 => cut[a + 3] = "qt"
    /\ k >= a + 4 => cut[a + 4] = "x"
    /\ k >= a + 5 => cut[a + 5] = "K"
    /\ \A i \in 1..b : a + 5 + i <= k => cut[a + 5 + i] = f[i]
    /\ k >= a + b + 6 => cut[a + b + 6] = "qt"
    /\ k >= a + b + 7 => cut[a + b + 7] = "x"

LEMMA CutIs ==
  ASSUME NEW line, NEW n, NEW q, NEW a, NEW f, NEW b, CutWith(line, n, q, a, f, b),
         NEW k \in 1..n
  PROVE  CutWith(SubSeq(line, 1, k), k, q, a, f, b)
<1>1. line \in Seq(Json) /\ Len(line) = n /\ n \in Nat /\ a \in Nat /\ b \in Nat /\ n <= a + b + 7
  BY DEF CutWith
<1>2. 1 \in 1 .. Len(line) + 1 /\ k \in 1 - 1 .. Len(line)
  BY <1>1
<1>3. PICK c : c = SubSeq(line, 1, k)
  OBVIOUS
<1>4. c \in Seq(Json) /\ Len(c) = k - 1 + 1 /\ \A i \in 1 .. k - 1 + 1 : c[i] = line[1 + i - 1]
  BY <1>1, <1>2, <1>3, CutOut
<1>5. Len(c) = k /\ \A i \in 1..k : c[i] = line[i]
  BY <1>1, <1>4
<1>6. k \in 1 .. a + b + 7 /\ k <= n
  BY <1>1
<1>7. \A i \in Nat : i >= 1 /\ i <= k => c[i] = line[i] /\ i <= n
  BY <1>1, <1>5
<1>8. c[1] = "x" /\ (k >= 2 => c[2] = "K")
  BY <1>6, <1>7 DEF CutWith
<1>9. \A i \in 1..a : i + 2 <= k => c[i + 2] = q[i]
  BY <1>1, <1>6, <1>7 DEF CutWith
<1>10. \A i \in 1..b : a + 5 + i <= k => c[a + 5 + i] = f[i]
  BY <1>1, <1>6, <1>7 DEF CutWith
<1>11. /\ k >= a + 3 => c[a + 3] = "qt"
       /\ k >= a + 4 => c[a + 4] = "x"
       /\ k >= a + 5 => c[a + 5] = "K"
  BY <1>1, <1>6, <1>7 DEF CutWith
<1>12. /\ k >= a + b + 6 => c[a + b + 6] = "qt"
       /\ k >= a + b + 7 => c[a + b + 7] = "x"
  BY <1>1, <1>6, <1>7 DEF CutWith
<1>13. QED BY <1>1, <1>3, <1>4, <1>5, <1>6, <1>8, <1>9, <1>10, <1>11, <1>12 DEF CutWith

\* A line with one text is the first part of one with two.
LEMMA OneTextIs ==
  ASSUME NEW t \in Seq(Whole), NEW q, q = Encode(t), NEW a, a = Len(q), NEW f, NEW b \in Nat
  PROVE  CutWith(<<"x">> \o Block(t), a + 4, q, a, f, b)
<1>1. PICK x, y : x = <<"x">> /\ y = Block(t)
  OBVIOUS
<1>2. BlockWith(y, q, a)
  BY <1>1, BlockIs
<1>3. /\ y \in Seq(Json) /\ a \in Nat /\ Len(y) = a + 3 /\ y[1] = "K"
      /\ \A i \in 1..a : y[1 + i] = q[i]
      /\ y[a + 2] = "qt" /\ y[a + 3] = "x"
  BY <1>2 DEF BlockWith
<1>4. x \in Seq(Json) /\ Len(x) = 1 /\ x[1] = "x"
  BY <1>1 DEF Json
<1>5. PICK l : l = x \o y
  OBVIOUS
<1>6. /\ l \in Seq(Json) /\ Len(l) = Len(x) + Len(y)
      /\ \A i \in 1..Len(x) : l[i] = x[i]
      /\ \A i \in 1..Len(y) : l[Len(x) + i] = y[i]
  <2>1. x \in Seq(Json) /\ y \in Seq(Json)
    BY <1>3, <1>4
  <2>2. QED BY <1>5, <2>1, Joined2
<1>7. Len(l) = a + 4 /\ l[1] = "x" /\ \A i \in 1 .. a + 3 : l[1 + i] = y[i]
  BY <1>3, <1>4, <1>6
<1>8. l[2] = "K" /\ l[a + 3] = "qt" /\ l[a + 4] = "x"
  <2>1. /\ 1 \in 1 .. a + 3 /\ a + 2 \in 1 .. a + 3 /\ a + 3 \in 1 .. a + 3
        /\ 1 + 1 = 2 /\ 1 + (a + 2) = a + 3 /\ 1 + (a + 3) = a + 4
    BY <1>3
  <2>2. l[1 + 1] = y[1] /\ l[1 + (a + 2)] = y[a + 2] /\ l[1 + (a + 3)] = y[a + 3]
    BY <1>7, <2>1
  <2>3. QED BY <1>3, <2>1, <2>2
<1>9. \A i \in 1..a : l[i + 2] = q[i]
  <2> TAKE i \in 1..a
  <2>1. 1 + i \in 1 .. a + 3 /\ 1 + (1 + i) = i + 2
    BY <1>3
  <2>2. QED BY <1>3, <1>7, <2>1
<1>10. /\ a + 4 \in 1 .. a + b + 7 /\ ~(a + 4 >= a + 5)
       /\ ~(a + 4 >= a + b + 6) /\ ~(a + 4 >= a + b + 7)
       /\ \A i \in 1..b : ~(a + 5 + i <= a + 4)
  BY <1>3
<1>11. CutWith(l, a + 4, q, a, f, b)
  BY <1>3, <1>6, <1>7, <1>8, <1>9, <1>10 DEF CutWith
<1>12. QED BY <1>1, <1>5, <1>11

LEMMA TwoTextsAre ==
  ASSUME NEW t \in Seq(Whole), NEW q, q = Encode(t), NEW a, a = Len(q),
         NEW u \in Seq(Whole), NEW f, f = Encode(u), NEW b, b = Len(f)
  PROVE  CutWith(<<"x">> \o Block(t) \o Block(u), a + b + 7, q, a, f, b)
<1>1. PICK x, y : x = <<"x">> \o Block(t) /\ y = Block(u)
  OBVIOUS
<1>2. BlockWith(y, f, b)
  BY <1>1, BlockIs
<1>3. /\ y \in Seq(Json) /\ b \in Nat /\ Len(y) = b + 3 /\ y[1] = "K"
      /\ \A i \in 1..b : y[1 + i] = f[i]
      /\ y[b + 2] = "qt" /\ y[b + 3] = "x"
  BY <1>2 DEF BlockWith
<1>4. CutWith(x, a + 4, q, a, f, b)
  BY <1>1, <1>3, OneTextIs
<1>5. /\ x \in Seq(Json) /\ a \in Nat /\ Len(x) = a + 4 /\ x[1] = "x" /\ x[2] = "K"
      /\ x[a + 3] = "qt" /\ x[a + 4] = "x" /\ \A i \in 1..a : x[i + 2] = q[i]
  BY <1>4 DEF CutWith
<1>6. PICK l : l = x \o y
  OBVIOUS
<1>7. /\ l \in Seq(Json) /\ Len(l) = Len(x) + Len(y)
      /\ \A i \in 1..Len(x) : l[i] = x[i]
      /\ \A i \in 1..Len(y) : l[Len(x) + i] = y[i]
  <2>1. x \in Seq(Json) /\ y \in Seq(Json)
    BY <1>3, <1>5
  <2>2. QED BY <1>6, <2>1, Joined2
<1>8. /\ Len(l) = a + b + 7 /\ \A i \in 1 .. a + 4 : l[i] = x[i]
      /\ \A i \in 1 .. b + 3 : l[a + 4 + i] = y[i]
  BY <1>3, <1>5, <1>7
<1>9. l[1] = "x" /\ l[2] = "K" /\ l[a + 3] = "qt" /\ l[a + 4] = "x"
  <2>1. 1 \in 1 .. a + 4 /\ 2 \in 1 .. a + 4 /\ a + 3 \in 1 .. a + 4 /\ a + 4 \in 1 .. a + 4
    BY <1>5
  <2>2. QED BY <1>5, <1>8, <2>1
<1>10. \A i \in 1..a : l[i + 2] = q[i]
  <2> TAKE i \in 1..a
  <2>1. i + 2 \in 1 .. a + 4
    BY <1>5
  <2>2. QED BY <1>5, <1>8, <2>1
<1>11. l[a + 5] = "K" /\ l[a + b + 6] = "qt" /\ l[a + b + 7] = "x"
  <2>1. /\ 1 \in 1 .. b + 3 /\ b + 2 \in 1 .. b + 3 /\ b + 3 \in 1 .. b + 3
        /\ a + 4 + 1 = a + 5 /\ a + 4 + (b + 2) = a + b + 6 /\ a + 4 + (b + 3) = a + b + 7
    BY <1>3, <1>5
  <2>2. l[a + 4 + 1] = y[1] /\ l[a + 4 + (b + 2)] = y[b + 2] /\ l[a + 4 + (b + 3)] = y[b + 3]
    BY <1>8, <2>1
  <2>3. QED BY <1>3, <2>1, <2>2
<1>12. \A i \in 1..b : l[a + 5 + i] = f[i]
  <2> TAKE i \in 1..b
  <2>1. 1 + i \in 1 .. b + 3 /\ a + 4 + (1 + i) = a + 5 + i
    BY <1>3, <1>5
  <2>2. QED BY <1>3, <1>8, <2>1
<1>13. a + b + 7 \in 1 .. a + b + 7
  BY <1>3, <1>5
<1>14. CutWith(l, a + b + 7, q, a, f, b)
  BY <1>3, <1>5, <1>7, <1>8, <1>9, <1>10, <1>11, <1>12, <1>13 DEF CutWith
<1>15. QED BY <1>1, <1>6, <1>14

\* From start on, the line has as much of e as fits, and the quote behind it.
Holds(line, start, e, n) ==
    /\ \A i \in 1..n : start + i - 1 <= Len(line) => line[start + i - 1] = e[i]
    /\ start + n <= Len(line) => line[start + n] = "qt"

\* A text that is whole is read as it was written; one that is torn has no end.
LEMMA TextIs ==
  ASSUME NEW line \in Seq(Json), NEW start \in 1 .. Len(line) + 1, NEW t \in Seq(Whole),
         NEW e, e = Encode(t), NEW n, n = Len(e), Holds(line, start, e, n)
  PROVE  /\ start + n > Len(line) => Closing(line, start) = {}
         /\ start + n <= Len(line) => Closing(line, start) # {} /\ TextAt(line, start) = t
<1>1. e \in Sealed /\ e \in Seq(Escapes)
  BY EncodeSealed DEF Sealed
<1>2. e \in Seq(Json) /\ n \in Nat
  BY <1>1, SeqMonotonic, LenProperties DEF Json
<1>3. /\ start + n > Len(line) => Closing(line, start) = {}
      /\ start + n <= Len(line) =>
             Closing(line, start) # {} /\ Min(Closing(line, start)) = start + n
  <2>1. /\ \A i \in 1..Len(e) : start + i - 1 <= Len(line) => line[start + i - 1] = e[i]
        /\ start + Len(e) <= Len(line) => line[start + Len(e)] = "qt"
    BY DEF Holds
  <2>2. /\ start + Len(e) > Len(line) => Closing(line, start) = {}
        /\ start + Len(e) <= Len(line) =>
               Closing(line, start) # {} /\ Min(Closing(line, start)) = start + Len(e)
    BY <1>1, <2>1, ClosingIs
  <2>3. QED BY <2>2
<1>4. ASSUME start + n <= Len(line) PROVE TextAt(line, start) = t
  <2>1. PICK z : z = start + n - 1
    OBVIOUS
  <2>2. z \in start - 1 .. Len(line) /\ z - start + 1 = n /\ Len(line) \in Nat
    BY <1>2, <1>4, <2>1, LenProperties
  <2>3. PICK x : x = SubSeq(line, start, z)
    OBVIOUS
  <2>4. x \in Seq(Json) /\ Len(x) = n /\ \A i \in 1..n : x[i] = line[start + i - 1]
    <3>1. /\ x \in Seq(Json) /\ Len(x) = z - start + 1
          /\ \A i \in 1 .. z - start + 1 : x[i] = line[start + i - 1]
      BY <2>2, <2>3, CutOut
    <3>2. QED BY <2>2, <3>1
  <2>5. \A i \in 1..n : x[i] = e[i]
    BY <1>2, <1>4, <2>2, <2>4 DEF Holds
  <2>6. x = e
    BY <1>2, <2>4, <2>5, SameItems
  <2>7. TextAt(line, start) = Unescape(e)
    <3>1. Min(Closing(line, start)) - 1 = z
      BY <1>3, <1>4, <2>1
    <3>2. QED BY <2>3, <2>6, <3>1 DEF TextAt
  <2>8. QED BY <2>7, Unescaped
<1>5. QED BY <1>3, <1>4

\* What a line yields that tells a text without a fence and then one that begins with
\* the opening marker, wherever it is torn: the second text's reply, if that is whole.
LEMMA CutReply ==
  ASSUME NEW Q \in Seq(Whole), ExtractBetween(Q) = None, NEW q, q = Encode(Q), NEW a,
         NEW F \in Seq(Whole), Len(F) >= 1, F[1] = "B", NEW f, f = Encode(F), NEW b,
         a = Len(q), b = Len(f), NEW cut, NEW k, CutWith(cut, k, q, a, f, b)
  PROVE  /\ k >= a + b + 6 => /\ ReplyOfLine(cut) = ExtractBetween(F)
                              /\ ExtractBetween(F) # None => FencedTexts(cut) # {}
         /\ k < a + b + 6 => ReplyOfLine(cut) = None
         /\ k = a + 4 => FencedTexts(cut) = {}
<1>1. /\ q \in Seq(Escapes) /\ f \in Seq(Escapes) /\ a \in Nat /\ b \in Nat
      /\ \A i \in 1..a : q[i] # "K"
      /\ \A i \in 1..b : f[i] # "K"
      /\ b >= 1 /\ f[1] = "B"
  <2>1. q \in Seq(Escapes) /\ f \in Seq(Escapes)
    BY EncodeSealed DEF Sealed
  <2>2. /\ a \in Nat /\ b \in Nat
        /\ \A i \in 1..a : q[i] \in Escapes
        /\ \A i \in 1..b : f[i] \in Escapes
    BY <2>1, LenProperties, ElementOfSeq
  <2>3. "K" \notin Escapes
    BY DEF Escapes
  <2>4. b >= 1 /\ f[1] = "B"
    BY Unescaped
  <2>5. QED BY <2>1, <2>2, <2>3, <2>4
<1>2. /\ cut \in Seq(Json) /\ Len(cut) = k /\ k \in 1 .. a + b + 7
      /\ DOMAIN cut = 1..k
  BY LenProperties DEF CutWith
<1>3. PICK s1, s2 : s1 = 3 /\ s2 = a + 6
  OBVIOUS
<1>4. PICK TS : TS = TextStarts(cut)
  OBVIOUS
<1>5. ASSUME NEW i PROVE i \in TS <=> (i = s1 /\ k >= 2) \/ (i = s2 /\ k >= a + 5)
  <2>1. i \in TS <=> i \in 2 .. k + 1 /\ cut[i - 1] = "K"
    BY <1>2, <1>4 DEF TextStarts
  <2>2. k >= 2 => cut[3 - 1] = "K" /\ 3 \in 2 .. k + 1
    BY <1>2 DEF CutWith
  <2>3. k >= a + 5 => cut[a + 6 - 1] = "K" /\ a + 6 \in 2 .. k + 1
    <3>1. a + 6 - 1 = a + 5
      BY <1>1
    <3>2. QED BY <1>1, <1>2, <3>1 DEF CutWith
  <2>4. ASSUME NEW j \in 1..k, cut[j] = "K" PROVE j = 2 \/ j = a + 5
    <3>1. \/ j = 1 \/ j = 2 \/ j - 2 \in 1..a \/ j = a + 3 \/ j = a + 4 \/ j = a + 5
          \/ j - (a + 5) \in 1..b \/ j = a + b + 6 \/ j = a + b + 7
      <4>1. a \in Nat /\ b \in Nat /\ j \in Nat /\ 1 <= j /\ j <= a + b + 7
        BY <1>1, <1>2
      <4>2. CASE j <= a + 2
        <5>1. j = 1 \/ j = 2 \/ j - 2 \in 1..a
          BY <4>1, <4>2
        <5>2. QED BY <5>1
      <4>3. CASE j > a + 2 /\ j <= a + 5
        <5>1. j = a + 3 \/ j = a + 4 \/ j = a + 5
          BY <4>1, <4>3
        <5>2. QED BY <5>1
      <4>4. CASE j > a + 5
        <5>1. j - (a + 5) \in 1..b \/ j = a + b + 6 \/ j = a + b + 7
          BY <4>1, <4>4
        <5>2. QED BY <5>1
      <4>5. QED BY <4>1, <4>2, <4>3, <4>4
    <3>2. j # 1
      BY <2>4 DEF CutWith
    <3>3. j - 2 \notin 1..a
      <4>1. SUFFICES ASSUME j - 2 \in 1..a PROVE FALSE
        OBVIOUS
      <4>2. PICK h \in 1..a : h + 2 = j
        BY <4>1
      <4>3. cut[h + 2] = q[h]
        BY <1>2, <4>2 DEF CutWith
      <4>4. QED BY <1>1, <2>4, <4>2, <4>3
    <3>4. j # a + 3 /\ j # a + 4
      <4>1. k >= a + 3 => cut[a + 3] # "K"
        BY DEF CutWith
      <4>2. k >= a + 4 => cut[a + 4] # "K"
        BY DEF CutWith
      <4>3. QED BY <1>1, <1>2, <2>4, <4>1, <4>2
    <3>5. j - (a + 5) \notin 1..b
      <4>1. SUFFICES ASSUME j - (a + 5) \in 1..b PROVE FALSE
        OBVIOUS
      <4>2. PICK h \in 1..b : a + 5 + h = j
        <5>1. a + 5 + (j - (a + 5)) = j
          BY <1>1, <1>2
        <5>2. QED BY <4>1, <5>1
      <4>3. cut[j] = f[h]
        <5>1. j <= k
          BY <1>2
        <5>2. QED BY <4>2, <5>1 DEF CutWith
      <4>4. QED BY <1>1, <2>4, <4>2, <4>3
    <3>6. j # a + b + 6 /\ j # a + b + 7
      <4>1. k >= a + b + 6 => cut[a + b + 6] # "K"
        BY DEF CutWith
      <4>2. k >= a + b + 7 => cut[a + b + 7] # "K"
        BY DEF CutWith
      <4>3. QED BY <1>1, <1>2, <2>4, <4>1, <4>2
    <3>7. QED BY <3>1, <3>2, <3>3, <3>4, <3>5, <3>6
  <2>5. i \in TS => i \in 2 .. k + 1 /\ (i - 1 = 2 \/ i - 1 = a + 5)
    <3>1. i \in 2 .. k + 1 => i - 1 \in 1..k
      BY <1>2
    <3>2. QED BY <2>1, <2>4, <3>1
  <2>6. i \in TS => (i = 3 /\ k >= 2) \/ (i = a + 6 /\ k >= a + 5)
    <3>1. k \in Nat /\ a \in Nat
      BY <1>1, <1>2
    <3>2. i \in 2 .. k + 1 /\ (i - 1 = 2 \/ i - 1 = a + 5) =>
              (i = 3 /\ k >= 2) \/ (i = a + 6 /\ k >= a + 5)
      BY <3>1
    <3>3. QED BY <2>5, <3>2
  <2>7. QED BY <1>3, <2>1, <2>2, <2>3, <2>6
<1>6. k >= 2 => /\ k < a + 3 => Closing(cut, s1) = {}
                /\ k >= a + 3 => Closing(cut, s1) # {} /\ TextAt(cut, s1) = Q
  <2> HAVE k >= 2
  <2>1. s1 \in 1 .. Len(cut) + 1
    BY <1>2, <1>3
  <2>2. Holds(cut, s1, q, a)
    <3>1. \A i \in 1..a : s1 + i - 1 <= k => cut[s1 + i - 1] = q[i]
      <4> TAKE i \in 1..a
      <4>1. s1 + i - 1 = i + 2
        BY <1>3
      <4>2. QED BY <4>1 DEF CutWith
    <3>2. s1 + a <= k => cut[s1 + a] = "qt"
      <4>1. s1 + a = a + 3
        BY <1>1, <1>3
      <4>2. QED BY <1>2, <4>1 DEF CutWith
    <3>3. QED BY <1>2, <3>1, <3>2 DEF Holds
  <2>3. /\ s1 + a > Len(cut) => Closing(cut, s1) = {}
        /\ s1 + a <= Len(cut) => Closing(cut, s1) # {} /\ TextAt(cut, s1) = Q
    BY <1>2, <2>1, <2>2, TextIs
  <2>4. QED BY <1>1, <1>2, <1>3, <2>3
<1>7. k >= a + 5 => /\ k < a + b + 6 => Closing(cut, s2) = {}
                    /\ k >= a + b + 6 => Closing(cut, s2) # {} /\ TextAt(cut, s2) = F
  <2> HAVE k >= a + 5
  <2>1. s2 \in 1 .. Len(cut) + 1
    BY <1>1, <1>2, <1>3
  <2>2. Holds(cut, s2, f, b)
    <3>1. \A i \in 1..b : s2 + i - 1 <= k => cut[s2 + i - 1] = f[i]
      <4> TAKE i \in 1..b
      <4>1. s2 + i - 1 = a + 5 + i
        BY <1>1, <1>3
      <4>2. QED BY <4>1 DEF CutWith
    <3>2. s2 + b <= k => cut[s2 + b] = "qt"
      <4>1. s2 + b = a + b + 6
        BY <1>1, <1>3
      <4>2. QED BY <1>2, <4>1 DEF CutWith
    <3>3. QED BY <1>2, <3>1, <3>2 DEF Holds
  <2>3. /\ s2 + b > Len(cut) => Closing(cut, s2) = {}
        /\ s2 + b <= Len(cut) => Closing(cut, s2) # {} /\ TextAt(cut, s2) = F
    BY <1>2, <2>1, <2>2, TextIs
  <2>4. QED BY <1>1, <1>2, <1>3, <2>3
<1>8. PICK FT : FT = FencedTexts(cut)
  OBVIOUS
<1>9. FT = {i \in TS : ExtractBetween(TextAt(cut, i)) # None}
  BY <1>4, <1>8 DEF FencedTexts
<1>10. Panics(cut) <=> \E i \in TS : Closing(cut, i) = {}
  BY <1>4 DEF Panics
<1>11. k >= a + 3 /\ k < a + 5 => FT = {}
  <2> HAVE k >= a + 3 /\ k < a + 5
  <2>1. ASSUME NEW i \in FT PROVE FALSE
    <3>1. i = s1
      BY <1>1, <1>2, <1>5, <1>9
    <3>2. k >= 2
      BY <1>1, <1>2
    <3>3. TextAt(cut, s1) = Q
      BY <1>6, <3>2
    <3>4. QED BY <1>9, <3>1, <3>3
  <2>2. QED BY <2>1
<1>12. ASSUME k < a + b + 6 PROVE ReplyOfLine(cut) = None
  <2>1. CASE k = 1
    <3>1. FT = {}
      BY <1>1, <1>5, <1>9, <2>1
    <3>2. QED BY <1>8, <3>1 DEF ReplyOfLine
  <2>2. CASE k >= 2 /\ k < a + 3
    <3>1. s1 \in TS /\ Closing(cut, s1) = {}
      BY <1>5, <1>6, <2>2
    <3>2. QED BY <1>10, <3>1 DEF ReplyOfLine
  <2>3. CASE k >= a + 3 /\ k < a + 5
    BY <1>8, <1>11, <2>3 DEF ReplyOfLine
  <2>4. CASE k >= a + 5
    <3>1. s2 \in TS /\ Closing(cut, s2) = {}
      BY <1>5, <1>7, <1>12, <2>4
    <3>2. QED BY <1>10, <3>1 DEF ReplyOfLine
  <2>5. QED BY <1>1, <1>2, <2>1, <2>2, <2>3, <2>4
<1>13. ASSUME k >= a + b + 6
       PROVE  ReplyOfLine(cut) = ExtractBetween(F) /\ (ExtractBetween(F) # None => FT # {})
  <2>1. /\ s1 \in TS /\ s2 \in TS /\ Closing(cut, s1) # {} /\ Closing(cut, s2) # {}
        /\ TextAt(cut, s1) = Q /\ TextAt(cut, s2) = F
        /\ \A i \in TS : i = s1 \/ i = s2
    <3>1. k >= 2 /\ k >= a + 3 /\ k >= a + 5
      BY <1>1, <1>2, <1>13
    <3>2. Closing(cut, s1) # {} /\ TextAt(cut, s1) = Q
      BY <1>6, <3>1
    <3>3. Closing(cut, s2) # {} /\ TextAt(cut, s2) = F
      BY <1>7, <1>13, <3>1
    <3>4. QED BY <1>5, <3>1, <3>2, <3>3
  <2>2. ~Panics(cut)
    BY <1>10, <2>1
  <2>3. "B" \in ToSet(cut)
    <3>1. a + 5 + 1 \in 1..k /\ 1 \in 1..b /\ a + 5 + 1 <= k
      BY <1>1, <1>2, <1>13
    <3>2. cut[a + 5 + 1] = f[1]
      BY <3>1 DEF CutWith
    <3>3. QED BY <1>1, <1>2, <3>1, <3>2 DEF ToSet
  <2>4. CASE ExtractBetween(F) = None
    <3>1. FT = {}
      BY <1>9, <2>1, <2>4
    <3>2. QED BY <1>8, <2>4, <3>1 DEF ReplyOfLine
  <2>5. CASE ExtractBetween(F) # None
    <3>1. FT = {s2}
      BY <1>9, <2>1, <2>5
    <3>2. PICK m : m = Min(FT)
      OBVIOUS
    <3>3. m = s2
      <4>1. FT \in SUBSET (0 .. a + 6) /\ FT # {} /\ a + 6 \in Nat
        BY <1>1, <1>3, <3>1
      <4>2. m \in FT
        BY <3>2, <4>1, MinMax
      <4>3. QED BY <3>1, <4>2
    <3>4. ReplyOfLine(cut) = ExtractBetween(TextAt(cut, m))
      BY <1>8, <2>2, <2>3, <3>1, <3>2 DEF ReplyOfLine
    <3>5. QED BY <2>1, <3>1, <3>3, <3>4
  <2>6. QED BY <2>4, <2>5
<1>14. k = a + 4 => FT = {}
  BY <1>1, <1>11
<1>15. QED BY <1>8, <1>12, <1>13, <1>14

-----------------------------------------------------------------------------
(* The reply in the transcript.                                            *)

\* A sequence is what it was before its last item, and that item.
LEMMA FrontLast ==
  ASSUME NEW T, NEW s \in Seq(T), s # <<>>
  PROVE  Front(s) \in Seq(T) /\ Last(s) \in T /\ s = Append(Front(s), Last(s))
<1>1. PICK n \in Nat : n = Len(s)
  BY LenProperties
<1>2. n >= 1
  BY <1>1, EmptySeq
<1>3. PICK k \in Nat : n = k + 1
  <2>1. n - 1 \in Nat /\ n = (n - 1) + 1
    BY <1>2
  <2>2. QED BY <2>1
<1>4. /\ SubSeq(s, 1, k) \in Seq(T) /\ s[k + 1] \in T
      /\ Append(SubSeq(s, 1, k), s[k + 1]) = SubSeq(s, 1, k + 1)
  <2>1. k + 1 <= Len(s)
    BY <1>1, <1>3
  <2>2. QED BY <2>1, OneMore
<1>5. SubSeq(s, 1, n) = s
  <2>1. 1 \in 1 .. n + 1 /\ n \in 1 - 1 .. n
    OBVIOUS
  <2>2. PICK x : x = SubSeq(s, 1, n)
    OBVIOUS
  <2>3. x \in Seq(T) /\ Len(x) = n - 1 + 1 /\ \A i \in 1 .. n - 1 + 1 : x[i] = s[1 + i - 1]
    BY <1>1, <2>1, <2>2, CutOut
  <2>4. Len(x) = n /\ \A i \in 1..n : x[i] = s[i]
    BY <2>3
  <2>5. QED BY <1>1, <2>2, <2>3, <2>4, SameItems
<1>6. Front(s) = SubSeq(s, 1, k) /\ Last(s) = s[k + 1]
  <2>1. Len(s) - 1 = k /\ Len(s) = k + 1
    BY <1>1, <1>3
  <2>2. QED BY <2>1 DEF Front, Last
<1>7. QED BY <1>3, <1>4, <1>5, <1>6

LEMMA FrontAppend ==
  ASSUME NEW T, NEW s \in Seq(T), NEW e \in T
  PROVE  /\ Append(s, e) \in Seq(T) /\ Append(s, e) # <<>>
         /\ Front(Append(s, e)) = s /\ Last(Append(s, e)) = e
<1>1. PICK t : t = Append(s, e)
  OBVIOUS
<1>2. PICK n \in Nat : n = Len(s)
  BY LenProperties
<1>3. t \in Seq(T) /\ Len(t) = n + 1 /\ t[n + 1] = e /\ \A i \in 1..n : t[i] = s[i]
  BY <1>1, <1>2, AppendProperties
<1>4. t # <<>>
  BY <1>3
<1>5. Last(t) = e
  BY <1>3 DEF Last
<1>6. PICK x : x = SubSeq(t, 1, n)
  OBVIOUS
<1>7. x \in Seq(T) /\ Len(x) = n /\ \A i \in 1..n : x[i] = t[i]
  <2>1. 1 \in 1 .. Len(t) + 1 /\ n \in 1 - 1 .. Len(t)
    BY <1>3
  <2>2. x \in Seq(T) /\ Len(x) = n - 1 + 1 /\ \A i \in 1 .. n - 1 + 1 : x[i] = t[1 + i - 1]
    BY <1>3, <1>6, <2>1, CutOut
  <2>3. QED BY <2>2
<1>8. x = s
  <2>1. \A i \in 1..n : x[i] = s[i]
    BY <1>3, <1>7
  <2>2. QED BY <1>2, <1>7, <2>1, SameItems
<1>9. Front(t) = s
  <2>1. Len(t) - 1 = n
    BY <1>3
  <2>2. QED BY <1>6, <1>8, <2>1 DEF Front
<1>10. QED BY <1>1, <1>3, <1>4, <1>5, <1>9

\* What a file yields, and a file that yields the first of the replies s.
Yields(f)    == FirstOf([i \in DOMAIN f |-> ReplyOfLine(f[i])])
Agrees(f, s) == Yields(f) = IF s = <<>> THEN None ELSE Some(Trim(Head(s)))

\* Another line counts only if no line before it has a reply.
LEMMA OneMoreLine ==
  ASSUME NEW T, NEW f \in Seq(T), NEW l \in T
  PROVE  Yields(Append(f, l)) = IF Yields(f) # None THEN Yields(f) ELSE ReplyOfLine(l)
<1>1. PICK n \in Nat : n = Len(f)
  BY LenProperties
<1>2. PICK g : g = Append(f, l)
  OBVIOUS
<1>3. /\ DOMAIN f = 1..n /\ DOMAIN g = 1 .. n + 1 /\ g[n + 1] = l
      /\ \A i \in 1..n : g[i] = f[i]
  <2>1. g \in Seq(T) /\ Len(g) = n + 1 /\ g[n + 1] = l /\ \A i \in 1..n : g[i] = f[i]
    BY <1>1, <1>2, AppendProperties
  <2>2. QED BY <1>1, <2>1, LenProperties
<1>4. PICK O : O = [i \in DOMAIN f |-> ReplyOfLine(f[i])]
  OBVIOUS
<1>5. PICK P : P = [i \in DOMAIN g |-> ReplyOfLine(g[i])]
  OBVIOUS
<1>6. /\ DOMAIN O = 1..n /\ DOMAIN P = 1 .. n + 1 /\ P[n + 1] = ReplyOfLine(l)
      /\ \A i \in 1..n : P[i] = O[i]
  <2>1. DOMAIN O = 1..n /\ \A i \in 1..n : O[i] = ReplyOfLine(f[i])
    BY <1>3, <1>4
  <2>2. DOMAIN P = 1 .. n + 1 /\ \A i \in 1 .. n + 1 : P[i] = ReplyOfLine(g[i])
    BY <1>3, <1>5
  <2>3. n + 1 \in 1 .. n + 1 /\ \A i \in 1..n : i \in 1 .. n + 1
    OBVIOUS
  <2>4. QED BY <1>3, <2>1, <2>2, <2>3
<1>7. Yields(f) = FirstOf(O) /\ Yields(g) = FirstOf(P)
  BY <1>4, <1>5 DEF Yields
<1> DEFINE A == {i \in DOMAIN O : O[i] # None}
           B == {i \in DOMAIN P : P[i] # None}
<1>8. /\ FirstOf(O) = IF A # {} THEN O[Min(A)] ELSE None
      /\ FirstOf(P) = IF B # {} THEN P[Min(B)] ELSE None
  BY DEF FirstOf
<1>9. /\ A \in SUBSET (0..n) /\ B \in SUBSET (0 .. n + 1) /\ n + 1 \in Nat
      /\ \A i \in A : i \in 1..n /\ i \in B /\ O[i] # None
      /\ \A i \in B : i \in A \/ (i = n + 1 /\ ReplyOfLine(l) # None)
      /\ ReplyOfLine(l) # None => n + 1 \in B
  BY <1>6
<1> HIDE DEF A, B
<1>10. CASE A # {}
  <2>1. PICK a, b : a = Min(A) /\ b = Min(B)
    OBVIOUS
  <2>2. B # {} /\ a \in A /\ (\A k \in A : a <= k) /\ b \in B /\ (\A k \in B : b <= k)
    BY <1>9, <1>10, <2>1, MinMax
  <2>3. b = a
    BY <1>9, <2>2
  <2>4. a \in 1..n /\ P[a] = O[a] /\ O[a] # None
    BY <1>6, <1>9, <2>2
  <2>5. FirstOf(O) = O[a] /\ FirstOf(P) = O[a]
    BY <1>8, <1>10, <2>1, <2>2, <2>3, <2>4
  <2>6. QED BY <1>2, <1>7, <2>4, <2>5
<1>11. CASE A = {}
  <2>1. FirstOf(O) = None
    BY <1>8, <1>11
  <2>2. FirstOf(P) = ReplyOfLine(l)
    <3>1. CASE ReplyOfLine(l) = None
      <4>1. B = {}
        BY <1>9, <1>11, <3>1
      <4>2. QED BY <1>8, <3>1, <4>1
    <3>2. CASE ReplyOfLine(l) # None
      <4>1. PICK b : b = Min(B)
        OBVIOUS
      <4>2. B # {} /\ b \in B
        BY <1>9, <3>2, <4>1, MinMax
      <4>3. b = n + 1
        BY <1>9, <1>11, <4>2
      <4>4. QED BY <1>6, <1>8, <4>1, <4>2, <4>3
    <3>3. QED BY <3>1, <3>2
  <2>3. QED BY <1>2, <1>7, <2>1, <2>2
<1>12. QED BY <1>10, <1>11

LEMMA QuietAgrees ==
  ASSUME NEW T, NEW f \in Seq(T), NEW l \in T, NEW s, Agrees(f, s), ReplyOfLine(l) = None
  PROVE  Agrees(Append(f, l), s)
<1>1. Yields(Append(f, l)) = IF Yields(f) # None THEN Yields(f) ELSE None
  BY OneMoreLine
<1>2. Yields(Append(f, l)) = Yields(f)
  BY <1>1
<1>3. QED BY <1>2 DEF Agrees

LEMMA AnswerAgrees ==
  ASSUME NEW T, NEW f \in Seq(T), NEW l \in T, NEW U, NEW s \in Seq(U), NEW body \in U,
         Agrees(f, s), ReplyOfLine(l) = Some(Trim(body))
  PROVE  Agrees(Append(f, l), Append(s, body))
<1>1. Yields(Append(f, l)) = IF Yields(f) # None THEN Yields(f) ELSE Some(Trim(body))
  BY OneMoreLine
<1>2. Append(s, body) # <<>>
  BY FrontAppend
<1>3. \A x : Some(x) # None
  BY DEF Some, None
<1>4. CASE s = <<>>
  <2>1. Yields(f) = None
    BY <1>4 DEF Agrees
  <2>2. Head(Append(s, body)) = body
    BY <1>4
  <2>3. QED BY <1>1, <1>2, <2>1, <2>2 DEF Agrees
<1>5. CASE s # <<>>
  <2>1. Yields(f) = Some(Trim(Head(s)))
    BY <1>5 DEF Agrees
  <2>2. Head(Append(s, body)) = Head(s)
    <3>1. Len(s) \in Nat /\ Len(s) >= 1
      BY <1>5, LenProperties, EmptySeq
    <3>2. Append(s, body)[1] = s[1]
      BY <3>1, AppendProperties
    <3>3. QED BY <1>2, <1>5, <3>2
  <2>3. Yields(Append(f, l)) = Some(Trim(Head(s)))
    BY <1>1, <1>3, <2>1
  <2>4. QED BY <1>2, <2>2, <2>3 DEF Agrees
<1>6. QED BY <1>4, <1>5

\* A line that tells one text, which has no fence, and one that tells a reply behind it.
QuietLine(line) ==
    \E t \in Seq(Whole) : ExtractBetween(t) = None /\ line = <<"x">> \o Block(t)
AnswerLine(line, body) ==
    \E t \in Seq(Whole), pad \in Pads :
        ExtractBetween(t) = None /\ line = <<"x">> \o Block(t) \o Block(Fence(body, pad))

FileLines == Seq(Json)

LEMMA WholeCut ==
  ASSUME NEW line \in FileLines
  PROVE  SubSeq(line, 1, Len(line)) = line
<1>1. PICK n \in Nat : n = Len(line)
  BY LenProperties DEF FileLines
<1>2. PICK x : x = SubSeq(line, 1, n)
  OBVIOUS
<1>3. x \in Seq(Json) /\ Len(x) = n - 1 + 1 /\ \A i \in 1 .. n - 1 + 1 : x[i] = line[1 + i - 1]
  <2>1. 1 \in 1 .. n + 1 /\ n \in 1 - 1 .. n
    OBVIOUS
  <2>2. QED BY <1>1, <1>2, <2>1, CutOut DEF FileLines
<1>4. Len(x) = n /\ \A i \in 1..n : x[i] = line[i]
  BY <1>3
<1>5. QED BY <1>1, <1>2, <1>3, <1>4, SameItems DEF FileLines

LEMMA QuietIs ==
  ASSUME NEW line, QuietLine(line)
  PROVE  /\ line \in FileLines /\ ReplyOfLine(line) = None /\ FencedTexts(line) = {}
         /\ \A k \in 1..Len(line) :
               SubSeq(line, 1, k) \in FileLines /\ ReplyOfLine(SubSeq(line, 1, k)) = None
<1>1. PICK t \in Seq(Whole) : ExtractBetween(t) = None /\ line = <<"x">> \o Block(t)
  BY DEF QuietLine
<1>2. PICK q, a, F : q = Encode(t) /\ a = Len(q) /\ F = <<"B">>
  OBVIOUS
<1>3. F \in Seq(Whole) /\ Len(F) >= 1 /\ F[1] = "B"
  BY <1>2 DEF Whole, Characters
<1>4. PICK f, b : f = Encode(F) /\ b = Len(f)
  OBVIOUS
<1>5. b \in Nat /\ a \in Nat
  <2>1. q \in Seq(Escapes) /\ f \in Seq(Escapes)
    BY <1>2, <1>3, <1>4, EncodeSealed DEF Sealed
  <2>2. QED BY <1>2, <1>4, <2>1, LenProperties
<1>6. CutWith(line, a + 4, q, a, f, b)
  BY <1>1, <1>2, <1>5, OneTextIs
<1>7. line \in FileLines /\ Len(line) = a + 4
  BY <1>6 DEF CutWith, FileLines
<1>8. ASSUME NEW k \in 1 .. a + 4, NEW cut, CutWith(cut, k, q, a, f, b)
      PROVE  ReplyOfLine(cut) = None /\ (k = a + 4 => FencedTexts(cut) = {})
  <2>1. k < a + b + 6
    BY <1>5
  <2>2. /\ k >= a + b + 6 => /\ ReplyOfLine(cut) = ExtractBetween(F)
                             /\ ExtractBetween(F) # None => FencedTexts(cut) # {}
        /\ k < a + b + 6 => ReplyOfLine(cut) = None
        /\ k = a + 4 => FencedTexts(cut) = {}
    <3>1. t \in Seq(Whole) /\ ExtractBetween(t) = None /\ q = Encode(t) /\ a = Len(q)
      BY <1>1, <1>2
    <3>2. QED BY <1>3, <1>4, <1>8, <3>1, CutReply
  <2>3. QED BY <2>1, <2>2
<1>9. a + 4 \in 1 .. a + 4
  BY <1>5
<1>10. ReplyOfLine(line) = None /\ FencedTexts(line) = {}
  BY <1>6, <1>8, <1>9
<1>11. ASSUME NEW k \in 1..Len(line)
       PROVE  SubSeq(line, 1, k) \in FileLines /\ ReplyOfLine(SubSeq(line, 1, k)) = None
  <2>1. k \in 1 .. a + 4
    BY <1>7
  <2>2. CutWith(SubSeq(line, 1, k), k, q, a, f, b)
    BY <1>6, <2>1, CutIs
  <2>3. QED BY <1>8, <2>1, <2>2 DEF CutWith, FileLines
<1>12. QED BY <1>7, <1>10, <1>11

LEMMA FenceIsWhole ==
  ASSUME NEW body \in Replies, body \in Seq(Whole), NEW pad \in Pads
  PROVE  /\ Fence(body, pad) \in Seq(Whole) /\ Len(Fence(body, pad)) >= 1
         /\ Fence(body, pad)[1] = "B" /\ ExtractBetween(Fence(body, pad)) = Some(Trim(body))
<1>1. PICK F, p, b : F = Fence(body, pad) /\ p = Len(pad) /\ b = Len(body)
  OBVIOUS
<1>2. {"B", "E", "nl", "sp"} \subseteq Whole
  BY DEF Whole, Characters
<1>3. FenceWith(F, Whole, body, p, b)
  BY <1>1, <1>2, FenceIs
<1>4. F \in Seq(Whole) /\ Len(F) >= 1 /\ F[1] = "B"
  BY <1>3 DEF FenceWith
<1>5. PICK e : e = <<>>
  OBVIOUS
<1>6. ExtractBetween(e \o F \o e) = Some(Trim(body))
  <2>1. e \in Seq(Characters) /\ e \in Seq({"sp", "nl"})
    BY <1>5
  <2>2. ExtractBetween(e \o Fence(body, pad) \o e) = Some(Trim(body))
    BY <2>1, FenceIsRead
  <2>3. QED BY <1>1, <2>2
<1>7. e \o F \o e = F
  <2>1. <<>> \o F = F /\ F \o <<>> = F
    BY <1>4, ConcatEmptySeq
  <2>2. QED BY <1>5, <2>1
<1>8. QED BY <1>1, <1>4, <1>6, <1>7

LEMMA AnswerIs ==
  ASSUME NEW line, NEW body \in Replies, body \in Seq(Whole), AnswerLine(line, body)
  PROVE  /\ line \in FileLines /\ ReplyOfLine(line) = Some(Trim(body)) /\ FencedTexts(line) # {}
         /\ \A k \in 1..Len(line) :
               /\ SubSeq(line, 1, k) \in FileLines
               /\ ReplyOfLine(SubSeq(line, 1, k)) =
                      IF k < Len(line) - 1 THEN None ELSE Some(Trim(body))
<1>1. PICK t \in Seq(Whole), pad \in Pads :
          ExtractBetween(t) = None /\ line = <<"x">> \o Block(t) \o Block(Fence(body, pad))
  BY DEF AnswerLine
<1>2. PICK q, a, F : q = Encode(t) /\ a = Len(q) /\ F = Fence(body, pad)
  OBVIOUS
<1>3. F \in Seq(Whole) /\ Len(F) >= 1 /\ F[1] = "B" /\ ExtractBetween(F) = Some(Trim(body))
  BY <1>2, FenceIsWhole
<1>4. PICK f, b : f = Encode(F) /\ b = Len(f)
  OBVIOUS
<1>5. b \in Nat /\ a \in Nat
  <2>1. q \in Seq(Escapes) /\ f \in Seq(Escapes)
    BY <1>2, <1>3, <1>4, EncodeSealed DEF Sealed
  <2>2. QED BY <1>2, <1>4, <2>1, LenProperties
<1>6. CutWith(line, a + b + 7, q, a, f, b)
  BY <1>1, <1>2, <1>3, <1>4, TwoTextsAre
<1>7. line \in FileLines /\ Len(line) = a + b + 7
  BY <1>6 DEF CutWith, FileLines
<1>8. ExtractBetween(F) # None
  BY <1>3 DEF Some, None
<1>9. ASSUME NEW k \in 1 .. a + b + 7, NEW cut, CutWith(cut, k, q, a, f, b)
      PROVE  /\ k >= a + b + 6 => ReplyOfLine(cut) = Some(Trim(body)) /\ FencedTexts(cut) # {}
             /\ k < a + b + 6 => ReplyOfLine(cut) = None
  <2>1. /\ k >= a + b + 6 => /\ ReplyOfLine(cut) = ExtractBetween(F)
                             /\ ExtractBetween(F) # None => FencedTexts(cut) # {}
        /\ k < a + b + 6 => ReplyOfLine(cut) = None
    BY <1>1, <1>2, <1>3, <1>4, <1>9, CutReply, SMTT(30)
  <2>2. QED BY <1>3, <1>8, <2>1
<1>10. a + b + 7 \in 1 .. a + b + 7 /\ a + b + 7 >= a + b + 6
  BY <1>5
<1>11. ReplyOfLine(line) = Some(Trim(body)) /\ FencedTexts(line) # {}
  BY <1>6, <1>9, <1>10
<1>12. ASSUME NEW k \in 1..Len(line)
       PROVE  /\ SubSeq(line, 1, k) \in FileLines
              /\ ReplyOfLine(SubSeq(line, 1, k)) =
                     IF k < Len(line) - 1 THEN None ELSE Some(Trim(body))
  <2>1. k \in 1 .. a + b + 7 /\ Len(line) - 1 = a + b + 6 /\ (k < a + b + 6 \/ k >= a + b + 6)
    BY <1>5, <1>7
  <2>2. PICK cut : cut = SubSeq(line, 1, k)
    OBVIOUS
  <2>3. CutWith(cut, k, q, a, f, b)
    BY <1>6, <2>1, <2>2, CutIs
  <2>4. /\ k >= a + b + 6 => ReplyOfLine(cut) = Some(Trim(body))
        /\ k < a + b + 6 => ReplyOfLine(cut) = None
    BY <1>9, <2>1, <2>3
  <2>5. cut \in FileLines
    BY <2>3 DEF CutWith, FileLines
  <2>6. QED BY <2>1, <2>2, <2>4, <2>5
<1>13. QED BY <1>7, <1>11, <1>12

-----------------------------------------------------------------------------
(* The reply in the transcript.                                            *)

\* The texts of the code are strings of Rust: none holds half of a character. For a
\* target whose texts may, the run v_lone_surrogate refutes what follows.
WholePieces == \A piece \in Pieces : "lone" \notin ToSet(piece)

WholeReplies == {s \in Replies : s \in Seq(Whole)}

LEMMA BodyIsWhole ==
  ASSUME WholePieces
  PROVE  Body \subseteq WholeReplies
<1>1. WholeReplies \in SUBSET Seq(Characters) /\ <<>> \in WholeReplies
  BY DEF WholeReplies, Replies
<1>2. \A x, y \in WholeReplies : x \o y \in WholeReplies
  <2> TAKE x, y \in WholeReplies
  <2>1. x \in Replies /\ y \in Replies /\ x \in Seq(Whole) /\ y \in Seq(Whole)
    BY DEF WholeReplies
  <2>2. x \o y \in Replies /\ x \o y \in Seq(Whole)
    BY <2>1, RepliesJoin, Joined2
  <2>3. QED BY <2>2 DEF WholeReplies
<1>3. \A piece \in Pieces : piece \in WholeReplies
  <2> TAKE piece \in Pieces
  <2>1. piece \in Replies
    BY PieceIs
  <2>2. piece \in Seq(Characters) /\ Len(piece) \in Nat /\ DOMAIN piece = 1..Len(piece)
    BY <2>1, LenProperties DEF Replies
  <2>3. \A i \in 1..Len(piece) : piece[i] \in Characters /\ piece[i] # "lone"
    BY <2>2, ElementOfSeq DEF WholePieces, ToSet
  <2>4. piece \in [1..Len(piece) -> Whole]
    <3>1. piece = [i \in 1..Len(piece) |-> piece[i]]
      BY <2>2, LenProperties
    <3>2. \A i \in 1..Len(piece) : piece[i] \in Whole
      BY <2>3 DEF Whole
    <3>3. QED BY <3>1, <3>2
  <2>5. piece \in Seq(Whole)
    BY <2>2, <2>4, SeqDef
  <2>6. QED BY <2>1, <2>5 DEF WholeReplies
<1>4. ASSUME NEW n \in 0..MaxPieces, NEW ps \in [1..n -> Pieces] PROVE FlattenSeq(ps) \in WholeReplies
  <2>1. n \in Nat
    BY ExtractAssumption DEF ExtractAssumption
  <2>2. ps \in Seq(WholeReplies)
    <3>1. ps \in [1..n -> WholeReplies]
      BY <1>3
    <3> HIDE DEF WholeReplies
    <3>2. QED BY <2>1, <3>1, SeqDef
  <2>3. QED BY <1>1, <1>2, <2>2, FlattenIn
<1>5. QED BY <1>4 DEF Body

\* What a file whose last line is `line` owes to that line.
LastTells(front, line, replies) ==
    \/ QuietLine(line) /\ Agrees(front, replies)
    \/ replies # <<>> /\ AnswerLine(line, Last(replies)) /\ Agrees(front, Front(replies))

\* What TranscriptReply needs: as long as the target writes, the last line tells either
\* no reply or the one that was saved last, so a cut through it takes that one at most.
FileInv ==
    /\ file \in Seq(FileLines) /\ saved \in Seq(WholeReplies) /\ Agrees(file, saved)
    /\ ~torn /\ file # <<>> => LastTells(Front(file), Last(file), saved)

LEMMA FileAgrees == FileInv => TranscriptReply
BY DEF FileInv, Agrees, Yields, TranscriptReply, ReplyFromJsonl

\* A line without a reply.
LEMMA QuietStep ==
  ASSUME FileInv, NEW l, QuietLine(l), file' = Append(file, l), saved' = saved
  PROVE  FileInv'
<1>1. l \in FileLines /\ ReplyOfLine(l) = None
  BY QuietIs
<1>2. file \in Seq(FileLines) /\ Agrees(file, saved) /\ saved \in Seq(WholeReplies)
  BY DEF FileInv
<1>3. file' \in Seq(FileLines) /\ Front(file') = file /\ Last(file') = l
  BY <1>1, <1>2, FrontAppend
<1>4. Agrees(file', saved')
  BY <1>1, <1>2, QuietAgrees
<1>5. LastTells(Front(file'), Last(file'), saved')
  BY <1>2, <1>3 DEF LastTells
<1>6. QED BY <1>2, <1>3, <1>4, <1>5 DEF FileInv

\* A line with one.
LEMMA AnswerStep ==
  ASSUME FileInv, NEW l, NEW body \in WholeReplies, AnswerLine(l, body),
         file' = Append(file, l), saved' = Append(saved, body)
  PROVE  FileInv'
<1>1. l \in FileLines /\ ReplyOfLine(l) = Some(Trim(body))
  <2>1. body \in Replies /\ body \in Seq(Whole)
    BY DEF WholeReplies
  <2>2. QED BY <2>1, AnswerIs
<1>2. file \in Seq(FileLines) /\ Agrees(file, saved) /\ saved \in Seq(WholeReplies)
  BY DEF FileInv
<1>3. file' \in Seq(FileLines) /\ Front(file') = file /\ Last(file') = l
  BY <1>1, <1>2, FrontAppend
<1>4. saved' \in Seq(WholeReplies) /\ saved' # <<>> /\ Front(saved') = saved /\ Last(saved') = body
  BY <1>2, FrontAppend
<1>5. Agrees(file', saved')
  BY <1>1, <1>2, AnswerAgrees
<1>6. LastTells(Front(file'), Last(file'), saved')
  BY <1>2, <1>3, <1>4 DEF LastTells
<1>7. QED BY <1>3, <1>4, <1>5, <1>6 DEF FileInv

\* A cut through the last line.
LEMMA CutLast ==
  ASSUME NEW T, NEW s \in Seq(T), s # <<>>, NEW e \in T
  PROVE  [s EXCEPT ![Len(s)] = e] = Append(Front(s), e)
<1>1. PICK f, l : f = Front(s) /\ l = Last(s)
  OBVIOUS
<1>2. f \in Seq(T) /\ l \in T /\ s = Append(f, l)
  BY <1>1, FrontLast
<1>3. PICK k : k = Len(f)
  OBVIOUS
<1>4. PICK y : y = Append(f, e)
  OBVIOUS
<1>5. /\ k \in Nat /\ Len(s) = k + 1 /\ DOMAIN s = 1 .. k + 1 /\ \A i \in 1..k : s[i] = f[i]
      /\ y \in Seq(T) /\ Len(y) = k + 1 /\ DOMAIN y = 1 .. k + 1
      /\ y[k + 1] = e /\ \A i \in 1..k : y[i] = f[i]
  <2>1. /\ s \in Seq(T) /\ Len(s) = k + 1 /\ \A i \in 1..k : s[i] = f[i]
    BY <1>2, <1>3, AppendProperties
  <2>2. y \in Seq(T) /\ Len(y) = k + 1 /\ y[k + 1] = e /\ \A i \in 1..k : y[i] = f[i]
    BY <1>2, <1>3, <1>4, AppendProperties
  <2>3. k \in Nat
    BY <1>2, <1>3, LenProperties
  <2>4. QED BY <2>1, <2>2, <2>3, LenProperties
<1>6. PICK x : x = [s EXCEPT ![Len(s)] = e]
  OBVIOUS
<1>7. x \in Seq(T) /\ Len(x) = Len(s) /\ x[k + 1] = e /\ \A i \in 1..k : x[i] = s[i]
  <2>1. Len(s) \in 1..Len(s)
    BY <1>5
  <2>2. x \in Seq(T) /\ Len(x) = Len(s) /\ \A i \in 1..Len(s) : x[i] = IF i = Len(s) THEN e ELSE s[i]
    BY <1>6, <2>1, ExceptSeq
  <2>3. \A i \in 1..k : i \in 1..Len(s) /\ i # Len(s)
    BY <1>5
  <2>4. QED BY <1>5, <2>1, <2>2, <2>3
<1>8. \A i \in 1 .. k + 1 : x[i] = y[i]
  <2>1. \A i \in 1 .. k + 1 : i \in 1..k \/ i = k + 1
    BY <1>5
  <2>2. QED BY <1>5, <1>7, <2>1
<1>9. x = y
  BY <1>5, <1>7, <1>8, SameItems
<1>10. QED BY <1>1, <1>4, <1>6, <1>9

LEMMA TearStep ==
  ASSUME FileInv, ~torn, file # <<>>, NEW k \in 1 .. Len(Last(file)) - 1, Tear(k)
  PROVE  FileInv'
<1>1. PICK f, l : f = Front(file) /\ l = Last(file)
  OBVIOUS
<1>2. PICK c : c = SubSeq(l, 1, k)
  OBVIOUS
<1>3. /\ file \in Seq(FileLines) /\ saved \in Seq(WholeReplies) /\ LastTells(f, l, saved)
  BY <1>1 DEF FileInv
<1>4. f \in Seq(FileLines) /\ l \in FileLines
  BY <1>1, <1>3, FrontLast
<1>5. k \in 1..Len(l)
  <2>1. Len(l) \in Nat
    BY <1>4, LenProperties DEF FileLines
  <2>2. QED BY <1>1, <2>1
<1>6. /\ file' = [file EXCEPT ![Len(file)] = c] /\ torn'
      /\ saved' = IF FencedTexts(l) # {} /\ k < Len(l) - 1 THEN Front(saved) ELSE saved
  BY <1>1, <1>2 DEF Tear
<1>7. SUFFICES c \in FileLines /\ saved' \in Seq(WholeReplies) /\ Agrees(Append(f, c), saved')
  <2>1. ASSUME c \in FileLines PROVE file' = Append(f, c)
    BY <1>1, <1>3, <1>6, <2>1, CutLast
  <2>2. ASSUME c \in FileLines PROVE Append(f, c) \in Seq(FileLines)
    BY <1>4, <2>2, FrontAppend
  <2>3. QED BY <1>6, <2>1, <2>2 DEF FileInv
<1>8. CASE QuietLine(l) /\ Agrees(f, saved)
  <2>1. c \in FileLines /\ ReplyOfLine(c) = None /\ FencedTexts(l) = {}
    BY <1>2, <1>5, <1>8, QuietIs
  <2>2. saved' = saved
    BY <1>6, <2>1
  <2>3. Agrees(Append(f, c), saved)
    BY <1>4, <1>8, <2>1, QuietAgrees
  <2>4. QED BY <1>3, <2>1, <2>2, <2>3
<1>9. CASE saved # <<>> /\ AnswerLine(l, Last(saved)) /\ Agrees(f, Front(saved))
  <2>1. PICK r, b : r = Front(saved) /\ b = Last(saved)
    OBVIOUS
  <2>2. r \in Seq(WholeReplies) /\ b \in WholeReplies /\ saved = Append(r, b)
    BY <1>3, <1>9, <2>1, FrontLast
  <2>3. /\ FencedTexts(l) # {} /\ c \in FileLines
        /\ ReplyOfLine(c) = IF k < Len(l) - 1 THEN None ELSE Some(Trim(b))
    <3>1. b \in Replies /\ b \in Seq(Whole) /\ AnswerLine(l, b)
      BY <1>9, <2>1, <2>2 DEF WholeReplies
    <3>2. QED BY <1>2, <1>5, <3>1, AnswerIs
  <2>4. Agrees(f, r)
    BY <1>9, <2>1
  <2>5. CASE k < Len(l) - 1
    <3>1. saved' = r /\ ReplyOfLine(c) = None
      BY <1>6, <2>1, <2>3, <2>5
    <3>2. Agrees(Append(f, c), r)
      BY <1>4, <2>3, <2>4, <3>1, QuietAgrees
    <3>3. QED BY <2>2, <2>3, <3>1, <3>2
  <2>6. CASE ~ (k < Len(l) - 1)
    <3>1. saved' = Append(r, b) /\ ReplyOfLine(c) = Some(Trim(b))
      BY <1>6, <2>2, <2>3, <2>6
    <3>2. Agrees(Append(f, c), Append(r, b))
      BY <1>4, <2>2, <2>3, <2>4, <3>1, AnswerAgrees
    <3>3. QED BY <1>3, <2>2, <2>3, <3>1, <3>2
  <2>7. QED BY <2>5, <2>6
<1>10. QED BY <1>3, <1>8, <1>9 DEF LastTells

\* The texts that hold no reply.
LEMMA InstructionIsWhole ==
  ASSUME NEW m \in {"B", "E"}
  PROVE  Instruction(m) \in Seq(Whole) /\ ExtractBetween(Instruction(m)) = None
<1> DEFINE s == Instruction(m)
<1>1. {m, "sp", "n"} \subseteq Whole /\ {m, "sp", "n"} \subseteq ScreenTokens
  BY DEF Whole, Characters, ScreenTokens
<1>2. s \in Seq(Whole) /\ s \in Seq(ScreenTokens) /\ Len(s) = 3 /\ s[2] = "sp" /\ s[3] = "n"
  BY <1>1 DEF Instruction
<1>3. \A p \in 1..3 : s[p] \in {"B", "E"} => p = 1
  BY DEF Instruction
<1> HIDE DEF s
<1>4. \A p \in 1..Len(s) : s[p] \in {"B", "E"} => p + 2 <= Len(s) /\ s[p + 1] = "sp" /\ s[p + 2] = "n"
  <2> TAKE p \in 1..Len(s)
  <2> HAVE s[p] \in {"B", "E"}
  <2>1. p = 1 /\ Len(s) = 3
    BY <1>2, <1>3
  <2>2. 1 + 1 = 2 /\ 1 + 2 = 3
    OBVIOUS
  <2>3. QED BY <1>2, <2>1, <2>2
<1>5. s \in Chat
  BY <1>2, <1>4 DEF Chat
<1>6. QED BY <1>2, <1>5, ChatUnfenced DEF s

LEMMA NothingIsWhole == <<>> \in Seq(Whole) /\ ExtractBetween(<<>>) = None
<1>1. <<>> \in Chat
  BY DEF Chat
<1>2. QED BY <1>1, ChatUnfenced

LEMMA AbandonedIsWhole ==
  ASSUME NEW body \in WholeReplies, "E" \notin ToSet(body)
  PROVE  <<"B", "nl">> \o body \in Seq(Whole) /\ ExtractBetween(<<"B", "nl">> \o body) = None
<1>1. PICK o : o = <<"B", "nl">>
  OBVIOUS
<1>2. o \in Seq(Whole) /\ Len(o) = 2 /\ \A i \in 1..2 : o[i] # "E"
  BY <1>1 DEF Whole, Characters
<1>3. body \in Seq(Whole)
  BY DEF WholeReplies
<1>4. \A i \in 1..Len(body) : body[i] # "E"
  BY <1>3, LenProperties DEF ToSet
<1>5. PICK t : t = o \o body
  OBVIOUS
<1>6. /\ t \in Seq(Whole) /\ Len(t) = 2 + Len(body) /\ Len(body) \in Nat
      /\ \A i \in 1..2 : t[i] = o[i]
      /\ \A i \in 1..Len(body) : t[2 + i] = body[i]
  BY <1>2, <1>3, <1>5, Joined2, SMTT(30)
<1>7. ASSUME NEW i \in 1..Len(t) PROVE t[i] # "E"
  <2>1. i \in 1..2 \/ (i - 2 \in 1..Len(body) /\ 2 + (i - 2) = i)
    BY <1>6
  <2>2. CASE i \in 1..2
    BY <1>2, <1>6, <2>2
  <2>3. CASE i - 2 \in 1..Len(body) /\ 2 + (i - 2) = i
    <3>1. t[2 + (i - 2)] = body[i - 2] /\ body[i - 2] # "E"
      BY <1>4, <1>6, <2>3
    <3>2. QED BY <2>3, <3>1
  <2>4. QED BY <2>1, <2>2, <2>3
<1>8. Fences(t, "E", Len(t) + 1) = {}
  <2>1. \A p \in 1 .. Len(t) + 1 - 1 : p \in 1..Len(t)
    BY <1>6
  <2>2. QED BY <1>7, <2>1 DEF Fences
<1>9. QED BY <1>1, <1>5, <1>6, <1>8 DEF ExtractBetween

\* The transcript's invariant, for targets whose texts hold no halves of characters.
THEOREM FileInvHolds ==
  ASSUME WholePieces
  PROVE  Spec => []FileInv
<1>1. Init => FileInv
  <2> SUFFICES ASSUME Init PROVE FileInv
    OBVIOUS
  <2>1. file = <<>> /\ saved = <<>>
    BY DEF Init
  <2>2. file \in Seq(FileLines) /\ saved \in Seq(WholeReplies)
    BY <2>1
  <2>3. Yields(file) = None
    BY <2>1 DEF Yields, FirstOf
  <2>4. Agrees(file, saved)
    BY <2>1, <2>3 DEF Agrees
  <2>5. QED BY <2>1, <2>2, <2>4 DEF FileInv
<1>2. ASSUME FileInv, [Next]_vars PROVE FileInv'
  <2>0. Body \subseteq WholeReplies
    BY BodyIsWhole
  <2>1. CASE UNCHANGED fencedVars
    BY <1>2, <2>1 DEF fencedVars, FileInv
  <2>2. CASE program = "unknown" /\ ~torn /\ Fenced
    <3>1. ASSUME NEW marker \in {"B", "E"}, Mention(marker) PROVE FileInv'
      <4>1. PICK l : l = <<"x">> \o Block(Instruction(marker))
        OBVIOUS
      <4>2. QuietLine(l)
        BY <4>1, InstructionIsWhole DEF QuietLine
      <4>3. file' = Append(file, l) /\ saved' = saved
        BY <3>1, <4>1 DEF Mention
      <4>4. QED BY <1>2, <4>2, <4>3, QuietStep
    <3>2. ASSUME NEW body \in Body, NEW pad \in {<<>>, <<"sp">>}, NEW quoted \in BOOLEAN,
                 Answer(body, pad, quoted)
          PROVE  FileInv'
      <4>1. PICK quote : quote = IF quoted THEN Instruction("B") ELSE <<>>
        OBVIOUS
      <4>2. quote \in Seq(Whole) /\ ExtractBetween(quote) = None
        BY <4>1, InstructionIsWhole, NothingIsWhole
      <4>3. PICK l : l = <<"x">> \o Block(quote) \o Block(Fence(body, pad))
        OBVIOUS
      <4>4. AnswerLine(l, body)
        BY <4>2, <4>3 DEF AnswerLine, Pads
      <4>5. file' = Append(file, l) /\ saved' = Append(saved, body)
        BY <3>2, <4>1, <4>3 DEF Answer
      <4>6. QED BY <1>2, <2>0, <4>4, <4>5, AnswerStep
    <3>3. ASSUME NEW body \in Body, Abandon(body) PROVE FileInv'
      <4>1. PICK l : l = <<"x">> \o Block(<<"B", "nl">> \o body)
        OBVIOUS
      <4>2. "E" \notin ToSet(body) /\ body \in WholeReplies
        BY <2>0, <3>3 DEF Abandon
      <4>3. QuietLine(l)
        BY <4>1, <4>2, AbandonedIsWhole DEF QuietLine
      <4>4. file' = Append(file, l) /\ saved' = saved
        BY <3>3, <4>1 DEF Abandon
      <4>5. QED BY <1>2, <4>3, <4>4, QuietStep
    <3>4. ASSUME file # <<>>, NEW k \in 1 .. Len(Last(file)) - 1, Tear(k) PROVE FileInv'
      BY <1>2, <2>2, <3>4, TearStep
    <3>5. QED BY <2>2, <3>1, <3>2, <3>3, <3>4 DEF Fenced
  <2>3. CASE program # "unknown" /\ Unfenced
    <3>1. UNCHANGED fencedVars
      BY <2>3 DEF Unfenced, Draw, ScrollOff
    <3>2. QED BY <2>1, <3>1
  <2>4. CASE UNCHANGED vars
    BY <2>1, <2>4 DEF vars
  <2>5. QED BY <1>2, <2>2, <2>3, <2>4 DEF Next
<1>3. QED BY <1>1, <1>2, PTL DEF Spec

\* The transcript yields the first reply that was saved whole and nothing else, wherever
\* in its last line the file ends (`reply_from_jsonl_text`): what JSON escapes comes back
\* as it was, no quote inside a text ends it, and no cut makes a reply of half of one.
THEOREM TranscriptYieldsReply ==
  ASSUME WholePieces
  PROVE  Spec => []TranscriptReply
<1>1. Spec => []FileInv
  BY FileInvHolds
<1>2. QED BY <1>1, FileAgrees, PTL

-----------------------------------------------------------------------------
(* Lines that make a text, and back.                                       *)

Row == Seq(ScreenTokens \ {"nl"})

\* The ends of the lines of a text that ends with its last line.
LEMMA ClosedEnds ==
  ASSUME NEW T, NEW s \in Seq(T), Closed(s)
  PROVE  /\ LineEnds(s) = {i \in 1..Len(s) : s[i] = "nl"} /\ Len(s) \in Nat
         /\ s # <<>> => Len(s) \in LineEnds(s)
<1>1. Len(s) \in Nat /\ DOMAIN s = 1..Len(s)
  BY LenProperties
<1>2. ~(s # <<>> /\ Last(s) # "nl")
  BY DEF Closed, Last
<1>3. LineEnds(s) = {i \in 1..Len(s) : s[i] = "nl"}
  BY <1>1, <1>2 DEF LineEnds
<1>4. s # <<>> => Len(s) \in 1..Len(s) /\ s[Len(s)] = "nl"
  BY <1>1, EmptySeq DEF Closed
<1>5. QED BY <1>1, <1>3, <1>4

\* A line that ends in a text is the same in a longer text.
LEMMA SameLine ==
  ASSUME NEW T, NEW s \in Seq(T), NEW t \in Seq(T), Len(s) <= Len(t),
         \A i \in 1..Len(s) : t[i] = s[i],
         NEW e \in 1..Len(s), {h \in LineEnds(t) : h < e} = {h \in LineEnds(s) : h < e},
         \A h \in LineEnds(s) : h \in 1 .. Len(s) + 1
  PROVE  Line(t, e) = Line(s, e)
<1>1. Len(s) \in Nat /\ Len(t) \in Nat
  BY LenProperties
<1> DEFINE H == {0} \cup {h \in LineEnds(s) : h < e}
<1>2. H \in SUBSET (0 .. Len(s) + 1) /\ H # {} /\ Len(s) + 1 \in Nat
  BY <1>1
<1>3. \A h \in H : h < e
  OBVIOUS
<1>4. PICK b : b = Max(H)
  OBVIOUS
<1>5. Line(s, e) = SubSeq(s, b + 1, e - 1) /\ Line(t, e) = SubSeq(t, b + 1, e - 1)
  BY <1>4 DEF Line
<1> HIDE DEF H
<1>6. b \in H
  BY <1>2, <1>4, MinMax
<1>7. b \in 0 .. e - 1
  BY <1>2, <1>3, <1>6
<1>8. /\ b + 1 \in Int /\ e - 1 \in Int /\ 1 <= b + 1 /\ b + 1 - 1 <= e - 1
      /\ e - 1 <= Len(s) /\ e - 1 <= Len(t) /\ (e - 1) - (b + 1) = (e - 1) - (b + 1)
  BY <1>1, <1>7
<1>9. \A i \in b + 1 .. e - 1 : t[(b + 1) + (i - (b + 1))] = s[i]
  <2> TAKE i \in b + 1 .. e - 1
  <2>1. i \in 1..Len(s) /\ (b + 1) + (i - (b + 1)) = i
    BY <1>1, <1>7
  <2>2. QED BY <2>1
<1>10. SubSeq(t, b + 1, e - 1) = SubSeq(s, b + 1, e - 1)
  BY <1>8, <1>9, SameCut
<1>11. QED BY <1>5, <1>10

\* Behind its last line a text may have another one.
LEMMA OneLine ==
  ASSUME NEW s \in Seq(ScreenTokens), Closed(s), NEW x \in Row
  PROVE  LET t == s \o x \o <<"nl">>
         IN  /\ t \in Seq(ScreenTokens) /\ Closed(t)
             /\ LinesOf(t) = Append(LinesOf(s), x)
<1>1. PICK n, m : n = Len(s) /\ m = Len(x)
  OBVIOUS
<1>2. PICK t : t = s \o x \o <<"nl">>
  OBVIOUS
<1>3. /\ x \in Seq(ScreenTokens) /\ n \in Nat /\ m \in Nat /\ \A i \in 1..m : x[i] # "nl"
  <2>1. /\ Len(x) \in Nat /\ \A i \in 1..Len(x) : x[i] \in ScreenTokens \ {"nl"}
    BY ElementOfSeq, LenProperties DEF Row
  <2>2. x \in Seq(ScreenTokens)
    BY SeqMonotonic DEF Row
  <2>3. Len(s) \in Nat
    BY LenProperties
  <2>4. QED BY <1>1, <2>1, <2>2, <2>3
<1>4. /\ t \in Seq(ScreenTokens) /\ Len(t) = n + m + 1 /\ t[n + m + 1] = "nl"
      /\ \A i \in 1..n : t[i] = s[i]
      /\ \A i \in 1..m : t[n + i] = x[i]
  <2>1. PICK y, z : y = s \o x /\ z = <<"nl">>
    OBVIOUS
  <2>2. z \in Seq(ScreenTokens) /\ Len(z) = 1 /\ z[1] = "nl"
    BY <2>1, CharactersAre DEF ScreenTokens
  <2>3. /\ y \in Seq(ScreenTokens) /\ Len(y) = n + m
        /\ \A i \in 1..n : y[i] = s[i]
        /\ \A i \in 1..m : y[n + i] = x[i]
    BY <1>1, <1>3, <2>1, Joined2
  <2>4. /\ t \in Seq(ScreenTokens) /\ Len(t) = Len(y) + Len(z)
        /\ \A i \in 1..Len(y) : t[i] = y[i]
        /\ \A i \in 1..Len(z) : t[Len(y) + i] = z[i]
    BY <1>2, <2>1, <2>2, <2>3, Joined2
  <2>5. 1 \in 1..Len(z) /\ t[n + m + 1] = "nl"
    BY <1>3, <2>2, <2>3, <2>4
  <2>6. \A i \in 1..n : i \in 1..Len(y)
    BY <1>3, <2>3
  <2>7. \A i \in 1..m : n + i \in 1..Len(y)
    BY <1>3, <2>3
  <2>8. QED BY <1>3, <2>2, <2>3, <2>4, <2>5, <2>6, <2>7
<1>5. Closed(t)
  BY <1>4 DEF Closed
<1>6. /\ LineEnds(s) = {i \in 1..n : s[i] = "nl"} /\ (s # <<>> => n \in LineEnds(s))
      /\ LineEnds(t) = {i \in 1 .. n + m + 1 : t[i] = "nl"}
  <2>1. LineEnds(s) = {i \in 1..n : s[i] = "nl"} /\ (s # <<>> => n \in LineEnds(s))
    BY <1>1, ClosedEnds
  <2>2. LineEnds(t) = {i \in 1..Len(t) : t[i] = "nl"}
    BY <1>4, <1>5, ClosedEnds
  <2>3. QED BY <1>4, <2>1, <2>2
<1>7. /\ \A i \in 1..n : i \in LineEnds(t) <=> i \in LineEnds(s)
      /\ \A i \in n + 1 .. n + m : i \notin LineEnds(t)
      /\ n + m + 1 \in LineEnds(t) /\ n + m + 2 \notin LineEnds(t) /\ n + 1 \notin LineEnds(s)
  <2>1. \A i \in 1..n : i \in LineEnds(t) <=> i \in LineEnds(s)
    BY <1>3, <1>4, <1>6
  <2>2. ASSUME NEW i \in n + 1 .. n + m PROVE i \notin LineEnds(t)
    <3>1. i - n \in 1..m /\ n + (i - n) = i
      BY <1>3
    <3>2. t[i] = x[i - n] /\ x[i - n] # "nl"
      BY <1>3, <1>4, <3>1
    <3>3. QED BY <1>6, <3>2
  <2>3. n + m + 1 \in LineEnds(t) /\ n + m + 2 \notin LineEnds(t) /\ n + 1 \notin LineEnds(s)
    BY <1>3, <1>4, <1>6
  <2>4. QED BY <2>1, <2>2, <2>3
<1>8. ASSUME NEW e \in 1..n, e \in LineEnds(s) PROVE Line(t, e) = Line(s, e)
  <2>1. {h \in LineEnds(t) : h < e} = {h \in LineEnds(s) : h < e}
    <3>1. \A h \in LineEnds(t) : h < e => h \in 1..n
      BY <1>3, <1>6
    <3>2. \A h \in LineEnds(s) : h \in 1..n
      BY <1>6
    <3>3. QED BY <1>7, <3>1, <3>2
  <2>2. /\ Len(s) <= Len(t) /\ \A i \in 1..Len(s) : t[i] = s[i]
    BY <1>1, <1>3, <1>4
  <2>3. \A h \in LineEnds(s) : h \in 1 .. Len(s) + 1
    BY <1>1, <1>3, <1>6
  <2>4. e \in 1..Len(s)
    BY <1>1
  <2>5. QED BY <1>4, <2>1, <2>2, <2>3, <2>4, SameLine
<1>9. Line(t, n + m + 1) = x
  <2> DEFINE H == {0} \cup {h \in LineEnds(t) : h < n + m + 1}
  <2>1. H \in SUBSET (0..n) /\ H # {} /\ n \in H
    <3>1. \A h \in LineEnds(t) : h < n + m + 1 => h \in 0..n
      BY <1>3, <1>6, <1>7
    <3>2. n = 0 \/ n \in LineEnds(t)
      <4>1. s = <<>> => n = 0
        BY <1>1
      <4>2. s # <<>> => n \in 1..n
        BY <1>1, EmptySeq
      <4>3. QED BY <1>6, <1>7, <4>1, <4>2
    <3>3. n < n + m + 1
      BY <1>3
    <3>4. QED BY <3>1, <3>2, <3>3
  <2>2. Line(t, n + m + 1) = SubSeq(t, Max(H) + 1, (n + m + 1) - 1)
    BY DEF Line
  <2> HIDE DEF H
  <2>3. PICK h : h = Max(H)
    OBVIOUS
  <2>4. h = n
    <3>1. h \in H /\ \A k \in H : h >= k
      BY <1>3, <2>1, <2>3, MinMax
    <3>2. h \in 0..n /\ h >= n
      BY <2>1, <3>1
    <3>3. QED BY <1>3, <3>2
  <2>5. Line(t, n + m + 1) = SubSeq(t, n + 1, n + m)
    <3>1. (n + m + 1) - 1 = n + m
      BY <1>3
    <3>2. QED BY <2>2, <2>3, <2>4, <3>1
  <2>6. PICK y : y = SubSeq(t, n + 1, n + m)
    OBVIOUS
  <2>7. y \in Seq(ScreenTokens) /\ Len(y) = m /\ \A i \in 1..m : y[i] = x[i]
    <3>1. n + 1 \in 1 .. Len(t) + 1 /\ n + m \in (n + 1) - 1 .. Len(t)
      BY <1>3, <1>4
    <3>2. /\ y \in Seq(ScreenTokens) /\ Len(y) = (n + m) - (n + 1) + 1
          /\ \A i \in 1 .. (n + m) - (n + 1) + 1 : y[i] = t[(n + 1) + i - 1]
      BY <1>4, <2>6, <3>1, CutOut
    <3>3. (n + m) - (n + 1) + 1 = m
      BY <1>3
    <3>4. \A i \in 1..m : (n + 1) + i - 1 = n + i
      BY <1>3
    <3>5. QED BY <1>4, <3>2, <3>3, <3>4
  <2>8. y = x
    BY <1>1, <1>3, <2>7, SameItems
  <2>9. QED BY <2>5, <2>6, <2>8
<1>10. PICK V : V = {Line(s, e) : e \in LineEnds(s)} \cup {Line(t, e) : e \in LineEnds(t)}
  OBVIOUS
<1>11. PICK f \in [0 .. n + 1 -> Seq(V)] : LinesUpTo(f, s) /\ LinesOf(s) = f[n + 1]
  <2>1. \A e \in LineEnds(s) : Line(s, e) \in V
    BY <1>10
  <2>2. QED BY <1>1, <2>1, LinesAre
<1>12. PICK g \in [0 .. n + m + 2 -> Seq(V)] : LinesUpTo(g, t) /\ LinesOf(t) = g[n + m + 2]
  <2>1. \A e \in LineEnds(t) : Line(t, e) \in V
    BY <1>10
  <2>2. Len(t) + 1 = n + m + 2
    BY <1>3, <1>4
  <2>3. PICK g \in [0 .. Len(t) + 1 -> Seq(V)] : LinesUpTo(g, t) /\ LinesOf(t) = g[Len(t) + 1]
    BY <1>4, <2>1, LinesAre
  <2>4. QED BY <2>2, <2>3
<1>13. /\ f[0] = <<>> /\ \A i \in 1 .. n + 1 :
             f[i] = IF i \in LineEnds(s) THEN Append(f[i - 1], Line(s, i)) ELSE f[i - 1]
       /\ g[0] = <<>> /\ \A i \in 1 .. n + m + 2 :
             g[i] = IF i \in LineEnds(t) THEN Append(g[i - 1], Line(t, i)) ELSE g[i - 1]
  <2>1. Len(t) + 1 = n + m + 2
    BY <1>3, <1>4
  <2>2. QED BY <1>1, <1>11, <1>12, <2>1 DEF LinesUpTo
<1>14. g[n] = f[n]
  <2>1. ASSUME NEW i \in 1..n, g[i - 1] = f[i - 1] PROVE g[i] = f[i]
    <3>1. i \in 1 .. n + 1 /\ i \in 1 .. n + m + 2
      BY <1>3
    <3>2. f[i] = IF i \in LineEnds(s) THEN Append(f[i - 1], Line(s, i)) ELSE f[i - 1]
      BY <1>13, <3>1
    <3>3. g[i] = IF i \in LineEnds(t) THEN Append(g[i - 1], Line(t, i)) ELSE g[i - 1]
      BY <1>13, <3>1
    <3>4. CASE i \in LineEnds(s)
      <4>1. Line(t, i) = Line(s, i) /\ i \in LineEnds(t)
        BY <1>7, <1>8, <3>4
      <4>2. QED BY <2>1, <3>2, <3>3, <3>4, <4>1
    <3>5. CASE i \notin LineEnds(s)
      BY <1>7, <2>1, <3>2, <3>3, <3>5
    <3>6. QED BY <3>4, <3>5
  <2>2. Alike(g, f, n)
    BY <1>13, <2>1 DEF Alike
  <2>3. \A i \in 0..n : g[i] = f[i]
    <3>1. n \in Nat
      BY <1>3
    <3>2. QED BY <2>2, <3>1, SameRecursion
  <2>4. QED BY <1>3, <2>3
<1>15. g[n + m] = g[n]
  <2> DEFINE h == [i \in 0..m |-> g[n + i]]
             k == [i \in 0..m |-> g[n]]
  <2>1. h[0] = k[0]
    BY <1>3
  <2>2. ASSUME NEW i \in 1..m, h[i - 1] = k[i - 1] PROVE h[i] = k[i]
    <3>1. n + i \in 1 .. n + m + 2 /\ n + i \in n + 1 .. n + m /\ (n + i) - 1 = n + (i - 1)
          /\ i - 1 \in 0..m /\ i \in 0..m
      BY <1>3
    <3>2. g[n + i] = g[(n + i) - 1]
      BY <1>7, <1>13, <3>1
    <3>3. QED BY <2>2, <3>1, <3>2
  <2>3. Alike(h, k, m)
    BY <2>1, <2>2 DEF Alike
  <2>4. m \in 0..m
    BY <1>3
  <2>5. h[m] = k[m]
    <3> HIDE DEF h, k
    <3>1. QED BY <1>3, <2>3, <2>4, SameRecursion
  <2>6. QED BY <2>4, <2>5
<1>16. g[n + m + 1] = Append(g[n + m], x) /\ g[n + m + 2] = g[n + m + 1] /\ f[n + 1] = f[n]
  <2>1. /\ n + m + 1 \in 1 .. n + m + 2 /\ n + m + 2 \in 1 .. n + m + 2 /\ n + 1 \in 1 .. n + 1
        /\ (n + m + 1) - 1 = n + m /\ (n + m + 2) - 1 = n + m + 1 /\ (n + 1) - 1 = n
    BY <1>3
  <2>2. g[n + m + 1] = Append(g[(n + m + 1) - 1], Line(t, n + m + 1))
    BY <1>7, <1>13, <2>1
  <2>3. g[n + m + 2] = g[(n + m + 2) - 1]
    BY <1>7, <1>13, <2>1
  <2>4. f[n + 1] = f[(n + 1) - 1]
    BY <1>7, <1>13, <2>1
  <2>5. QED BY <1>9, <2>1, <2>2, <2>3, <2>4
<1>17. LinesOf(t) = Append(LinesOf(s), x)
  BY <1>11, <1>12, <1>14, <1>15, <1>16
<1>18. QED BY <1>2, <1>4, <1>5, <1>17

\* Lines joined behind a text are its further lines.
LEMMA JoinedLines ==
  ASSUME NEW s \in Seq(ScreenTokens), Closed(s), LinesOf(s) \in Seq(Row), NEW L \in Seq(Row)
  PROVE  LET t == s \o Join(L \o << <<>> >>)
         IN  /\ t \in Seq(ScreenTokens) /\ Closed(t)
             /\ LinesOf(t) = LinesOf(s) \o L
<1>1. PICK V, n, x : V = Seq(ScreenTokens) /\ n = Len(L) /\ x = L \o << <<>> >>
  OBVIOUS
<1>2. /\ n \in Nat /\ \A i \in 1..n : L[i] \in Row
      /\ <<>> \in V /\ <<"nl">> \in V /\ Row \subseteq V
      /\ \A y, z \in V : y \o z \in V
  <2>1. n \in Nat /\ \A i \in 1..n : L[i] \in Row
    BY <1>1, LenProperties, ElementOfSeq
  <2>2. "nl" \in ScreenTokens
    BY CharactersAre DEF ScreenTokens
  <2>3. <<>> \in V /\ <<"nl">> \in V
    BY <1>1, <2>2
  <2>4. Row \subseteq V
    BY <1>1, SeqMonotonic DEF Row
  <2>5. \A y, z \in V : y \o z \in V
    BY <1>1, ConcatProperties
  <2>6. QED BY <2>1, <2>3, <2>4, <2>5
<1>3. x \in Seq(V) /\ Len(x) = n + 1 /\ DOMAIN x = 1 .. n + 1
      /\ (\A i \in 1..n : x[i] = L[i]) /\ x[n + 1] = <<>>
  <2>1. PICK z : z = << <<>> >>
    OBVIOUS
  <2>2. z \in Seq(V) /\ Len(z) = 1 /\ z[1] = <<>>
    BY <1>2, <2>1
  <2>3. L \in Seq(V)
    BY <1>2, SeqMonotonic
  <2>4. /\ x \in Seq(V) /\ Len(x) = Len(L) + Len(z)
        /\ \A i \in 1..Len(L) : x[i] = L[i]
        /\ \A i \in 1..Len(z) : x[Len(L) + i] = z[i]
    BY <1>1, <2>1, <2>2, <2>3, Joined2
  <2>5. 1 \in 1..Len(z)
    BY <2>2
  <2>6. DOMAIN x = 1..Len(x)
    BY <2>4, LenProperties
  <2>7. QED BY <1>1, <1>2, <2>2, <2>4, <2>5, <2>6
<1> DEFINE ss == [i \in DOMAIN x |-> IF i = 1 THEN x[i] ELSE <<"nl">> \o x[i]]
<1>4. Join(x) = FlattenSeq(ss)
  BY DEF Join
<1>5. ss \in Seq(V) /\ Len(ss) = n + 1
  <2>1. \A i \in 1 .. n + 1 : x[i] \in V
    BY <1>3, ElementOfSeq
  <2>2. ss \in [1 .. n + 1 -> V]
    BY <1>2, <1>3, <2>1
  <2>3. n + 1 \in Nat
    BY <1>2
  <2> HIDE DEF ss
  <2>4. ss \in Seq(V)
    BY <2>2, <2>3, SeqDef
  <2>5. QED BY <2>2, <2>3, <2>4, LenProperties
<1>6. ss[1] = x[1] /\ \A i \in 2 .. n + 1 : ss[i] = <<"nl">> \o x[i]
  BY <1>2, <1>3
<1> HIDE DEF ss
<1>7. PICK f \in [0 .. n + 1 -> V] : /\ f[0] = <<>> /\ \A i \in 1 .. n + 1 : f[i] = f[i - 1] \o ss[i]
                                     /\ FlattenSeq(ss) = f[n + 1]
  <2>1. \E f \in [0..Len(ss) -> V] : /\ f[0] = <<>> /\ \A i \in 1..Len(ss) : f[i] = f[i - 1] \o ss[i]
                                     /\ FlattenSeq(ss) = f[Len(ss)]
    BY <1>1, <1>5, Flattened
  <2>2. QED BY <1>5, <2>1
<1>8. \A y \in V : <<>> \o y = y /\ y \o <<>> = y
  BY <1>1, ConcatEmptySeq
<1>9. \A y, z, w \in V : (y \o z) \o w = y \o (z \o w)
  <2> TAKE y, z, w \in V
  <2>1. y \in Seq(ScreenTokens) /\ z \in Seq(ScreenTokens) /\ w \in Seq(ScreenTokens)
    BY <1>1
  <2>2. QED BY <2>1, ConcatAssociative, SMTT(30)
<1> DEFINE g == [i \in 0..n |-> IF i = 0 THEN <<>> ELSE f[i] \o <<"nl">>]
<1>10. g \in [0..n -> V] /\ g[0] = <<>> /\ \A i \in 1..n : g[i] = f[i] \o <<"nl">>
  BY <1>2, <1>7
<1> HIDE DEF g
<1>11. ASSUME NEW i \in 1..n PROVE g[i] = (g[i - 1] \o L[i]) \o <<"nl">>
  <2>1. i \in 1 .. n + 1 /\ i \in 0 .. n + 1 /\ x[i] = L[i] /\ L[i] \in V
    BY <1>2, <1>3
  <2>2. g[i] = f[i] \o <<"nl">> /\ f[i] = f[i - 1] \o ss[i]
    BY <1>7, <1>10, <2>1
  <2>3. CASE i = 1
    <3>1. f[i] = <<>> \o L[i] /\ g[i - 1] = <<>>
      <4>1. i - 1 = 0
        BY <2>3
      <4>2. ss[1] = L[1]
        BY <1>6, <2>1, <2>3
      <4>3. QED BY <1>7, <1>10, <2>2, <2>3, <4>1, <4>2
    <3>2. <<>> \o L[i] = L[i]
      BY <1>8, <2>1
    <3>3. QED BY <2>2, <3>1, <3>2
  <2>4. CASE i # 1
    <3>1. i \in 2 .. n + 1 /\ i - 1 \in 1..n /\ i - 1 \in 0 .. n + 1
      BY <1>2, <2>4
    <3>2. ss[i] = <<"nl">> \o L[i] /\ g[i - 1] = f[i - 1] \o <<"nl">> /\ f[i - 1] \in V
      BY <1>6, <1>7, <1>10, <2>1, <3>1
    <3>3. f[i - 1] \o (<<"nl">> \o L[i]) = (f[i - 1] \o <<"nl">>) \o L[i]
      BY <1>2, <1>9, <2>1, <3>2
    <3>4. QED BY <2>2, <3>2, <3>3
  <2>5. QED BY <2>3, <2>4
<1>12. Join(x) = g[n]
  <2>1. n + 1 \in 1 .. n + 1 /\ (n + 1) - 1 = n /\ n \in 0 .. n + 1
    BY <1>2
  <2>2. Join(x) = f[n] \o ss[n + 1]
    BY <1>4, <1>7, <2>1
  <2>3. CASE n = 0
    BY <1>2, <1>3, <1>6, <1>7, <1>8, <1>10, <2>2, <2>3
  <2>4. CASE n # 0
    <3>1. n + 1 \in 2 .. n + 1 /\ n \in 1..n
      BY <1>2, <2>4
    <3>2. ss[n + 1] = <<"nl">>
      BY <1>2, <1>3, <1>6, <1>8, <3>1
    <3>3. QED BY <1>10, <2>2, <3>1, <3>2
  <2>5. QED BY <2>3, <2>4
<1>13. PICK K : K = LinesOf(s)
  OBVIOUS
<1> DEFINE P(i) == /\ s \o g[i] \in V /\ Closed(s \o g[i])
                   /\ LinesOf(s \o g[i]) = K \o SubSeq(L, 1, i)
<1>14. P(0)
  <2>1. s \o g[0] = s
    BY <1>1, <1>8, <1>10
  <2>2. SubSeq(L, 1, 0) = <<>>
    BY SubSeqEmpty
  <2>3. K \o <<>> = K
    BY <1>13, ConcatEmptySeq
  <2>4. QED BY <1>1, <1>13, <2>1, <2>2, <2>3
<1>15. ASSUME NEW i \in 1..n, P(i - 1) PROVE P(i)
  <2>1. PICK u : u = s \o g[i - 1]
    OBVIOUS
  <2>2. u \in Seq(ScreenTokens) /\ Closed(u) /\ L[i] \in Row /\ LinesOf(u) = K \o SubSeq(L, 1, i - 1)
    BY <1>1, <1>2, <1>15, <2>1
  <2>3. /\ (u \o L[i]) \o <<"nl">> \in Seq(ScreenTokens) /\ Closed((u \o L[i]) \o <<"nl">>)
        /\ LinesOf((u \o L[i]) \o <<"nl">>) = Append(LinesOf(u), L[i])
    BY <2>2, OneLine
  <2>4. (u \o L[i]) \o <<"nl">> = s \o g[i]
    <3>1. i - 1 \in 0..n
      BY <1>2
    <3>2. s \in V /\ g[i - 1] \in V /\ L[i] \in V /\ <<"nl">> \in V /\ g[i - 1] \o L[i] \in V
      BY <1>1, <1>2, <1>10, <3>1
    <3>3. (u \o L[i]) \o <<"nl">> = (s \o (g[i - 1] \o L[i])) \o <<"nl">>
      BY <1>9, <2>1, <3>2
    <3>4. (s \o (g[i - 1] \o L[i])) \o <<"nl">> = s \o ((g[i - 1] \o L[i]) \o <<"nl">>)
      BY <1>9, <3>2
    <3>5. QED BY <1>11, <3>3, <3>4
  <2>5. Append(K \o SubSeq(L, 1, i - 1), L[i]) = K \o SubSeq(L, 1, i)
    <3>1. i - 1 \in Nat /\ (i - 1) + 1 <= Len(L) /\ (i - 1) + 1 = i
      BY <1>1, <1>2
    <3>2. PICK A, B : A = SubSeq(L, 1, i - 1) /\ B = SubSeq(L, 1, i)
      OBVIOUS
    <3>3. A \in Seq(Row) /\ L[i] \in Row /\ Append(A, L[i]) = B
      BY <3>1, <3>2, OneMore
    <3>4. PICK e : e = L[i]
      OBVIOUS
    <3>5. Append(A, e) = A \o <<e>> /\ <<e>> \in Seq(Row) /\ K \in Seq(Row) /\ K \o A \in Seq(Row)
      BY <1>13, <3>3, <3>4, AppendIsConcat, ConcatProperties
    <3>6. Append(K \o A, e) = (K \o A) \o <<e>>
      BY <3>3, <3>4, <3>5, AppendIsConcat
    <3>7. (K \o A) \o <<e>> = K \o (A \o <<e>>)
      BY <3>3, <3>5, ConcatAssociative, SMTT(30)
    <3>8. QED BY <3>2, <3>3, <3>4, <3>5, <3>6, <3>7
  <2>6. QED BY <1>1, <2>2, <2>3, <2>4, <2>5
<1>16. \A i \in 0..n : P(i)
  <2> DEFINE S == {i \in 0..n : ~P(i)}
  <2> HIDE DEF P
  <2>1. SUFFICES ASSUME S # {} PROVE FALSE
    OBVIOUS
  <2>2. PICK k \in S : \A i \in S : k <= i
    BY <1>2, <2>1, Least
  <2>3. k # 0
    BY <1>14, <2>2
  <2>4. k \in 1..n /\ k - 1 \in 0..n /\ k - 1 < k
    BY <1>2, <2>2, <2>3
  <2>5. k - 1 \notin S
    BY <2>2, <2>4
  <2>6. P(k - 1)
    BY <2>4, <2>5
  <2>7. P(k)
    BY <1>15, <2>4, <2>6
  <2>8. QED BY <2>2, <2>7
<1>17. SubSeq(L, 1, n) = L
  BY <1>1, SubSeqFull
<1>18. QED
  <2>1. P(n)
    BY <1>2, <1>16
  <2>2. QED BY <1>1, <1>12, <1>13, <1>17, <2>1

\* A line is blank when all of it is; where it starts and what it is trimmed to are its own.
LEMMA BlankIs ==
  ASSUME NEW T, NEW x \in Seq(T)
  PROVE  /\ Blank(x) <=> \A i \in 1..Len(x) : x[i] \in Blanks
         /\ Starts(x) \subseteq ToSet(x)
         /\ \A c : Trim(x) = <<c>> => c \in ToSet(x)
<1> DEFINE K == {i \in DOMAIN x : x[i] \notin Blanks}
<1>1. Len(x) \in Nat /\ DOMAIN x = 1..Len(x)
  BY LenProperties
<1>2. Trim(x) = IF K = {} THEN <<>> ELSE SubSeq(x, Min(K), Max(K))
  BY DEF Trim
<1>3. K = {} <=> \A i \in 1..Len(x) : x[i] \in Blanks
  BY <1>1
<1>4. K # {} => \E i \in 1..Len(x) : Trim(x)[1] = x[i] /\ Trim(x) # <<>>
  <2> SUFFICES ASSUME K # {} PROVE \E i \in 1..Len(x) : Trim(x)[1] = x[i] /\ Trim(x) # <<>>
    OBVIOUS
  <2>1. K \in SUBSET (0..Len(x)) /\ \A i \in K : i \in 1..Len(x)
    BY <1>1
  <2> HIDE DEF K
  <2>2. PICK a, b : a = Min(K) /\ b = Max(K)
    OBVIOUS
  <2>3. a \in K /\ b \in K /\ a <= b
    BY <1>1, <2>1, <2>2, MinMax
  <2>4. a \in 1..Len(x) /\ a \in 1 .. Len(x) + 1 /\ b \in a - 1 .. Len(x) /\ 1 \in 1 .. b - a + 1
        /\ a + 1 - 1 = a /\ b - a + 1 # 0
    BY <1>1, <2>1, <2>3
  <2>5. PICK t : t = SubSeq(x, a, b)
    OBVIOUS
  <2>6. Len(t) = b - a + 1 /\ t[1] = x[a]
    BY <2>4, <2>5, CutOut
  <2>7. t # <<>>
    BY <2>4, <2>6
  <2>8. QED BY <1>2, <2>2, <2>4, <2>5, <2>6, <2>7
<1>5. Blank(x) <=> K = {}
  BY <1>2, <1>4 DEF Blank
<1>6. K # {} => Trim(x)[1] \in ToSet(x)
  BY <1>1, <1>4 DEF ToSet
<1> HIDE DEF K
<1>7. Starts(x) \subseteq ToSet(x)
  BY <1>5, <1>6 DEF Starts
<1>8. ASSUME NEW c, Trim(x) = <<c>> PROVE c \in ToSet(x)
  <2>1. K # {}
    BY <1>2, <1>8
  <2>2. QED BY <1>6, <1>8, <2>1
<1>9. QED BY <1>3, <1>5, <1>7, <1>8

\* The indent of a line: its spaces up to the first other character.
LEMMA IndentOf ==
  ASSUME NEW T, NEW x \in Seq(T)
  PROVE  /\ Indent(x) \in 0..Len(x) /\ \A i \in 1..Indent(x) : x[i] = "sp"
         /\ \A n \in 0..Len(x) : (\A i \in 1..n : x[i] = "sp") => n <= Indent(x)
<1> DEFINE N == {n \in 0..Len(x) : \A i \in 1..n : x[i] = "sp"}
<1>1. Len(x) \in Nat
  BY LenProperties
<1>2. 0 \in N /\ N \in SUBSET (0..Len(x))
  BY <1>1
<1>3. Indent(x) = Max(N)
  BY DEF Indent
<1>4. Max(N) \in N /\ \A n \in N : Max(N) >= n
  <2> HIDE DEF N
  <2>1. QED BY <1>1, <1>2, MinMax
<1>5. PICK k : k = Indent(x)
  OBVIOUS
<1>6. k \in N /\ \A n \in N : n <= k
  <2>1. k = Max(N)
    BY <1>3, <1>5
  <2> HIDE DEF N
  <2>2. k \in N /\ \A n \in N : k >= n
    BY <1>4, <2>1
  <2>3. \A n \in N : n \in Int /\ k \in Int
    BY <1>2, <2>2
  <2>4. QED BY <2>2, <2>3
<1>7. QED BY <1>5, <1>6

LEMMA IndentIs ==
  ASSUME NEW T, NEW x \in Seq(T), NEW n \in 0..Len(x), \A i \in 1..n : x[i] = "sp",
         n < Len(x) => x[n + 1] # "sp"
  PROVE  Indent(x) = n
<1>1. Len(x) \in Nat
  BY LenProperties
<1>2. PICK k : k = Indent(x)
  OBVIOUS
<1>3. k \in 0..Len(x) /\ (\A i \in 1..k : x[i] = "sp") /\ n <= k
  BY <1>2, IndentOf
<1>4. ~ (n < k)
  <2>1. SUFFICES ASSUME n < k PROVE FALSE
    OBVIOUS
  <2>2. n + 1 \in 1..k /\ n < Len(x)
    BY <1>1, <1>3, <2>1
  <2>3. QED BY <1>3, <2>2
<1>5. QED BY <1>1, <1>2, <1>3, <1>4

\* A line without its indent.
LEMMA DedentWhole ==
  ASSUME NEW T, NEW x \in Seq(T)
  PROVE  /\ Dedent(x, Len(x)) = SubSeq(x, Indent(x) + 1, Len(x))
         /\ Dedent(x, Len(x)) \in Seq(T)
         /\ \A t : t = Dedent(x, Len(x)) /\ Len(t) >= 1 => t[1] \in ToSet(x)
<1>1. PICK k, n : k = Indent(x) /\ n = Len(x)
  OBVIOUS
<1>2. k \in 0..n /\ n \in Nat /\ DOMAIN x = 1..n
  BY <1>1, IndentOf, LenProperties
<1>3. (IF k < n THEN k ELSE n) = k
  BY <1>2
<1>4. PICK t : t = Dedent(x, Len(x))
  OBVIOUS
<1>5. t = SubSeq(x, k + 1, n)
  BY <1>1, <1>3, <1>4 DEF Dedent
<1>6. k + 1 \in 1 .. Len(x) + 1 /\ n \in (k + 1) - 1 .. Len(x)
  BY <1>1, <1>2
<1>7. /\ t \in Seq(T) /\ Len(t) = n - (k + 1) + 1
      /\ \A i \in 1 .. n - (k + 1) + 1 : t[i] = x[(k + 1) + i - 1]
  BY <1>5, <1>6, CutOut
<1>8. ASSUME Len(t) >= 1 PROVE t[1] \in ToSet(x)
  <2>1. 1 \in 1 .. n - (k + 1) + 1 /\ (k + 1) + 1 - 1 \in DOMAIN x
    BY <1>2, <1>7, <1>8
  <2>2. QED BY <1>7, <2>1 DEF ToSet
<1>9. QED BY <1>1, <1>4, <1>5, <1>7, <1>8

\* A line that the CLI indents by two spaces.
Indented(x) == IF x = <<>> THEN <<>> ELSE <<"sp", "sp">> \o x

LEMMA Shifted ==
  ASSUME NEW T, "sp" \in T, NEW x \in Seq(T)
  PROVE  LET y == <<"sp", "sp">> \o x
         IN  /\ y \in Seq(T) /\ Len(y) = Len(x) + 2 /\ Indent(y) = Indent(x) + 2
             /\ Dedent(y, 2) = x /\ Dedent(y, Len(y)) = Dedent(x, Len(x))
             /\ Blank(y) <=> Blank(x)
             /\ ToSet(y) \subseteq ToSet(x) \cup {"sp"}
<1>1. PICK y, z : z = <<"sp", "sp">> /\ y = z \o x
  OBVIOUS
<1>2. z \in Seq(T) /\ Len(z) = 2 /\ z[1] = "sp" /\ z[2] = "sp"
  BY <1>1
<1>3. /\ y \in Seq(T) /\ Len(y) = Len(z) + Len(x) /\ Len(x) \in Nat
      /\ \A i \in 1..Len(z) : y[i] = z[i]
      /\ \A i \in 1..Len(x) : y[Len(z) + i] = x[i]
  BY <1>1, <1>2, Joined2
<1>4. PICK n, k : n = Len(x) /\ k = Indent(x)
  OBVIOUS
<1>5. /\ n \in Nat /\ Len(y) = n + 2 /\ y[1] = "sp" /\ y[2] = "sp"
      /\ \A i \in 1..n : y[2 + i] = x[i]
  BY <1>2, <1>3, <1>4
<1>6. /\ k \in 0..n /\ (\A i \in 1..k : x[i] = "sp")
      /\ \A h \in 0..n : (\A i \in 1..h : x[i] = "sp") => h <= k
  BY <1>4, IndentOf
<1>7. Indent(y) = k + 2
  <2>1. k + 2 \in 0..Len(y)
    BY <1>5, <1>6
  <2>2. ASSUME NEW i \in 1 .. k + 2 PROVE y[i] = "sp"
    <3>1. i = 1 \/ i = 2 \/ (i - 2 \in 1..k /\ i - 2 \in 1..n /\ 2 + (i - 2) = i)
      BY <1>5, <1>6
    <3>2. QED BY <1>5, <1>6, <3>1
  <2>3. ASSUME k + 2 < Len(y) PROVE y[(k + 2) + 1] # "sp"
    <3>1. k + 1 \in 1..n /\ k + 1 \in 0..n /\ ~ (k + 1 <= k) /\ 2 + (k + 1) = (k + 2) + 1
      BY <1>5, <1>6, <2>3
    <3>2. \E i \in 1 .. k + 1 : x[i] # "sp"
      BY <1>6, <3>1
    <3>3. \A i \in 1 .. k + 1 : i \in 1..k \/ i = k + 1
      BY <1>6
    <3>4. x[k + 1] # "sp"
      BY <1>6, <3>2, <3>3
    <3>5. QED BY <1>5, <3>1, <3>4
  <2>4. QED BY <1>3, <2>1, <2>2, <2>3, IndentIs
<1>8. SubSeq(y, 3, n + 2) = x
  <2>1. 3 \in 1 .. Len(y) + 1 /\ n + 2 \in 3 - 1 .. Len(y)
    BY <1>5
  <2>2. PICK u : u = SubSeq(y, 3, n + 2)
    OBVIOUS
  <2>3. /\ u \in Seq(T) /\ Len(u) = (n + 2) - 3 + 1
        /\ \A i \in 1 .. (n + 2) - 3 + 1 : u[i] = y[3 + i - 1]
    BY <1>3, <2>1, <2>2, CutOut
  <2>4. Len(u) = n /\ \A i \in 1..n : i \in 1 .. (n + 2) - 3 + 1 /\ 3 + i - 1 = 2 + i
    BY <1>5, <2>3
  <2>5. \A i \in 1..n : u[i] = x[i]
    BY <1>5, <2>3, <2>4
  <2>6. QED BY <1>4, <2>2, <2>3, <2>4, <2>5, SameItems
<1>9. Dedent(y, 2) = x
  <2>1. (IF k + 2 < 2 THEN k + 2 ELSE 2) + 1 = 3
    BY <1>6
  <2>2. QED BY <1>5, <1>7, <1>8, <2>1 DEF Dedent
<1>10. Dedent(y, Len(y)) = Dedent(x, Len(x))
  <2>1. PICK a, c, d : a = k + 1 /\ c = (k + 2) + 1 /\ d = n + 2
    OBVIOUS
  <2>2. Dedent(y, Len(y)) = SubSeq(y, c, d)
    BY <1>3, <1>5, <1>7, <2>1, DedentWhole
  <2>3. Dedent(x, Len(x)) = SubSeq(x, a, n)
    BY <1>4, <2>1, DedentWhole
  <2>4. /\ a \in Int /\ n \in Int /\ c \in Int /\ d \in Int
        /\ 1 <= a /\ a - 1 <= n /\ n <= Len(x) /\ 1 <= c /\ d <= Len(y)
        /\ d - c = n - a
    BY <1>4, <1>5, <1>6, <2>1
  <2>5. \A i \in a..n : y[c + (i - a)] = x[i]
    <3>1. \A i \in a..n : i \in 1..n /\ c + (i - a) = 2 + i
      BY <1>5, <1>6, <2>1
    <3>2. QED BY <1>5, <3>1
  <2>6. SubSeq(y, c, d) = SubSeq(x, a, n)
    <3>1. x \in Seq(T) /\ y \in Seq(T)
      BY <1>3
    <3>2. QED BY <2>4, <2>5, <3>1, SameCut
  <2>7. QED BY <2>2, <2>3, <2>6
<1>11. \A i \in 1..Len(y) : i = 1 \/ i = 2 \/ \E j \in 1..n : i = 2 + j
  <2> TAKE i \in 1..Len(y)
  <2>1. i = 1 \/ i = 2 \/ (i - 2 \in 1..n /\ i = 2 + (i - 2))
    BY <1>5
  <2>2. QED BY <2>1
<1>12. Blank(y) <=> Blank(x)
  <2>1. Blank(y) <=> \A i \in 1..Len(y) : y[i] \in Blanks
    BY <1>3, BlankIs
  <2>2. Blank(x) <=> \A i \in 1..n : x[i] \in Blanks
    BY <1>4, BlankIs
  <2>3. "sp" \in Blanks
    BY DEF Blanks
  <2>4. \A i \in 1..n : 2 + i \in 1..Len(y)
    BY <1>5
  <2>5. QED BY <1>5, <1>11, <2>1, <2>2, <2>3, <2>4
<1>13. ToSet(y) \subseteq ToSet(x) \cup {"sp"}
  <2>1. DOMAIN y = 1..Len(y) /\ DOMAIN x = 1..n
    BY <1>3, <1>4, LenProperties
  <2>2. ASSUME NEW i \in 1..Len(y) PROVE y[i] \in ToSet(x) \cup {"sp"}
    <3>1. CASE \E j \in 1..n : i = 2 + j
      <4>1. PICK j \in 1..n : i = 2 + j
        BY <3>1
      <4>2. y[i] = x[j] /\ x[j] \in ToSet(x)
        BY <1>5, <2>1, <4>1 DEF ToSet
      <4>3. QED BY <4>2
    <3>2. CASE i = 1 \/ i = 2
      BY <1>5, <3>2
    <3>3. QED BY <1>11, <3>1, <3>2
  <2>3. ToSet(y) = {y[i] : i \in 1..Len(y)}
    BY <2>1 DEF ToSet
  <2>4. QED BY <2>2, <2>3
<1>14. QED BY <1>1, <1>3, <1>4, <1>5, <1>7, <1>9, <1>10, <1>12, <1>13

\* A line that begins with a bullet and a space.
IsBullet(x) == LET t == Dedent(x, Len(x)) IN t = <<"dot">> \/ IsPrefix(<<"dot", "sp">>, t)

LEMMA BulletsAre ==
  ASSUME NEW T, NEW lines \in Seq(T)
  PROVE  /\ Bullets(lines) = {i \in 1..Len(lines) : IsBullet(lines[i])}
         /\ Bullets(lines) \in SUBSET (0..Len(lines)) /\ Len(lines) \in Nat
<1>1. Len(lines) \in Nat /\ DOMAIN lines = 1..Len(lines)
  BY LenProperties
<1>2. Bullets(lines) = {i \in DOMAIN lines : IsBullet(lines[i])}
  BY DEF Bullets, IsBullet
<1>3. QED BY <1>1, <1>2

LEMMA BulletHasDot ==
  ASSUME NEW T, NEW x \in Seq(T), IsBullet(x)
  PROVE  "dot" \in ToSet(x)
<1>1. PICK t : t = Dedent(x, Len(x))
  OBVIOUS
<1>2. t \in Seq(T) /\ (Len(t) >= 1 => t[1] \in ToSet(x)) /\ Len(t) \in Nat
  BY <1>1, DedentWhole, LenProperties
<1>3. t = <<"dot">> \/ IsPrefix(<<"dot", "sp">>, t)
  BY <1>1 DEF IsBullet
<1>4. CASE t = <<"dot">>
  <2>1. Len(t) = 1 /\ t[1] = "dot"
    BY <1>4
  <2>2. QED BY <1>2, <2>1
<1>5. CASE IsPrefix(<<"dot", "sp">>, t)
  <2>1. PICK d : d = <<"dot", "sp">>
    OBVIOUS
  <2>2. Len(d) = 2 /\ d[1] = "dot" /\ d \in Seq({"dot", "sp"})
    BY <2>1
  <2>3. Len(d) <= Len(t) /\ SubSeq(d, 1, Len(d)) = SubSeq(t, 1, Len(d))
    BY <1>5, <2>1 DEF IsPrefix
  <2>4. SubSeq(d, 1, 2)[1] = d[1]
    <3>1. 1 \in 1 .. Len(d) + 1 /\ 2 \in 1 - 1 .. Len(d) /\ 1 \in 1 .. 2 - 1 + 1 /\ 1 + 1 - 1 = 1
      BY <2>2
    <3>2. \A i \in 1 .. 2 - 1 + 1 : SubSeq(d, 1, 2)[i] = d[1 + i - 1]
      BY <2>2, <3>1, CutOut
    <3>3. QED BY <3>1, <3>2
  <2>5. SubSeq(t, 1, 2)[1] = t[1]
    <3>1. 1 \in 1 .. Len(t) + 1 /\ 2 \in 1 - 1 .. Len(t) /\ 1 \in 1 .. 2 - 1 + 1 /\ 1 + 1 - 1 = 1
      BY <1>2, <2>2, <2>3
    <3>2. \A i \in 1 .. 2 - 1 + 1 : SubSeq(t, 1, 2)[i] = t[1 + i - 1]
      BY <1>2, <3>1, CutOut
    <3>3. QED BY <3>1, <3>2
  <2>6. QED BY <1>2, <2>2, <2>3, <2>4, <2>5
<1>6. QED BY <1>3, <1>4, <1>5

\* The first line of an answer, behind its bullet.
LEMMA HeadIs ==
  ASSUME NEW c, c # "sp"
  PROVE  LET y == <<"dot", "sp">> \o <<c>>
         IN  IsBullet(y) /\ BulletText(y) = <<c>>
<1>1. PICK y, T : y = <<"dot", "sp", c>> /\ T = {"dot", "sp", c}
  OBVIOUS
<1>2. y = <<"dot", "sp">> \o <<c>>
  BY <1>1
<1>3. y \in Seq(T) /\ Len(y) = 3 /\ y[1] = "dot" /\ y[2] = "sp" /\ y[3] = c
  BY <1>1
<1>4. Indent(y) = 0
  <2>1. 0 \in 0..Len(y) /\ (\A i \in 1..0 : y[i] = "sp") /\ y[0 + 1] # "sp"
    BY <1>3
  <2>2. QED BY <1>3, <2>1, IndentIs
<1>5. Dedent(y, Len(y)) = y
  <2>1. Dedent(y, Len(y)) = SubSeq(y, 0 + 1, Len(y))
    BY <1>3, <1>4, DedentWhole
  <2>2. SubSeq(y, 0 + 1, Len(y)) = y
    BY <1>3, SubSeqFull
  <2>3. QED BY <2>1, <2>2
<1>6. IsBullet(y)
  <2>1. SubSeq(<<"dot", "sp">>, 1, 2) = SubSeq(y, 1, 2) /\ Len(<<"dot", "sp">>) = 2
    BY <1>1
  <2>2. IsPrefix(<<"dot", "sp">>, y)
    BY <1>3, <2>1 DEF IsPrefix
  <2>3. QED BY <1>5, <2>2 DEF IsBullet
<1>7. PICK t : t = <<"sp", c>>
  OBVIOUS
<1>8. Tail(y) = t
  BY <1>1, <1>7
<1>9. t \in Seq(T) /\ Len(t) = 2 /\ t[1] = "sp" /\ t[2] = c
  BY <1>1, <1>7
<1>10. Indent(t) = 1
  <2>1. 1 \in 0..Len(t) /\ (\A i \in 1..1 : t[i] = "sp") /\ t[1 + 1] # "sp"
    BY <1>9
  <2>2. QED BY <1>9, <2>1, IndentIs
<1>11. Dedent(t, Len(t)) = <<c>>
  <2>1. Dedent(t, Len(t)) = SubSeq(t, 1 + 1, Len(t))
    BY <1>9, <1>10, DedentWhole
  <2>2. SubSeq(t, 2, 2) = <<c>>
    <3>1. 2 \in 1 .. Len(t) + 1 /\ 2 \in 2 - 1 .. Len(t) /\ 2 - 2 + 1 = 1 /\ 2 + 1 - 1 = 2
      BY <1>9
    <3>2. PICK u : u = SubSeq(t, 2, 2)
      OBVIOUS
    <3>3. u \in Seq(T) /\ Len(u) = 1 /\ \A i \in 1..1 : u[i] = t[2 + i - 1]
      BY <1>9, <3>1, <3>2, CutOut
    <3>4. u[1] = c
      BY <1>9, <3>1, <3>3
    <3>5. PICK v : v = <<c>>
      OBVIOUS
    <3>6. v \in Seq(T) /\ Len(v) = 1 /\ v[1] = c
      BY <1>1, <3>5
    <3>7. u = v
      BY <3>3, <3>4, <3>6, SameItems
    <3>8. QED BY <3>2, <3>5, <3>7
  <2>3. QED BY <1>9, <2>1, <2>2
<1>12. BulletText(y) = <<c>>
  BY <1>5, <1>8, <1>11 DEF BulletText
<1>13. QED BY <1>2, <1>6, <1>12

LEMMA TokensOfBoth ==
  ASSUME NEW T, NEW x \in Seq(T), NEW y \in Seq(T)
  PROVE  ToSet(x \o y) = ToSet(x) \cup ToSet(y)
<1>1. PICK t, n, m : t = x \o y /\ n = Len(x) /\ m = Len(y)
  OBVIOUS
<1>2. /\ t \in Seq(T) /\ Len(t) = n + m /\ n \in Nat /\ m \in Nat
      /\ (\A i \in 1..n : t[i] = x[i]) /\ \A i \in 1..m : t[n + i] = y[i]
  BY <1>1, Joined2
<1>3. DOMAIN x = 1..n /\ DOMAIN y = 1..m /\ DOMAIN t = 1 .. n + m
  BY <1>1, <1>2, LenProperties
<1>4. ASSUME NEW i \in 1 .. n + m PROVE t[i] \in ToSet(x) \cup ToSet(y)
  <2>1. i \in 1..n \/ (i - n \in 1..m /\ n + (i - n) = i)
    BY <1>2
  <2>2. t[i] = x[i] \/ t[i] = y[i - n]
    BY <1>2, <2>1
  <2>3. QED BY <1>2, <1>3, <2>1 DEF ToSet
<1>5. ToSet(t) \subseteq ToSet(x) \cup ToSet(y)
  BY <1>3, <1>4 DEF ToSet
<1>6. ASSUME NEW i \in 1..n PROVE x[i] \in ToSet(t)
  <2>1. i \in 1 .. n + m /\ t[i] = x[i]
    BY <1>2
  <2>2. QED BY <1>3, <2>1 DEF ToSet
<1>7. ASSUME NEW i \in 1..m PROVE y[i] \in ToSet(t)
  <2>1. n + i \in 1 .. n + m /\ t[n + i] = y[i]
    BY <1>2
  <2>2. QED BY <1>3, <2>1 DEF ToSet
<1>8. ToSet(x) \subseteq ToSet(t) /\ ToSet(y) \subseteq ToSet(t)
  BY <1>3, <1>6, <1>7 DEF ToSet
<1>9. QED BY <1>1, <1>5, <1>8

\* Joined lines hold what the lines hold, and line ends.
LEMMA JoinTokens ==
  ASSUME NEW T, "nl" \in T, NEW V, V = Seq(T), NEW lines \in Seq(V)
  PROVE  /\ Join(lines) \in V
         /\ \A i \in 1..Len(lines) : ToSet(lines[i]) \subseteq ToSet(Join(lines))
         /\ \A c \in ToSet(Join(lines)) :
               c = "nl" \/ \E i \in 1..Len(lines) : c \in ToSet(lines[i])
<1>1. PICK n : n = Len(lines)
  OBVIOUS
<1>2. n \in Nat /\ DOMAIN lines = 1..n /\ \A i \in 1..n : lines[i] \in V
  BY <1>1, LenProperties, ElementOfSeq
<1>3. PICK e : e = <<"nl">>
  OBVIOUS
<1>4. e \in V /\ ToSet(e) = {"nl"} /\ \A x, y \in V : x \o y \in V
  <2>1. e \in Seq(T)
    BY <1>3
  <2>2. ToSet(e) = {"nl"}
    BY <1>3 DEF ToSet
  <2>3. \A x, y \in V : x \o y \in V
    BY ConcatProperties
  <2>4. QED BY <2>1, <2>2, <2>3
<1> DEFINE ss == [i \in DOMAIN lines |-> IF i = 1 THEN lines[i] ELSE e \o lines[i]]
<1>5. Join(lines) = FlattenSeq(ss)
  BY <1>3 DEF Join
<1>6. ss \in Seq(V) /\ Len(ss) = n
  <2>1. ss \in [1..n -> V]
    BY <1>2, <1>4
  <2> HIDE DEF ss
  <2>2. ss \in Seq(V)
    BY <1>2, <2>1, SeqDef
  <2>3. QED BY <1>2, <2>1, <2>2, LenProperties
<1>7. \A i \in 1..n : ss[i] = lines[i] \/ ss[i] = e \o lines[i]
  BY <1>2
<1> HIDE DEF ss
<1>8. ASSUME NEW i \in 1..n
      PROVE  ToSet(lines[i]) \subseteq ToSet(ss[i]) /\ ToSet(ss[i]) \subseteq ToSet(lines[i]) \cup {"nl"}
             /\ ss[i] \in V
  <2>1. ToSet(e \o lines[i]) = ToSet(e) \cup ToSet(lines[i])
    BY <1>2, <1>4, TokensOfBoth
  <2>2. QED BY <1>2, <1>4, <1>7, <2>1
<1>9. PICK f \in [0..n -> V] : /\ f[0] = <<>> /\ \A i \in 1..n : f[i] = f[i - 1] \o ss[i]
                               /\ FlattenSeq(ss) = f[n]
  <2>1. \E f \in [0..Len(ss) -> V] : /\ f[0] = <<>> /\ \A i \in 1..Len(ss) : f[i] = f[i - 1] \o ss[i]
                                     /\ FlattenSeq(ss) = f[Len(ss)]
    BY <1>6, Flattened
  <2>2. QED BY <1>6, <2>1
<1> DEFINE P(i) == /\ \A h \in 1..i : ToSet(lines[h]) \subseteq ToSet(f[i])
                   /\ \A c \in ToSet(f[i]) : c = "nl" \/ \E h \in 1..i : c \in ToSet(lines[h])
<1>10. P(0)
  <2>1. ToSet(f[0]) = {}
    BY <1>9 DEF ToSet
  <2>2. QED BY <2>1
<1>11. ASSUME NEW i \in 1..n, P(i - 1) PROVE P(i)
  <2>1. i - 1 \in 0..n
    BY <1>2
  <2>2. ToSet(f[i]) = ToSet(f[i - 1]) \cup ToSet(ss[i])
    <3>1. f[i - 1] \in Seq(T) /\ ss[i] \in Seq(T)
      BY <1>8, <1>9, <2>1
    <3>2. ToSet(f[i - 1] \o ss[i]) = ToSet(f[i - 1]) \cup ToSet(ss[i])
      BY <3>1, TokensOfBoth
    <3>3. QED BY <1>9, <3>2
  <2>3. ASSUME NEW h \in 1..i PROVE ToSet(lines[h]) \subseteq ToSet(f[i])
    <3>1. h \in 1 .. i - 1 \/ h = i
      BY <1>2
    <3>2. QED BY <1>8, <1>11, <2>2, <3>1
  <2>4. ASSUME NEW c \in ToSet(f[i]) PROVE c = "nl" \/ \E h \in 1..i : c \in ToSet(lines[h])
    <3>1. \A h \in 1 .. i - 1 : h \in 1..i
      BY <1>2
    <3>2. i \in 1..i
      BY <1>2
    <3>3. QED BY <1>8, <1>11, <2>2, <3>1, <3>2
  <2>5. QED BY <2>3, <2>4
<1>12. P(n)
  <2> DEFINE S == {i \in 0..n : ~P(i)}
  <2> HIDE DEF P
  <2>1. SUFFICES ASSUME S # {} PROVE FALSE
    BY <1>2, SMTT(30)
  <2>2. PICK k \in S : \A i \in S : k <= i
    BY <1>2, <2>1, Least
  <2>3. k # 0
    BY <1>10, <2>2
  <2>4. k \in 1..n /\ k - 1 \in 0..n /\ k - 1 < k
    BY <1>2, <2>2, <2>3
  <2>5. k - 1 \notin S
    BY <2>2, <2>4
  <2>6. P(k - 1)
    BY <2>4, <2>5
  <2>7. P(k)
    BY <1>11, <2>4, <2>6
  <2>8. QED BY <2>2, <2>7
<1>13. f[n] \in V
  BY <1>2, <1>9
<1>14. QED BY <1>1, <1>5, <1>9, <1>12, <1>13

-----------------------------------------------------------------------------
(* The lines of a reply.                                                   *)

\* Blank lines behind the others change no reply.
LEMMA FinishSame ==
  ASSUME NEW V, NEW x \in Seq(V), NEW y \in Seq(V), Len(x) <= Len(y),
         \A i \in 1..Len(x) : y[i] = x[i], \A i \in Len(x) + 1 .. Len(y) : Blank(y[i])
  PROVE  Finish(y) = Finish(x)
<1>1. PICK n, m : n = Len(x) /\ m = Len(y)
  OBVIOUS
<1>2. n \in Nat /\ m \in Nat /\ n <= m /\ DOMAIN x = 1..n /\ DOMAIN y = 1..m
  BY <1>1, LenProperties
<1> DEFINE F(s) == {i \in DOMAIN s : ~Blank(s[i])}
<1>3. F(y) = F(x)
  <2>1. ASSUME NEW i \in F(y) PROVE i \in F(x)
    <3>1. i \in 1..m /\ i \notin n + 1 .. m
      BY <1>1, <1>2
    <3>2. i \in 1..n
      BY <1>2, <3>1
    <3>3. QED BY <1>1, <1>2, <3>2
  <2>2. ASSUME NEW i \in F(x) PROVE i \in F(y)
    <3>1. i \in 1..n /\ i \in 1..m
      BY <1>2
    <3>2. QED BY <1>1, <1>2, <3>1
  <2>3. QED BY <2>1, <2>2
<1>4. F(x) \in SUBSET (0..n) /\ \A i \in F(x) : i \in 1..n
  BY <1>2
<1>5. /\ Finish(x) = IF F(x) = {} THEN None ELSE Some(Join(SubSeq(x, Min(F(x)), Max(F(x)))))
      /\ Finish(y) = IF F(y) = {} THEN None ELSE Some(Join(SubSeq(y, Min(F(y)), Max(F(y)))))
  BY DEF Finish
<1>6. PICK S : S = F(x)
  OBVIOUS
<1>7. PICK a, b : a = Min(S) /\ b = Max(S)
  OBVIOUS
<1> HIDE DEF F
<1>8. ASSUME S # {} PROVE SubSeq(y, a, b) = SubSeq(x, a, b)
  <2>1. a \in S /\ b \in S /\ a <= b
    BY <1>2, <1>4, <1>6, <1>7, <1>8, MinMax
  <2>2. a \in 1..n /\ b \in 1..n
    BY <1>4, <1>6, <2>1
  <2>3. /\ a \in Int /\ b \in Int /\ 1 <= a /\ a - 1 <= b /\ b <= Len(x) /\ b <= Len(y) /\ b - a = b - a
    BY <1>1, <1>2, <2>1, <2>2
  <2>4. \A i \in a..b : y[a + (i - a)] = x[i]
    <3>1. \A i \in a..b : i \in 1..n /\ a + (i - a) = i
      BY <1>2, <2>2
    <3>2. QED BY <1>1, <3>1
  <2>5. QED BY <2>3, <2>4, SameCut
<1>9. /\ Finish(x) = IF S = {} THEN None ELSE Some(Join(SubSeq(x, a, b)))
      /\ Finish(y) = IF S = {} THEN None ELSE Some(Join(SubSeq(y, a, b)))
  BY <1>3, <1>5, <1>6, <1>7
<1>10. CASE S = {}
  BY <1>9, <1>10
<1>11. CASE S # {}
  <2>1. SubSeq(y, a, b) = SubSeq(x, a, b)
    BY <1>8, <1>11
  <2>2. Finish(x) = Some(Join(SubSeq(x, a, b))) /\ Finish(y) = Some(Join(SubSeq(y, a, b)))
    BY <1>9, <1>11
  <2>3. QED BY <2>1, <2>2
<1>12. QED BY <1>10, <1>11

\* A reply of lines with nothing unclean in them is clean.
LEMMA FinishClean ==
  ASSUME NEW T, "nl" \in T, NEW V, V = Seq(T), NEW x \in Seq(V),
         \A i \in 1..Len(x) : ToSet(x[i]) \cap Unclean = {}
  PROVE  Finish(x) = None \/ LooksClean(Finish(x)[1])
<1>1. PICK n : n = Len(x)
  OBVIOUS
<1>2. n \in Nat /\ DOMAIN x = 1..n /\ \A i \in 1..n : x[i] \in V
  BY <1>1, LenProperties, ElementOfSeq
<1>3. PICK S : S = {i \in DOMAIN x : ~Blank(x[i])}
  OBVIOUS
<1>4. S \in SUBSET (0..n) /\ \A i \in S : i \in 1..n /\ ~Blank(x[i])
  BY <1>2, <1>3
<1>5. PICK a, b : a = Min(S) /\ b = Max(S)
  OBVIOUS
<1>6. Finish(x) = IF S = {} THEN None ELSE Some(Join(SubSeq(x, a, b)))
  BY <1>3, <1>5 DEF Finish
<1>7. ASSUME S # {} PROVE LooksClean(Join(SubSeq(x, a, b)))
  <2>1. a \in S /\ b \in S /\ a <= b
    BY <1>2, <1>4, <1>5, <1>7, MinMax
  <2>2. /\ a \in 1..n /\ b \in 1..n /\ a \in 1 .. Len(x) + 1 /\ b \in a - 1 .. Len(x)
        /\ 1 \in 1 .. b - a + 1 /\ a + 1 - 1 = a
    BY <1>1, <1>2, <1>4, <2>1
  <2>3. PICK y : y = SubSeq(x, a, b)
    OBVIOUS
  <2>4. y \in Seq(V) /\ Len(y) = b - a + 1 /\ \A i \in 1 .. b - a + 1 : y[i] = x[a + i - 1]
    BY <2>2, <2>3, CutOut
  <2>5. PICK t : t = Join(y)
    OBVIOUS
  <2>6. /\ t \in V
        /\ \A i \in 1..Len(y) : ToSet(y[i]) \subseteq ToSet(t)
        /\ \A c \in ToSet(t) : c = "nl" \/ \E i \in 1..Len(y) : c \in ToSet(y[i])
    BY <2>4, <2>5, JoinTokens
  <2>7. y[1] = x[a] /\ 1 \in 1..Len(y) /\ y[1] \in Seq(T)
    BY <1>2, <2>2, <2>4
  <2>8. ~Blank(t)
    <3>1. PICK i \in 1..Len(y[1]) : y[1][i] \notin Blanks
      BY <1>4, <2>1, <2>7, BlankIs
    <3>2. y[1][i] \in ToSet(y[1])
      <4>1. DOMAIN y[1] = 1..Len(y[1])
        BY <2>7, LenProperties
      <4>2. QED BY <3>1, <4>1 DEF ToSet
    <3>3. y[1][i] \in ToSet(t)
      BY <2>6, <2>7, <3>2
    <3>4. DOMAIN t = 1..Len(t) /\ t \in Seq(T)
      BY <2>6, LenProperties
    <3>5. PICK j \in 1..Len(t) : t[j] = y[1][i]
      BY <3>3, <3>4 DEF ToSet
    <3>6. QED BY <3>1, <3>4, <3>5, BlankIs
  <2>9. ASSUME NEW c \in ToSet(t), c \in Unclean PROVE FALSE
    <3>1. c # "nl"
      BY <2>9 DEF Unclean
    <3>2. PICK i \in 1..Len(y) : c \in ToSet(y[i])
      BY <2>6, <3>1
    <3>3. a + i - 1 \in 1..n /\ y[i] = x[a + i - 1]
      BY <1>2, <2>2, <2>4
    <3>4. QED BY <1>1, <2>9, <3>2, <3>3
  <2>10. QED BY <2>3, <2>5, <2>8, <2>9 DEF LooksClean
<1>8. CASE S = {}
  BY <1>6, <1>8
<1>9. CASE S # {}
  <2>1. PICK t : t = Join(SubSeq(x, a, b))
    OBVIOUS
  <2>2. Finish(x) = <<t>> /\ LooksClean(t)
    BY <1>6, <1>7, <1>9, <2>1 DEF Some
  <2>3. QED BY <2>2
<1>10. QED BY <1>8, <1>9

LEMMA NothingIsBlank == Blank(<<>>)
<1>1. PICK x : x = <<>>
  OBVIOUS
<1>2. x \in Seq({"sp"}) /\ Len(x) = 0
  BY <1>1
<1>3. \A i \in 1..Len(x) : x[i] \in Blanks
  BY <1>2
<1>4. QED BY <1>1, <1>2, <1>3, BlankIs

\* The lines of an answer, each without spaces at its ends when it is blank.
AnswerRows == {x \in Plain : Blank(x) => x = <<>>}

\* What a line of the answer says: a line with a bullet says what follows it.
Said(x) == IF IsBullet(x) THEN BulletText(x) ELSE x

LEMMA RowIs ==
  ASSUME NEW x \in AnswerRows
  PROVE  /\ x \in Row /\ Indented(x) \in Row /\ x \in Seq(ScreenTokens)
         /\ Indented(x) \in Seq(ScreenTokens)
         /\ (Blank(x) <=> x = <<>>) /\ (Blank(Indented(x)) <=> x = <<>>)
         /\ (IsBullet(Indented(x)) <=> IsBullet(x)) /\ BulletText(Indented(x)) = BulletText(x)
         /\ x # <<>> => Dedent(Indented(x), 2) = x /\ Indent(Indented(x)) >= 2
         /\ ToSet(Indented(x)) \subseteq ToSet(x) \cup {"sp"}
<1>1. x \in Plain /\ (Blank(x) => x = <<>>)
  BY DEF AnswerRows
<1>2. Blank(<<>>)
  BY NothingIsBlank
<1>3. PICK T : T = ScreenTokens \ {"nl"}
  OBVIOUS
<1>4. "sp" \in T /\ Row = Seq(T) /\ Words \cup {"a", "b"} \subseteq T
  <2>1. "sp" \in Words /\ "nl" \notin Words
    BY DEF Words
  <2>2. QED BY <1>3, <2>1 DEF Row, ScreenTokens
<1>5. x \in Seq(T)
  BY <1>1, <1>4, SeqMonotonic DEF Plain
<1>6. \A z \in Row : z \in Seq(ScreenTokens)
  BY SeqMonotonic DEF Row
<1>7. CASE x = <<>>
  <2>1. Indented(x) = x
    BY <1>7 DEF Indented
  <2>2. QED BY <1>2, <1>4, <1>5, <1>6, <1>7, <2>1
<1>8. CASE x # <<>>
  <2>1. PICK y : y = <<"sp", "sp">> \o x
    OBVIOUS
  <2>2. Indented(x) = y
    BY <1>8, <2>1 DEF Indented
  <2>3. /\ y \in Seq(T) /\ Indent(y) = Indent(x) + 2
        /\ Dedent(y, 2) = x /\ Dedent(y, Len(y)) = Dedent(x, Len(x))
        /\ (Blank(y) <=> Blank(x)) /\ ToSet(y) \subseteq ToSet(x) \cup {"sp"}
    BY <1>4, <1>5, <2>1, Shifted
  <2>4. Indent(x) \in 0..Len(x) /\ Len(x) \in Nat
    BY <1>5, IndentOf, LenProperties
  <2>5. Indent(y) >= 2
    BY <2>3, <2>4
  <2>6. (IsBullet(y) <=> IsBullet(x)) /\ BulletText(y) = BulletText(x)
    BY <2>3 DEF IsBullet, BulletText
  <2>7. QED BY <1>1, <1>2, <1>4, <1>5, <1>6, <1>8, <2>2, <2>3, <2>5, <2>6
<1>9. QED BY <1>7, <1>8

\* A clean line of the answer does not look like chrome.
LEMMA PlainRow ==
  ASSUME NEW x \in AnswerRows, ToSet(x) \cap Unclean = {}
  PROVE  /\ ~IsBullet(x)
         /\ x # <<>> => /\ ~CodexChrome(Indented(x)) /\ ~(Indent(Indented(x)) < 2)
                        /\ ~ClaudeChrome(Indented(x)) /\ ~ClaudeBanner(Indented(x))
                        /\ "prompt" \notin Starts(Indented(x))
<1>1. PICK y : y = Indented(x)
  OBVIOUS
<1>2. /\ x \in Seq(ScreenTokens) /\ y \in Seq(ScreenTokens) /\ ToSet(y) \subseteq ToSet(x) \cup {"sp"}
      /\ x # <<>> => Indent(y) >= 2
  BY <1>1, RowIs
<1>3. \A c \in {"prompt", "rule", "status", "mark", "banner", "dot"} : c \notin ToSet(x) /\ c \notin ToSet(y)
  <2>1. \A c \in {"prompt", "rule", "status", "mark", "banner", "dot"} : c \in Unclean /\ c # "sp"
    BY DEF Unclean
  <2>2. QED BY <1>2, <2>1
<1>4. ~IsBullet(x)
  BY <1>2, <1>3, BulletHasDot
<1>5. Starts(y) \subseteq ToSet(y) /\ \A c : Trim(y) = <<c>> => c \in ToSet(y)
  BY <1>2, BlankIs
<1>6. ~CodexChrome(y)
  BY <1>3, <1>5 DEF CodexChrome
<1>7. ~ClaudeChrome(y)
  BY <1>3, <1>5 DEF ClaudeChrome
<1>8. ~ClaudeBanner(y) /\ "prompt" \notin Starts(y)
  BY <1>3, <1>5 DEF ClaudeBanner
<1>9. x # <<>> => ~(Indent(y) < 2)
  <2>1. Indent(y) \in 0..Len(y) /\ Len(y) \in Nat
    BY <1>2, IndentOf, LenProperties
  <2>2. QED BY <1>2, <2>1
<1>10. QED BY <1>1, <1>4, <1>6, <1>7, <1>8, <1>9

\* The lines of the chrome.
LEMMA ChromeRow ==
  ASSUME NEW c \in {"mark", "status", "rule", "prompt"}
  PROVE  /\ <<c>> \in Row /\ ~Blank(<<c>>) /\ ~IsBullet(<<c>>) /\ ClaudeChrome(<<c>>)
         /\ c = "status" => CodexChrome(<<c>>)
<1>1. PICK x : x = <<c>>
  OBVIOUS
<1>2. x \in Row
  <2>1. c \in ScreenTokens \ {"nl"}
    BY DEF ScreenTokens, Words
  <2>2. QED BY <1>1, <2>1 DEF Row
<1>3. x \in Seq({c}) /\ Len(x) = 1 /\ x[1] = c /\ DOMAIN x = 1..1 /\ ToSet(x) = {c}
  BY <1>1 DEF ToSet
<1>4. c \notin Blanks
  BY DEF Blanks
<1>5. ~Blank(x)
  BY <1>3, <1>4, BlankIs
<1>6. ~IsBullet(x)
  BY <1>3, BulletHasDot
<1>7. Trim(x) = x
  <2>1. PICK K : K = {i \in DOMAIN x : x[i] \notin Blanks}
    OBVIOUS
  <2>2. K = {1}
    BY <1>3, <1>4, <2>1
  <2>3. K \in SUBSET (0..1) /\ K # {} /\ 1 \in Nat
    BY <2>2
  <2>4. Min(K) = 1 /\ Max(K) = 1
    <3>1. Min(K) \in K /\ Max(K) \in K
      BY <2>3, MinMax
    <3>2. QED BY <2>2, <3>1
  <2>5. Trim(x) = IF K = {} THEN <<>> ELSE SubSeq(x, Min(K), Max(K))
    BY <2>1 DEF Trim
  <2>6. SubSeq(x, 1, Len(x)) = x
    BY <1>3, SubSeqFull
  <2>7. QED BY <1>3, <2>3, <2>4, <2>5, <2>6
<1>8. Starts(x) = {c}
  BY <1>3, <1>5, <1>7 DEF Starts
<1>9. ClaudeChrome(x)
  <2>1. CASE c = "rule"
    BY <1>1, <1>7, <2>1 DEF ClaudeChrome
  <2>2. CASE c = "status"
    BY <1>3, <2>2 DEF ClaudeChrome
  <2>3. CASE c \in {"mark", "prompt"}
    BY <1>8, <2>3 DEF ClaudeChrome
  <2>4. QED BY <2>1, <2>2, <2>3
<1>10. c = "status" => CodexChrome(x)
  BY <1>3 DEF CodexChrome
<1>11. QED BY <1>1, <1>2, <1>5, <1>6, <1>9, <1>10

LEMMA NoRow == <<>> \in Row /\ Blank(<<>>) /\ ~IsBullet(<<>>) /\ <<>> \in AnswerRows
<1>1. <<>> \in Seq({"dot"}) /\ Len(<<>>) = 0 /\ <<>> \in Row /\ <<>> \in Plain
  BY DEF Row, Plain
<1>2. Blank(<<>>)
  BY NothingIsBlank
<1>3. ToSet(<<>>) = {}
  BY DEF ToSet
<1>4. ~IsBullet(<<>>)
  BY <1>1, <1>3, BulletHasDot
<1>5. QED BY <1>1, <1>2, <1>4 DEF AnswerRows

-----------------------------------------------------------------------------
(* The answer among the lines of the screen.                               *)

Sign(p) == IF p = "claude" THEN "mark" ELSE "status"

\* Behind the first o lines, from one of its own on, the answer with the chrome below it.
Below(L, A, p, o, from) ==
    /\ L \in Seq(Row) /\ A \in Seq(AnswerRows) /\ o \in Nat /\ from \in 1..2
    /\ Len(A) \in Nat /\ Len(L) = o + Len(A) + 4
    /\ \A k \in from .. Len(A) : L[o + k] = Indented(A[k])
    /\ L[o + Len(A) + 1] = <<>> /\ L[o + Len(A) + 2] = <<Sign(p)>>
    /\ L[o + Len(A) + 3] = <<"rule">> /\ L[o + Len(A) + 4] = <<"prompt">>

\* The answer with its bullet, or what is left of it below the last bullet.
Answered(L, A, p, o) ==
    /\ Below(L, A, p, o, 2) /\ Len(A) >= 1
    /\ \E c \in {"a", "b"} : A[1] = <<c>> /\ L[o + 1] = <<"dot", "sp">> \o <<c>>

Scrolled(L, A, p) == Below(L, A, p, 0, 1) /\ Bullets(A) = {}

\* Lines i to j of the answer as a reply.
SliceOf(A, i, j) == [k \in 1 .. j - i + 1 |-> IF k = 1 THEN Said(A[i]) ELSE A[i + k - 1]]

Clean(A) == \A i \in 1..Len(A) : ToSet(A[i]) \cap Unclean = {}

\* The last bullet of an answer, its first line where it has no other.
LastBulletOf(A) == Max({1} \cup Bullets(A))

\* What follows the answer on the screen.
LEMMA ChromeBelow ==
  ASSUME NEW L, NEW A, NEW p, NEW o, NEW from, Below(L, A, p, o, from),
         NEW i \in o + Len(A) + 1 .. Len(L)
  PROVE  /\ ~IsBullet(L[i]) /\ (Blank(L[i]) <=> i = o + Len(A) + 1)
         /\ ~Blank(L[i]) /\ p = "claude" => ClaudeChrome(L[i])
         /\ p = "codex" /\ i = o + Len(A) + 2 => CodexChrome(L[i])
<1>1. PICK n : n = o + Len(A)
  OBVIOUS
<1>2. /\ n \in Nat /\ Len(L) = n + 4 /\ o \in Nat /\ Len(A) \in Nat
      /\ L[n + 1] = <<>> /\ L[n + 2] = <<Sign(p)>> /\ L[n + 3] = <<"rule">> /\ L[n + 4] = <<"prompt">>
  <2>1. o \in Nat /\ Len(A) \in Nat
    BY DEF Below
  <2>2. /\ Len(L) = (o + Len(A)) + 4 /\ L[(o + Len(A)) + 1] = <<>> /\ L[(o + Len(A)) + 2] = <<Sign(p)>>
        /\ L[(o + Len(A)) + 3] = <<"rule">> /\ L[(o + Len(A)) + 4] = <<"prompt">>
    BY Zenon DEF Below
  <2>3. QED BY <1>1, <2>1, <2>2
<1>3. Sign(p) \in {"mark", "status"} /\ (p = "codex" => Sign(p) = "status")
  BY DEF Sign
<1>4. CASE i = n + 1
  <2>1. n + 1 # n + 2
    BY <1>2
  <2>2. QED BY <1>1, <1>2, <1>4, <2>1, NoRow
<1>5. CASE i = n + 2
  <2>1. n + 1 # n + 2
    BY <1>2
  <2>2. PICK c \in {"mark", "status", "rule", "prompt"} : c = Sign(p)
    BY <1>3
  <2>3. /\ ~Blank(<<c>>) /\ ~IsBullet(<<c>>) /\ ClaudeChrome(<<c>>)
        /\ c = "status" => CodexChrome(<<c>>)
    BY ChromeRow
  <2>4. QED BY <1>1, <1>2, <1>3, <1>5, <2>1, <2>2, <2>3
<1>6. CASE i = n + 3 \/ i = n + 4
  <2>1. i # n + 1 /\ i # n + 2
    BY <1>2, <1>6
  <2>2. PICK c \in {"mark", "status", "rule", "prompt"} : L[i] = <<c>>
    BY <1>2, <1>6
  <2>3. ~Blank(<<c>>) /\ ~IsBullet(<<c>>) /\ ClaudeChrome(<<c>>)
    BY ChromeRow
  <2>4. QED BY <1>1, <2>1, <2>2, <2>3
<1>7. i = n + 1 \/ i = n + 2 \/ i = n + 3 \/ i = n + 4
  BY <1>1, <1>2
<1>8. QED BY <1>4, <1>5, <1>6, <1>7

\* The lines from first to last are lines of the answer, or the blank one behind it.
Within(A, o, from, first, last) ==
    /\ first \in Int /\ last \in Int /\ o + from <= first
    /\ first - 1 <= last /\ last <= o + Len(A) + 1

\* D is what they say.
Stretch(D, A, o, first, last) ==
    /\ D \in Seq(Seq(ScreenTokens)) /\ Len(D) = last - first + 1
    /\ \A k \in 1 .. last - first + 1 :
          D[k] = IF first + k - 1 - o <= Len(A) THEN A[first + k - 1 - o] ELSE <<>>

\* Dedented, the lines of the answer are what it says.
LEMMA DedentedIs ==
  ASSUME NEW L, NEW A, NEW p, NEW o, NEW from, Below(L, A, p, o, from),
         NEW first, NEW last, Within(A, o, from, first, last)
  PROVE  Stretch(Dedented(L, first, last), A, o, first, last)
<1>0. /\ first \in Int /\ last \in Int /\ o + from <= first
      /\ first - 1 <= last /\ last <= o + Len(A) + 1
  BY DEF Within
<1>1. PICK D, V, n, m : /\ D = Dedented(L, first, last) /\ V = Seq(ScreenTokens)
                        /\ n = last - first + 1 /\ m = Len(A)
  OBVIOUS
<1>2. /\ A \in Seq(AnswerRows) /\ o \in Nat /\ from \in 1..2 /\ m \in Nat
      /\ \A k \in from..m : L[o + k] = Indented(A[k])
      /\ L[o + m + 1] = <<>>
  BY <1>1 DEF Below
<1>3. n \in Nat
  BY <1>0, <1>1
<1>4. D = [k \in 1..n |-> IF Blank(L[first + k - 1]) THEN <<>> ELSE Dedent(L[first + k - 1], 2)]
  BY <1>1 DEF Dedented
<1>5. ASSUME NEW k \in 1..n
      PROVE  /\ D[k] = IF first + k - 1 - o <= m THEN A[first + k - 1 - o] ELSE <<>>
             /\ D[k] \in V
  <2>1. PICK h : h = first + k - 1 - o
    OBVIOUS
  <2>2. first + k - 1 = o + h /\ h \in from .. m + 1 /\ h \in 1 .. m + 1
    <3>1. /\ o \in Int /\ m \in Int /\ from \in Int /\ 1 <= from /\ first \in Int /\ last \in Int
          /\ o + from <= first /\ last <= o + m + 1 /\ k \in Int /\ 1 <= k /\ k <= last - first + 1
      BY <1>0, <1>1, <1>2
    <3>2. first + k - 1 = o + h /\ h \in Int /\ from <= h /\ 1 <= h /\ h <= m + 1
      BY <2>1, <3>1
    <3>3. QED BY <3>1, <3>2
  <2>3. D[k] = IF Blank(L[o + h]) THEN <<>> ELSE Dedent(L[o + h], 2)
    BY <1>4, <2>2
  <2>4. CASE h <= m
    <3>1. h \in from..m /\ h \in 1..m
      BY <1>2, <2>2, <2>4
    <3>2. A[h] \in AnswerRows /\ L[o + h] = Indented(A[h])
      BY <1>1, <1>2, <3>1, ElementOfSeq
    <3>3. /\ A[h] \in V /\ (Blank(L[o + h]) <=> A[h] = <<>>)
          /\ A[h] # <<>> => Dedent(L[o + h], 2) = A[h]
      BY <1>1, <3>2, RowIs
    <3>4. D[k] = A[h]
      BY <2>3, <3>3
    <3>5. QED BY <2>1, <2>4, <3>3, <3>4
  <2>5. CASE ~(h <= m)
    <3>1. o + h = o + m + 1
      BY <1>2, <2>2, <2>5
    <3>2. D[k] = <<>>
      BY <1>2, <2>3, <3>1, NoRow
    <3>3. <<>> \in V
      BY <1>1
    <3>4. QED BY <2>1, <2>5, <3>2, <3>3
  <2>6. QED BY <2>4, <2>5
<1>6. D \in Seq(V) /\ Len(D) = n
  <2>1. D = [k \in 1..n |-> D[k]]
    BY <1>4
  <2>2. D \in [1..n -> V]
    BY <1>5, <2>1
  <2>3. D \in Seq(V)
    BY <1>3, <2>2, SeqDef
  <2>4. QED BY <1>3, <2>2, <2>3, LenProperties
<1>7. QED BY <1>1, <1>5, <1>6 DEF Stretch

LEMMA SliceIs ==
  ASSUME NEW A \in Seq(AnswerRows), NEW i \in 1..Len(A), NEW j \in i..Len(A)
  PROVE  /\ Len(SliceOf(A, i, j)) = j - i + 1
         /\ SliceOf(A, i, j)[1] = Said(A[i])
         /\ \A k \in 2 .. j - i + 1 : SliceOf(A, i, j)[k] = A[i + k - 1]
         /\ SliceOf(A, i, j) \in Seq(Seq(ScreenTokens))
<1>1. PICK x, n, V : x = SliceOf(A, i, j) /\ n = j - i + 1 /\ V = Seq(ScreenTokens)
  OBVIOUS
<1>2. Len(A) \in Nat /\ n \in Nat /\ 1 \in 1..n
  BY <1>1, LenProperties
<1>3. x = [k \in 1..n |-> IF k = 1 THEN Said(A[i]) ELSE A[i + k - 1]]
  BY <1>1 DEF SliceOf
<1>4. \A k \in 1..n : i + k - 1 \in 1..Len(A)
  BY <1>1, <1>2
<1>5. \A k \in 1..Len(A) : A[k] \in V /\ Said(A[k]) \in V
  <2> TAKE k \in 1..Len(A)
  <2>1. A[k] \in AnswerRows
    BY ElementOfSeq
  <2>2. A[k] \in V
    BY <1>1, <2>1, RowIs
  <2>3. ASSUME IsBullet(A[k]) PROVE BulletText(A[k]) \in V
    <3>1. PICK t : t = Dedent(A[k], Len(A[k]))
      OBVIOUS
    <3>2. t \in V
      BY <1>1, <2>2, <3>1, DedentWhole
    <3>3. t # <<>>
      <4>1. t = <<"dot">> \/ IsPrefix(<<"dot", "sp">>, t)
        BY <2>3, <3>1 DEF IsBullet
      <4>2. CASE IsPrefix(<<"dot", "sp">>, t)
        <5>1. Len(<<"dot", "sp">>) <= Len(t) /\ Len(<<"dot", "sp">>) = 2
          BY <4>2 DEF IsPrefix
        <5>2. QED BY <5>1
      <4>3. CASE t = <<"dot">>
        BY <4>3
      <4>4. QED BY <4>1, <4>2, <4>3
    <3>4. PICK u : u = Tail(t)
      OBVIOUS
    <3>5. u \in Seq(ScreenTokens)
      BY <1>1, <3>2, <3>3, <3>4, HeadTailProperties
    <3>6. Dedent(u, Len(u)) \in V
      BY <1>1, <3>5, DedentWhole
    <3>7. QED BY <3>1, <3>4, <3>6 DEF BulletText
  <2>4. QED BY <2>2, <2>3 DEF Said
<1>6. x \in [1..n -> V]
  BY <1>3, <1>4, <1>5
<1>7. x \in Seq(V) /\ Len(x) = n
  <2>1. x \in Seq(V)
    BY <1>2, <1>6, SeqDef
  <2>2. QED BY <1>2, <1>6, <2>1, LenProperties
<1>8. \A k \in 2..n : x[k] = A[i + k - 1]
  BY <1>2, <1>3
<1>9. x[1] = Said(A[i])
  BY <1>2, <1>3
<1>10. QED BY <1>1, <1>7, <1>8, <1>9

\* The last bullet on the screen is the last one of the answer.
LEMMA LastBulletIs ==
  ASSUME NEW L, NEW A, NEW p, NEW o, Answered(L, A, p, o), NEW s, s = LastBulletOf(A)
  PROVE  /\ s \in 1..Len(A) /\ \A k \in s + 1 .. Len(A) : ~IsBullet(A[k])
         /\ Clean(A) => s = 1
         /\ Bullets(L) # {} /\ Max(Bullets(L)) = o + s /\ BulletText(L[o + s]) = Said(A[s])
<1>1. PICK m, n : m = Len(A) /\ n = Len(L)
  OBVIOUS
<1>2. /\ Below(L, A, p, o, 2) /\ L \in Seq(Row) /\ A \in Seq(AnswerRows)
      /\ m \in Nat /\ o \in Nat /\ m >= 1 /\ n = o + m + 4
      /\ \A k \in 2..m : L[o + k] = Indented(A[k])
  BY <1>1 DEF Answered, Below
<1>3. PICK c \in {"a", "b"} : A[1] = <<c>> /\ L[o + 1] = <<"dot", "sp">> \o <<c>>
  BY DEF Answered
<1>4. PICK B : B = Bullets(A)
  OBVIOUS
<1>5. /\ B = {k \in 1..m : IsBullet(A[k])}
      /\ Bullets(L) = {i \in 1..n : IsBullet(L[i])}
  BY <1>1, <1>2, <1>4, BulletsAre
<1>6. s \in {1} \cup B /\ \A k \in {1} \cup B : s >= k
  <2>1. PICK S : S = {1} \cup B
    OBVIOUS
  <2>2. S \in SUBSET (0..m) /\ S # {}
    BY <1>2, <1>5, <2>1
  <2>3. s = Max(S)
    BY <1>4, <2>1 DEF LastBulletOf
  <2>4. Max(S) \in S /\ \A k \in S : Max(S) >= k
    BY <1>2, <2>2, MinMax
  <2>5. QED BY <2>1, <2>3, <2>4
<1>7. s \in 1..m
  BY <1>2, <1>5, <1>6
<1>8. ASSUME NEW k \in s + 1 .. m PROVE ~IsBullet(A[k])
  <2>1. k \in 1..m /\ ~(s >= k)
    BY <1>7
  <2>2. QED BY <1>5, <1>6, <2>1
<1>9. \A k \in 1..m : A[k] \in AnswerRows
  BY <1>1, <1>2, ElementOfSeq
<1>10. Clean(A) => s = 1
  <2>1. ASSUME Clean(A), s # 1 PROVE FALSE
    <3>1. IsBullet(A[s])
      BY <1>5, <1>6, <2>1
    <3>2. ToSet(A[s]) \cap Unclean = {}
      BY <1>1, <1>7, <2>1 DEF Clean
    <3>3. QED BY <1>7, <1>9, <3>1, <3>2, PlainRow
  <2>2. QED BY <2>1
<1>11. IsBullet(L[o + s]) /\ BulletText(L[o + s]) = Said(A[s])
  <2>1. CASE s = 1
    <3>1. c # "sp"
      OBVIOUS
    <3>2. IsBullet(L[o + 1]) /\ BulletText(L[o + 1]) = <<c>>
      BY <1>3, <3>1, HeadIs
    <3>3. PICK x : x = <<c>>
      OBVIOUS
    <3>4. x \in Seq({c}) /\ ToSet(x) = {c} /\ c # "dot"
      BY <3>3 DEF ToSet
    <3>5. ~IsBullet(x)
      BY <3>4, BulletHasDot
    <3>6. Said(A[1]) = <<c>>
      BY <1>3, <3>3, <3>5 DEF Said
    <3>7. QED BY <2>1, <3>2, <3>6
  <2>2. CASE s # 1
    <3>1. IsBullet(A[s]) /\ s \in 2..m
      BY <1>5, <1>6, <1>7, <2>2
    <3>2. L[o + s] = Indented(A[s])
      BY <1>2, <3>1
    <3>3. QED BY <1>7, <1>9, <3>1, <3>2, RowIs DEF Said
  <2>3. QED BY <2>1, <2>2
<1>12. o + s \in Bullets(L)
  <2>1. o + s \in 1..n
    BY <1>2, <1>7
  <2>2. QED BY <1>5, <1>11, <2>1
<1>13. ASSUME NEW i \in Bullets(L) PROVE i <= o + s
  <2>1. SUFFICES ASSUME ~(i <= o + s) PROVE FALSE
    OBVIOUS
  <2>2. i \in 1..n /\ IsBullet(L[i])
    BY <1>5
  <2>3. CASE i <= o + m
    <3>1. PICK k : k = i - o
      OBVIOUS
    <3>2. k \in s + 1 .. m /\ k \in 2..m /\ k \in 1..m /\ i = o + k
      BY <1>2, <1>7, <2>1, <2>2, <2>3, <3>1
    <3>3. IsBullet(A[k])
      BY <1>2, <1>9, <2>2, <3>2, RowIs
    <3>4. QED BY <1>8, <3>2, <3>3
  <2>4. CASE ~(i <= o + m)
    <3>1. i \in o + Len(A) + 1 .. Len(L)
      BY <1>1, <1>2, <2>2, <2>4
    <3>2. QED BY <1>2, <2>2, <3>1, ChromeBelow
  <2>5. QED BY <2>3, <2>4
<1>14. Max(Bullets(L)) = o + s
  <2>1. Bullets(L) \in SUBSET (0..n) /\ n \in Nat
    BY <1>2, <1>5
  <2>2. PICK b : b = Max(Bullets(L))
    OBVIOUS
  <2>3. b \in Bullets(L) /\ b >= o + s
    BY <1>12, <2>1, <2>2, MinMax
  <2>4. b <= o + s /\ b \in Int
    BY <1>13, <2>1, <2>3
  <2>5. QED BY <1>2, <1>7, <2>2, <2>3, <2>4
<1>15. QED BY <1>1, <1>7, <1>8, <1>10, <1>11, <1>12, <1>14

\* Where a reply may end: within the answer, or at the line below the blank one behind it.
EndsIn(e, o, s, m) == s \in 1..m /\ e \in o + s + 1 .. o + m + 2 /\ e # o + m + 1

\* The reply from line `start` down to the line before `end`.
Slice(L, start, end) == Finish(<<BulletText(L[start])>> \o Dedented(L, start + 1, end - 1))

\* From the last bullet down, the lines of the screen are lines of the answer.
LEMMA SliceBelow ==
  ASSUME NEW o \in Nat, NEW m \in Nat, NEW s \in Nat, NEW e \in Nat, EndsIn(e, o, s, m),
         NEW L, NEW A, NEW p, m = Len(A), Answered(L, A, p, o), s = LastBulletOf(A)
  PROVE  \E j \in s..m :
            /\ Slice(L, o + s, e) = Finish(SliceOf(A, s, j))
            /\ e = o + m + 2 => j = m
<1>1. PICK n, V : n = Len(L) /\ V = Seq(ScreenTokens)
  OBVIOUS
<1>2. /\ Below(L, A, p, o, 2) /\ A \in Seq(AnswerRows) /\ m \in Nat /\ o \in Nat /\ n = o + m + 4
  BY <1>1 DEF Answered, Below
<1>3. s \in 1..m /\ BulletText(L[o + s]) = Said(A[s])
  <2>1. BulletText(L[o + s]) = Said(A[s])
    <3>1. Answered(L, A, p, o) /\ s = LastBulletOf(A)
      OBVIOUS
    <3>2. QED BY <3>1, LastBulletIs
  <2>2. QED BY <2>1 DEF EndsIn
<1>3a. /\ o \in Int /\ s \in Int /\ m \in Int /\ e \in Int /\ 0 <= o /\ 1 <= s /\ s <= m
       /\ o + s + 1 <= e /\ e <= o + m + 2 /\ e # o + m + 1
  BY DEF EndsIn
<1>4. PICK j : j = IF e = o + m + 2 THEN m ELSE e - 1 - o
  OBVIOUS
<1>5. j \in s..m /\ (e = o + m + 2 => j = m)
  BY <1>3a, <1>4
<1>6. PICK first, last : first = o + s + 1 /\ last = e - 1
  OBVIOUS
<1>7. PICK D, l : D = Dedented(L, first, last) /\ l = last - first + 1
  OBVIOUS
<1>8. /\ D \in Seq(V) /\ Len(D) = l
      /\ \A k \in 1..l : D[k] = IF first + k - 1 - o <= m THEN A[first + k - 1 - o] ELSE <<>>
  <2>1. first \in Int /\ last \in Int /\ o + 2 <= first /\ first - 1 <= last /\ last <= o + m + 1
    BY <1>3a, <1>6
  <2>2. Within(A, o, 2, first, last)
    BY <2>1 DEF Within
  <2>3. /\ D \in Seq(Seq(ScreenTokens)) /\ Len(D) = last - first + 1
        /\ \A k \in 1 .. last - first + 1 :
              D[k] = IF first + k - 1 - o <= Len(A) THEN A[first + k - 1 - o] ELSE <<>>
    <3>1. Stretch(D, A, o, first, last)
      BY <1>2, <1>7, <2>2, DedentedIs
    <3>2. QED BY <3>1 DEF Stretch
  <2>4. QED BY <1>1, <1>7, <2>3
<1>9. PICK x : x = SliceOf(A, s, j)
  OBVIOUS
<1>10. /\ x \in Seq(V) /\ Len(x) = j - s + 1 /\ x[1] = Said(A[s])
       /\ \A k \in 2 .. j - s + 1 : x[k] = A[s + k - 1]
  <2>1. s \in 1..Len(A) /\ j \in s..Len(A)
    BY <1>3, <1>5
  <2>2. QED BY <1>1, <1>2, <1>9, <2>1, SliceIs
<1>11. PICK h, y : h = <<BulletText(L[o + s])>> /\ y = h \o D
  OBVIOUS
<1>12. Said(A[s]) \in V
  <2>1. 1 \in 1..Len(x)
    BY <1>2, <1>3, <1>5, <1>10
  <2>2. QED BY <1>10, <2>1, ElementOfSeq
<1>13. /\ y \in Seq(V) /\ Len(y) = l + 1 /\ y[1] = x[1]
       /\ \A k \in 1..l : y[k + 1] = D[k]
  <2>1. h \in Seq(V) /\ Len(h) = 1 /\ h[1] = x[1]
    BY <1>3, <1>10, <1>11, <1>12
  <2>2. /\ y \in Seq(V) /\ Len(y) = Len(h) + Len(D)
        /\ (\A k \in 1..Len(h) : y[k] = h[k]) /\ \A k \in 1..Len(D) : y[Len(h) + k] = D[k]
    BY <1>8, <1>11, <2>1, Joined2
  <2>3. 1 \in 1..Len(h) /\ \A k \in 1..l : 1 + k = k + 1
    BY <1>2, <1>3, <1>6, <1>7, <2>1
  <2>4. l \in Nat
    BY <1>3a, <1>6, <1>7, SMTT(30)
  <2>5. QED BY <1>8, <2>1, <2>2, <2>3, <2>4
<1>14. /\ l \in Nat /\ l = e - 1 - o - s /\ \A k \in 2 .. l + 1 : first + (k - 1) - 1 - o = s + k - 1
  BY <1>3a, <1>6, <1>7, SMTT(30)
<1>14a. /\ j \in Int /\ s <= j /\ j <= m /\ Len(x) = j - s + 1 /\ Len(y) = l + 1
        /\ (l = j - s \/ (j = m /\ l = m + 1 - s))
  <2>1. l = e - 1 - o - s
    BY <1>14
  <2>2. l = j - s \/ (j = m /\ l = m + 1 - s)
    BY <1>3a, <1>4, <2>1
  <2>3. j \in Int /\ s <= j /\ j <= m
    BY <1>3a, <1>5
  <2>4. QED BY <1>10, <1>13, <2>2, <2>3
<1>14b. l \in Int /\ 0 <= l /\ l = e - 1 - o - s
  BY <1>14
<1>15. ASSUME NEW k \in 2 .. l + 1
       PROVE  y[k] = IF s + k - 1 <= m THEN A[s + k - 1] ELSE <<>>
  <2>1. k - 1 \in 1..l /\ (k - 1) + 1 = k
    BY <1>14
  <2>2. y[k] = D[k - 1]
    BY <1>13, <2>1
  <2>3. QED BY <1>8, <1>14, <2>1, <2>2
<1>16. Len(x) <= Len(y) /\ Len(x) \in Nat /\ Len(y) \in Nat
  <2>1. j - s + 1 \in Nat /\ l + 1 \in Nat
    BY <1>14a, <1>14b
  <2>2. j - s + 1 <= l + 1
    <3>1. CASE l = j - s
      BY <1>14b, <3>1
    <3>2. CASE l = m + 1 - s /\ j = m
      BY <1>14b, <3>2, SMTT(30)
    <3>3. QED BY <1>14a, <3>1, <3>2
  <2>3. QED BY <1>14a, <2>1, <2>2
<1>17. ASSUME NEW k \in 1..Len(x) PROVE y[k] = x[k]
  <2>1. CASE k = 1
    BY <1>13, <2>1
  <2>2. CASE k # 1
    <3>1. k \in 2 .. l + 1 /\ k \in 2 .. j - s + 1 /\ s + k - 1 <= m
      <4>1. k \in Int /\ 2 <= k /\ k <= j - s + 1
        BY <1>3a, <1>14a, <2>2
      <4>2. s + k - 1 <= m
        BY <1>14a, <4>1
      <4>3. k <= l + 1
        BY <1>14a, <1>16, <4>1
      <4>4. QED BY <1>14a, <1>14b, <4>1, <4>2, <4>3
    <3>2. QED BY <1>10, <1>15, <3>1
  <2>3. QED BY <2>1, <2>2
<1>18. ASSUME NEW k \in Len(x) + 1 .. Len(y) PROVE Blank(y[k])
  <2>1. k \in 2 .. l + 1 /\ ~(s + k - 1 <= m)
    <3>1. k \in Int /\ j - s + 2 <= k /\ k <= l + 1
      BY <1>3a, <1>14a, <1>14b, SMTT(30)
    <3>2. k \in 2 .. l + 1
      BY <1>14a, <1>14b, <3>1, SMTT(30)
    <3>3. CASE l = j - s
      BY <1>14a, <3>1, <3>3
    <3>4. CASE l = m + 1 - s /\ j = m
      BY <3>1, <3>2, <3>4, SMTT(30)
    <3>5. QED BY <1>14a, <3>3, <3>4
  <2>2. QED BY <1>15, <2>1, NothingIsBlank
<1>19. Finish(y) = Finish(x)
  BY <1>10, <1>13, <1>16, <1>17, <1>18, FinishSame
<1>20. Slice(L, o + s, e) = Finish(y)
  BY <1>6, <1>7, <1>11 DEF Slice
<1>21. QED BY <1>5, <1>9, <1>19, <1>20

\* The first line that ends a reply, when the status line does.
LEMMA FirstEnd ==
  ASSUME NEW o \in Nat, NEW m \in Nat, NEW s \in Nat, s \in 1..m,
         NEW E, E \subseteq o + s + 1 .. o + m + 4, o + m + 2 \in E, o + m + 1 \notin E,
         NEW e, e = Min(E \cup {o + m + 5})
  PROVE  /\ e \in Nat /\ EndsIn(e, o, s, m)
         /\ (\A i \in E : ~(i <= o + m)) => e = o + m + 2
<1>1. PICK S, z : S = E \cup {o + m + 5} /\ z = o + m + 5
  OBVIOUS
<1>2. z \in Nat /\ S \in SUBSET (0..z) /\ S # {}
  <2>1. \A i \in E : i \in 0..z
    BY <1>1
  <2>2. z \in 0..z
    BY <1>1
  <2>3. QED BY <1>1, <2>1, <2>2
<1>3. e \in S /\ \A i \in S : e <= i
  BY <1>1, <1>2, MinMax, SMTT(30)
<1>4. o + m + 2 \in S /\ e <= o + m + 2 /\ e \in Int
  BY <1>1, <1>2, <1>3
<1>5. e \in E
  BY <1>1, <1>3, <1>4
<1>6. e \in o + s + 1 .. o + m + 4
  BY <1>5
<1>7. e \in Nat /\ EndsIn(e, o, s, m)
  BY <1>4, <1>5, <1>6 DEF EndsIn
<1>8. ASSUME \A i \in E : ~(i <= o + m) PROVE e = o + m + 2
  <2>1. ~(e <= o + m) /\ e # o + m + 1
    BY <1>5, <1>8
  <2>2. QED BY <1>4, <2>1
<1>9. QED BY <1>7, <1>8

\* With a bullet on the screen the reply is lines of the answer, all of them if clean.
LEMMA AnsweredSlice ==
  ASSUME NEW L, NEW A, NEW o, NEW p \in {"claude", "codex"}, Answered(L, A, p, o)
  PROVE  \E i \in 1..Len(A) : \E j \in i..Len(A) :
            /\ ExtractForTarget(p, L) = Finish(SliceOf(A, i, j))
            /\ Clean(A) => i = 1 /\ j = Len(A)
<1>1. PICK m, n, s : m = Len(A) /\ n = Len(L) /\ s = LastBulletOf(A)
  OBVIOUS
<1>2. /\ Below(L, A, p, o, 2) /\ A \in Seq(AnswerRows) /\ m \in Nat /\ o \in Nat /\ n = o + m + 4
      /\ \A k \in 2..m : L[o + k] = Indented(A[k])
  BY <1>1 DEF Answered, Below
<1>3. /\ s \in 1..m /\ (Clean(A) => s = 1) /\ s \in Nat
      /\ Bullets(L) # {} /\ Max(Bullets(L)) = o + s
  <2>1. /\ s \in 1..Len(A) /\ (Clean(A) => s = 1)
        /\ Bullets(L) # {} /\ Max(Bullets(L)) = o + s
    BY <1>1, LastBulletIs
  <2>2. QED BY <1>1, <2>1
<1>4. o + m + 2 \in o + s + 1 .. n /\ o + m + 1 # o + m + 2 /\ n + 1 = o + m + 5
  BY <1>2, <1>3
<1>5. /\ ~Blank(L[o + m + 2]) /\ Blank(L[o + m + 1])
      /\ (p = "claude" => ClaudeChrome(L[o + m + 2])) /\ (p = "codex" => CodexChrome(L[o + m + 2]))
  <2>1. o + m + 2 \in o + Len(A) + 1 .. Len(L) /\ o + m + 1 \in o + Len(A) + 1 .. Len(L)
    BY <1>1, <1>2
  <2>2. /\ Blank(L[o + m + 2]) <=> o + m + 2 = o + Len(A) + 1
        /\ ~Blank(L[o + m + 2]) /\ p = "claude" => ClaudeChrome(L[o + m + 2])
        /\ p = "codex" /\ o + m + 2 = o + Len(A) + 2 => CodexChrome(L[o + m + 2])
    BY <1>2, <2>1, ChromeBelow
  <2>3. Blank(L[o + m + 1]) <=> o + m + 1 = o + Len(A) + 1
    BY <1>2, <2>1, ChromeBelow
  <2>4. QED BY <1>1, <1>4, <2>2, <2>3
<1>6. \A k \in 1..m : A[k] \in AnswerRows
  BY <1>1, <1>2, ElementOfSeq
<1>7. ASSUME Clean(A), NEW i \in o + s + 1 .. o + m, ~Blank(L[i])
      PROVE  /\ ~CodexChrome(L[i]) /\ ~(Indent(L[i]) < 2)
             /\ ~ClaudeChrome(L[i]) /\ ~ClaudeBanner(L[i])
  <2>1. PICK k : k = i - o
    OBVIOUS
  <2>2. k \in 2..m /\ k \in 1..m /\ i = o + k
    BY <1>2, <1>3, <2>1
  <2>3. A[k] \in AnswerRows /\ L[i] = Indented(A[k]) /\ ToSet(A[k]) \cap Unclean = {}
    BY <1>1, <1>2, <1>6, <1>7, <2>2 DEF Clean
  <2>4. A[k] # <<>>
    BY <1>7, <2>3, RowIs
  <2>5. QED BY <2>3, <2>4, PlainRow
<1> DEFINE Codex(i) == CodexChrome(L[i]) \/ Indent(L[i]) < 2
           Claude(i) == ClaudeChrome(L[i]) \/ ClaudeBanner(L[i])
           Stop(i) == IF p = "codex" THEN Codex(i) ELSE Claude(i)
           E == {i \in o + s + 1 .. n : ~Blank(L[i]) /\ Stop(i)}
<1>8. ExtractForTarget(p, L) = Slice(L, o + s, Min(E \cup {n + 1}))
  <2>1. CASE p = "codex"
    <3>1. ExtractForTarget(p, L) = ExtractCodex(L)
      BY <2>1 DEF ExtractForTarget
    <3>2. ExtractCodex(L) =
                Slice(L, o + s, Min({i \in o + s + 1 .. n : ~Blank(L[i]) /\ Codex(i)} \cup {n + 1}))
      BY <1>1, <1>3 DEF Slice, ExtractCodex, FromBullet, AnswerStart
    <3>3. QED BY <2>1, <3>1, <3>2
  <2>2. CASE p = "claude"
    <3>1. ExtractForTarget(p, L) = ExtractClaude(L)
      BY <2>2 DEF ExtractForTarget
    <3>2. ExtractClaude(L) =
                Slice(L, o + s, Min({i \in o + s + 1 .. n : ~Blank(L[i]) /\ Claude(i)} \cup {n + 1}))
      BY <1>1, <1>3 DEF Slice, ExtractClaude, FromBullet, AnswerStart
    <3>3. QED BY <2>2, <3>1, <3>2
  <2>3. QED BY <2>1, <2>2
<1>9. PICK e : e = Min(E \cup {n + 1})
  OBVIOUS
<1>10. /\ E \subseteq o + s + 1 .. o + m + 4 /\ o + m + 2 \in E /\ o + m + 1 \notin E
       /\ e = Min(E \cup {o + m + 5})
  BY <1>2, <1>4, <1>5, <1>9
<1>11. Clean(A) => \A i \in E : ~(i <= o + m)
  <2> SUFFICES ASSUME Clean(A), NEW i \in E, i <= o + m PROVE FALSE
    OBVIOUS
  <2>1. ~Blank(L[i]) /\ Stop(i) /\ i \in o + s + 1 .. o + m
    BY <1>2, <1>3
  <2>2. QED BY <1>7, <2>1
<1> HIDE DEF E
<1>12. /\ e \in Nat /\ EndsIn(e, o, s, m)
       /\ (\A i \in E : ~(i <= o + m)) => e = o + m + 2
  BY <1>2, <1>3, <1>10, FirstEnd
<1>13. PICK j \in s..m : Slice(L, o + s, e) = Finish(SliceOf(A, s, j)) /\ (e = o + m + 2 => j = m)
  <2>1. m = Len(A) /\ s = LastBulletOf(A) /\ EndsIn(e, o, s, m) /\ Answered(L, A, p, o)
    BY <1>1, <1>12
  <2>2. o \in Nat /\ m \in Nat /\ s \in Nat /\ e \in Nat
    BY <1>2, <1>3, <1>12
  <2>3. QED BY <2>1, <2>2, SliceBelow
<1>14. s \in 1..Len(A) /\ j \in s..Len(A)
  BY <1>1, <1>3
<1>15. Clean(A) => s = 1 /\ j = Len(A)
  BY <1>1, <1>3, <1>11, <1>12, <1>13
<1>16. QED BY <1>8, <1>9, <1>13, <1>14, <1>15

LEMMA RowsAreText ==
  ASSUME NEW A \in Seq(AnswerRows)
  PROVE  /\ A \in Seq(Seq(ScreenTokens)) /\ Len(A) \in Nat
         /\ \A k \in 1..Len(A) : A[k] \in AnswerRows
<1>1. Len(A) \in Nat /\ \A k \in 1..Len(A) : A[k] \in AnswerRows
  BY LenProperties, ElementOfSeq
<1>2. AnswerRows \subseteq Seq(ScreenTokens)
  BY RowIs
<1>3. QED BY <1>1, <1>2, SeqMonotonic

\* A clean answer says what it is.
LEMMA WholeSlice ==
  ASSUME NEW A \in Seq(AnswerRows), Clean(A), Len(A) >= 1
  PROVE  SliceOf(A, 1, Len(A)) = A
<1>1. PICK x, m, V : x = SliceOf(A, 1, m) /\ m = Len(A) /\ V = Seq(ScreenTokens)
  OBVIOUS
<1>2. A \in Seq(V) /\ m \in Nat /\ m >= 1 /\ \A k \in 1..m : A[k] \in AnswerRows
  BY <1>1, RowsAreText
<1>3. 1 \in 1..Len(A) /\ m \in 1..Len(A)
  BY <1>1, <1>2
<1>4. x \in Seq(V) /\ Len(x) = m - 1 + 1 /\ x[1] = Said(A[1]) /\ \A k \in 2 .. m - 1 + 1 : x[k] = A[1 + k - 1]
  BY <1>1, <1>3, SliceIs
<1>5. x[1] = A[1]
  <2>1. A[1] \in AnswerRows /\ ToSet(A[1]) \cap Unclean = {}
    BY <1>2, <1>3 DEF Clean
  <2>2. ~IsBullet(A[1])
    BY <2>1, PlainRow
  <2>3. QED BY <1>4, <2>2 DEF Said
<1>6. ASSUME NEW k \in 1..m PROVE x[k] = A[k]
  <2>1. CASE k = 1
    BY <1>5, <2>1
  <2>2. CASE k # 1
    <3>1. k \in 2 .. m - 1 + 1 /\ 1 + k - 1 = k
      BY <1>2, <2>2
    <3>2. QED BY <1>4, <3>1
  <2>3. QED BY <2>1, <2>2
<1>7. Len(x) = Len(A) /\ \A k \in 1..Len(x) : x[k] = A[k]
  BY <1>1, <1>2, <1>4, <1>6
<1>8. x = A
  BY <1>2, <1>4, <1>7, SameItems
<1>9. QED BY <1>1, <1>8

\* Without a bullet on the screen the reply of claude is lines of the answer.
LEMMA ScrolledSlice ==
  ASSUME NEW L, NEW A, NEW p, Scrolled(L, A, p)
  PROVE  /\ Bullets(L) = {}
         /\ p = "claude" =>
               /\ AboveChrome(L) # None => \E i \in 1..Len(A) : \E j \in i..Len(A) :
                                              AboveChrome(L) = Finish(SliceOf(A, i, j))
               /\ Clean(A) => AboveChrome(L) = Finish(A)
<1>1. PICK m, n, V : m = Len(A) /\ n = Len(L) /\ V = Seq(ScreenTokens)
  OBVIOUS
<1>2. /\ Below(L, A, p, 0, 1) /\ L \in Seq(Row) /\ A \in Seq(AnswerRows)
      /\ n = m + 4 /\ \A k \in 1..m : L[k] = Indented(A[k])
  <2>1. Below(L, A, p, 0, 1)
    BY DEF Scrolled
  <2>2. /\ L \in Seq(Row) /\ A \in Seq(AnswerRows) /\ Len(A) \in Nat
        /\ Len(L) = 0 + Len(A) + 4 /\ \A k \in 1..Len(A) : L[0 + k] = Indented(A[k])
    BY <2>1 DEF Below
  <2>3. \A k \in 1..Len(A) : 0 + k = k
    BY <2>2
  <2>4. QED BY <1>1, <2>1, <2>2, <2>3
<1>3. A \in Seq(V) /\ m \in Nat /\ \A k \in 1..m : A[k] \in AnswerRows
  BY <1>1, <1>2, RowsAreText
<1>4. \A k \in 1..m : ~IsBullet(A[k])
  <2>1. Bullets(A) = {k \in 1..m : IsBullet(A[k])}
    BY <1>1, <1>2, BulletsAre
  <2>2. QED BY <2>1 DEF Scrolled
<1>5. ASSUME NEW i \in m + 1 .. n
      PROVE  ~IsBullet(L[i]) /\ (~Blank(L[i]) /\ p = "claude" => ClaudeChrome(L[i]))
  <2>1. i \in 0 + Len(A) + 1 .. Len(L)
    BY <1>1, <1>3
  <2>2. QED BY <1>2, <2>1, ChromeBelow
<1>6. \A i \in 1..n : i \in 1..m \/ i \in m + 1 .. n
  BY <1>2, <1>3
<1>7. Bullets(L) = {}
  <2>1. Bullets(L) = {i \in 1..n : IsBullet(L[i])}
    BY <1>1, <1>2, BulletsAre
  <2>2. \A k \in 1..m : ~IsBullet(L[k])
    BY <1>2, <1>3, <1>4, RowIs
  <2>3. QED BY <1>5, <1>6, <2>1, <2>2
<1>8. ASSUME p = "claude"
      PROVE  /\ AboveChrome(L) # None => \E i \in 1..Len(A) : \E j \in i..Len(A) :
                                              AboveChrome(L) = Finish(SliceOf(A, i, j))
             /\ Clean(A) => AboveChrome(L) = Finish(A)
  <2>1. PICK K, last : K = {0} \cup {i \in DOMAIN L : ~Blank(L[i]) /\ ~ClaudeChrome(L[i])} /\ last = Max(K)
    OBVIOUS
  <2>2. K = {0} \cup {k \in 1..m : ~Blank(L[k]) /\ ~ClaudeChrome(L[k])}
    <3>1. DOMAIN L = 1..n
      BY <1>1, <1>2, LenProperties
    <3>2. \A k \in 1..m : k \in 1..n
      BY <1>2, <1>3
    <3>3. QED BY <1>5, <1>6, <1>8, <2>1, <3>1, <3>2
  <2>3. last \in 0..m /\ last \in K /\ \A i \in K : last >= i
    <3>1. K \in SUBSET (0..m) /\ K # {}
      BY <1>3, <2>2
    <3>2. QED BY <1>3, <2>1, <3>1, MinMax
  <2>4. PICK S, f : /\ S = {i \in 1..last : /\ ~Blank(L[i])
                                            /\ \/ ClaudeBanner(L[i])
                                               \/ "prompt" \in Starts(L[i])
                                               \/ Indent(L[i]) < 2}
                    /\ f = Max({0} \cup S)
    OBVIOUS
  <2>5. AboveChrome(L) = Finish(Dedented(L, f + 1, last))
    BY <2>1, <2>4 DEF AboveChrome
  <2>6. f \in 0..last /\ f \in {0} \cup S
    <3>1. PICK R : R = {0} \cup S
      OBVIOUS
    <3>2. R \in SUBSET (0..last) /\ R # {} /\ last \in Nat
      BY <2>3, <2>4, <3>1
    <3>3. Max(R) \in R
      BY <3>2, MinMax
    <3>4. QED BY <2>4, <3>1, <3>2, <3>3
  <2>7. PICK D : D = Dedented(L, f + 1, last)
    OBVIOUS
  <2>8. D \in Seq(V) /\ Len(D) = last - f /\ \A k \in 1 .. last - f : D[k] = A[f + k]
    <3>1. PICK first : first = f + 1
      OBVIOUS
    <3>2. first \in Int /\ last \in Int /\ 0 + 1 <= first /\ first - 1 <= last /\ last <= 0 + Len(A) + 1
      BY <1>1, <2>3, <2>6, <3>1
    <3>3. /\ D \in Seq(Seq(ScreenTokens)) /\ Len(D) = last - first + 1
          /\ \A k \in 1 .. last - first + 1 :
                D[k] = IF first + k - 1 - 0 <= Len(A) THEN A[first + k - 1 - 0] ELSE <<>>
      <4>1. D = Dedented(L, first, last)
        BY <2>7, <3>1
      <4>2. Within(A, 0, 1, first, last)
        BY <3>2 DEF Within
      <4>3. Stretch(D, A, 0, first, last)
        BY <1>2, <4>1, <4>2, DedentedIs
      <4>4. QED BY <4>3 DEF Stretch
    <3>4. last - first + 1 = last - f
      BY <2>3, <2>6, <3>1
    <3>5. \A k \in 1 .. last - f : first + k - 1 - 0 = f + k /\ f + k <= m
      BY <1>3, <2>3, <2>6, <3>1
    <3>6. QED BY <1>1, <3>3, <3>4, <3>5
  <2>9. ASSUME f = last PROVE AboveChrome(L) = None
    <3>1. Len(D) = 0 /\ DOMAIN D = 1..Len(D)
      BY <2>3, <2>8, <2>9, LenProperties
    <3>2. {k \in DOMAIN D : ~Blank(D[k])} = {}
      BY <3>1
    <3>3. Finish(D) = None
      BY <3>2 DEF Finish
    <3>4. QED BY <2>5, <2>7, <3>3
  <2>10. ASSUME f # last
         PROVE  \E i \in 1..Len(A) : \E j \in i..Len(A) : AboveChrome(L) = Finish(SliceOf(A, i, j))
    <3>1. PICK i, x : i = f + 1 /\ x = SliceOf(A, i, last)
      OBVIOUS
    <3>2. i \in 1..Len(A) /\ last \in i..Len(A) /\ i \in 1..m /\ last - i + 1 = last - f
      BY <1>1, <1>3, <2>3, <2>6, <2>10, <3>1
    <3>3. x \in Seq(V) /\ Len(x) = last - f /\ x[1] = Said(A[i]) /\ \A k \in 2 .. last - f : x[k] = A[i + k - 1]
      <4>1. /\ x \in Seq(V) /\ Len(x) = last - i + 1 /\ x[1] = Said(A[i])
            /\ \A k \in 2 .. last - i + 1 : x[k] = A[i + k - 1]
        BY <1>1, <1>2, <3>1, <3>2, SliceIs
      <4>2. QED BY <3>2, <4>1
    <3>4. x[1] = A[f + 1]
      BY <1>4, <3>1, <3>2, <3>3 DEF Said
    <3>5. ASSUME NEW k \in 1 .. last - f PROVE x[k] = A[f + k]
      <4>1. CASE k = 1
        BY <3>4, <4>1
      <4>2. CASE k # 1
        <5>1. k \in 2 .. last - f /\ i + k - 1 = f + k
          BY <2>3, <2>6, <3>1, <4>2
        <5>2. QED BY <3>3, <5>1
      <4>3. QED BY <4>1, <4>2
    <3>6. Len(x) = Len(D) /\ \A k \in 1..Len(x) : x[k] = D[k]
      BY <2>8, <3>3, <3>5
    <3>7. x = D
      BY <2>8, <3>3, <3>6, SameItems
    <3>8. AboveChrome(L) = Finish(SliceOf(A, i, last))
      BY <2>5, <2>7, <3>1, <3>7
    <3>9. QED BY <3>2, <3>8
  <2>11. ASSUME Clean(A) PROVE Finish(A) = Finish(D)
    <3>1. ASSUME NEW k \in 1..m, ~Blank(L[k])
          PROVE  /\ ~ClaudeChrome(L[k]) /\ ~ClaudeBanner(L[k])
                 /\ "prompt" \notin Starts(L[k]) /\ ~(Indent(L[k]) < 2)
      <4>1. A[k] \in AnswerRows /\ L[k] = Indented(A[k]) /\ ToSet(A[k]) \cap Unclean = {}
        BY <1>1, <1>2, <1>3, <2>11 DEF Clean
      <4>2. A[k] # <<>>
        BY <3>1, <4>1, RowIs
      <4>3. QED BY <4>1, <4>2, PlainRow
    <3>2. f = 0
      <4>1. \A k \in 1..last : k \in 1..m
        BY <1>3, <2>3
      <4>2. S = {}
        BY <2>4, <3>1, <4>1
      <4>3. QED BY <2>6, <4>2
    <3>3. Len(D) = last /\ Len(D) <= Len(A)
      BY <1>1, <1>3, <2>3, <2>8, <3>2
    <3>4. \A k \in 1..Len(D) : A[k] = D[k]
      <4>1. \A k \in 1..last : k \in 1 .. last - f /\ f + k = k
        BY <2>3, <3>2
      <4>2. QED BY <2>8, <3>3, <4>1
    <3>5. ASSUME NEW k \in Len(D) + 1 .. Len(A) PROVE Blank(A[k])
      <4>1. k \in 1..m /\ ~(last >= k)
        BY <1>1, <1>3, <2>3, <3>3
      <4>2. Blank(L[k])
        BY <2>2, <2>3, <3>1, <4>1
      <4>3. A[k] = <<>>
        BY <1>2, <1>3, <4>1, <4>2, RowIs
      <4>4. QED BY <4>3, NothingIsBlank
    <3>6. QED BY <1>3, <2>8, <3>3, <3>4, <3>5, FinishSame
  <2>12. QED BY <2>5, <2>7, <2>9, <2>10, <2>11
<1>9. QED BY <1>7, <1>8

\* Without fences on the screen the reply is the slice, if it looks clean.
LEMMA Chosen ==
  ASSUME NEW text, ExtractBetween(text) = None, NEW x, x = ExtractForTarget(program, LinesOf(text))
  PROVE  ChooseReply(text) = IF x # None /\ LooksClean(x[1]) THEN x ELSE None
<1>1. CASE x = None
  BY <1>1 DEF ChooseReply
<1>2. CASE x # None
  BY <1>2 DEF ChooseReply
<1>3. QED BY <1>1, <1>2

\* A screen without lines has no reply.
LEMMA NothingDrawn ==
  /\ LinesOf(<<>>) = <<>> /\ <<>> \in Seq(Row) /\ Bullets(<<>>) = {}
  /\ AboveChrome(<<>>) = None /\ Finish(<<>>) = None
<1>1. PICK x : x = <<>>
  OBVIOUS
<1>2. x \in Seq(Row) /\ x \in Seq(ScreenTokens) /\ Len(x) = 0 /\ DOMAIN x = {}
  BY <1>1
<1>3. LinesOf(x) = x
  <2>1. LineEnds(x) = {}
    BY <1>1, <1>2 DEF LineEnds
  <2>2. PICK f \in [0 .. Len(x) + 1 -> Seq({})] : LinesUpTo(f, x) /\ LinesOf(x) = f[Len(x) + 1]
    BY <1>2, <2>1, LinesAre
  <2>3. 1 \in 1 .. Len(x) + 1 /\ Len(x) + 1 = 1 /\ 1 - 1 = 0
    BY <1>2
  <2>4. f[0] = <<>> /\ f[1] = f[0]
    BY <2>1, <2>2, <2>3 DEF LinesUpTo
  <2>5. QED BY <1>1, <2>2, <2>3, <2>4
<1>4. Bullets(x) = {}
  BY <1>2 DEF Bullets
<1>5. Finish(x) = None
  BY <1>2 DEF Finish
<1>6. AboveChrome(x) = None
  <2>1. PICK K, last : K = {0} \cup {i \in DOMAIN x : ~Blank(x[i]) /\ ~ClaudeChrome(x[i])} /\ last = Max(K)
    OBVIOUS
  <2>2. last = 0
    <3>1. K = {0} /\ K \in SUBSET (0..0) /\ 0 \in Nat
      BY <1>2, <2>1
    <3>2. Max(K) \in K
      BY <3>1, MinMax
    <3>3. QED BY <2>1, <3>1, <3>2
  <2>3. PICK R, f : /\ R = {0} \cup {i \in 1..last : /\ ~Blank(x[i])
                                                     /\ \/ ClaudeBanner(x[i])
                                                        \/ "prompt" \in Starts(x[i])
                                                        \/ Indent(x[i]) < 2}
                    /\ f = Max(R)
    OBVIOUS
  <2>4. f = 0
    <3>1. R = {0} /\ R \in SUBSET (0..0) /\ 0 \in Nat
      BY <2>2, <2>3
    <3>2. Max(R) \in R
      BY <3>1, MinMax
    <3>3. QED BY <2>3, <3>1, <3>2
  <2>5. AboveChrome(x) = Finish(Dedented(x, f + 1, last))
    BY <2>1, <2>3 DEF AboveChrome
  <2>6. PICK D : D = Dedented(x, f + 1, last)
    OBVIOUS
  <2>7. DOMAIN D = {}
    <3>1. 1 .. last - (f + 1) + 1 = {}
      BY <2>2, <2>4
    <3>2. QED BY <2>6, <3>1 DEF Dedented
  <2>8. Finish(D) = None
    BY <2>7 DEF Finish
  <2>9. QED BY <2>5, <2>6, <2>8
<1>7. QED BY <1>1, <1>2, <1>3, <1>4, <1>5, <1>6

\* What SliceIsLastAnswer needs: the screen ends with the last answer, with its bullet and
\* the chrome below it, or with what is left of it below the last bullet.
SliceInv ==
    program # "unknown" =>
        /\ screen \in Seq(ScreenTokens) /\ Closed(screen) /\ LinesOf(screen) \in Seq(Row)
        /\ drawn \in Seq(Seq(AnswerRows))
        /\ IF drawn = <<>> THEN screen = <<>>
           ELSE \/ \E o \in Nat : Answered(LinesOf(screen), Last(drawn), program, o)
                \/ Scrolled(LinesOf(screen), Last(drawn), program)

\* What the structural fallback may yield for an answer A on a screen of lines L.
Yielded(x, L, A, p) ==
    /\ x # None => \E i, j \in DOMAIN A : x = Finish(SliceOf(A, i, j))
    /\ Clean(A) /\ (p = "claude" \/ Bullets(L) # {}) => x = Finish(A)

LEMMA SliceYields ==
  ASSUME NEW p \in {"claude", "codex"}, NEW L, NEW A \in Seq(AnswerRows),
         (\E o \in Nat : Answered(L, A, p, o)) \/ Scrolled(L, A, p)
         \/ (L = <<>> /\ A = <<>>)
  PROVE  Yielded(ExtractForTarget(p, L), L, A, p)
<1>1. DOMAIN A = 1..Len(A) /\ Len(A) \in Nat
  BY LenProperties
<1>2. \A i \in 1..Len(A) : \A j \in i..Len(A) : j \in DOMAIN A
  BY <1>1
<1>3. CASE \E o \in Nat : Answered(L, A, p, o)
  <2>1. PICK o \in Nat : Answered(L, A, p, o)
    BY <1>3
  <2>2. PICK i \in 1..Len(A) : \E j \in i..Len(A) :
               /\ ExtractForTarget(p, L) = Finish(SliceOf(A, i, j))
               /\ Clean(A) => i = 1 /\ j = Len(A)
    BY <2>1, AnsweredSlice
  <2>3. PICK j \in i..Len(A) : /\ ExtractForTarget(p, L) = Finish(SliceOf(A, i, j))
                               /\ Clean(A) => i = 1 /\ j = Len(A)
    BY <2>2
  <2>4. i \in DOMAIN A /\ j \in DOMAIN A
    BY <1>1, <1>2
  <2>5. Clean(A) => SliceOf(A, i, j) = A
    <3>1. Len(A) >= 1
      BY <2>1 DEF Answered
    <3>2. QED BY <2>3, <3>1, WholeSlice
  <2>6. QED BY <2>3, <2>4, <2>5 DEF Yielded
<1>4. ASSUME ~(p = "claude"), Bullets(L) = {} PROVE Yielded(ExtractForTarget(p, L), L, A, p)
  <2>1. ExtractForTarget(p, L) = None
    BY <1>4 DEF ExtractForTarget, ExtractCodex
  <2>2. QED BY <1>4, <2>1 DEF Yielded
<1>5. ASSUME p = "claude", Bullets(L) = {} PROVE ExtractForTarget(p, L) = AboveChrome(L)
  BY <1>5 DEF ExtractForTarget, ExtractClaude
<1>6. CASE Scrolled(L, A, p)
  <2>1. Bullets(L) = {}
    BY <1>6, ScrolledSlice
  <2>2. CASE p = "claude"
    <3>1. /\ AboveChrome(L) # None => \E i \in 1..Len(A) : \E j \in i..Len(A) :
                                          AboveChrome(L) = Finish(SliceOf(A, i, j))
          /\ Clean(A) => AboveChrome(L) = Finish(A)
      BY <1>6, <2>2, ScrolledSlice
    <3>2. AboveChrome(L) # None => \E i, j \in DOMAIN A : AboveChrome(L) = Finish(SliceOf(A, i, j))
      BY <1>1, <1>2, <3>1
    <3>3. QED BY <1>5, <2>1, <2>2, <3>1, <3>2 DEF Yielded
  <2>3. QED BY <1>4, <2>1, <2>2
<1>7. CASE L = <<>> /\ A = <<>>
  <2>1. Bullets(L) = {} /\ AboveChrome(L) = None /\ Finish(A) = None
    BY <1>7, NothingDrawn
  <2>2. CASE p = "claude"
    BY <1>5, <2>1, <2>2 DEF Yielded
  <2>3. QED BY <1>4, <2>1, <2>2
<1>8. QED BY <1>3, <1>6, <1>7

LEMMA SliceAgrees == ScreenInv /\ SliceInv => SliceIsLastAnswer
<1> SUFFICES ASSUME ScreenInv, SliceInv, program # "unknown" PROVE SliceIsLastAnswer
  BY DEF SliceIsLastAnswer
<1>1. program \in {"claude", "codex"} /\ ExtractBetween(screen) = None
  BY ChatUnfenced DEF ScreenInv
<1>2. PICK A, L, x : /\ A = IF drawn = <<>> THEN <<>> ELSE Last(drawn)
                     /\ L = LinesOf(screen) /\ x = ExtractForTarget(program, L)
  OBVIOUS
<1>3. A \in Seq(AnswerRows)
  <2>1. CASE drawn = <<>>
    BY <1>2, <2>1
  <2>2. CASE drawn # <<>>
    <3>1. drawn \in Seq(Seq(AnswerRows))
      BY DEF SliceInv
    <3>2. Last(drawn) \in Seq(AnswerRows)
      BY <2>2, <3>1, FrontLast
    <3>3. QED BY <1>2, <2>2, <3>2
  <2>3. QED BY <2>1, <2>2
<1>4. Yielded(x, L, A, program)
  <2>1. (\E o \in Nat : Answered(L, A, program, o)) \/ Scrolled(L, A, program) \/ (L = <<>> /\ A = <<>>)
    BY <1>2, NothingDrawn DEF SliceInv
  <2>2. QED BY <1>1, <1>2, <1>3, <2>1, SliceYields
<1>5. ChooseReply(screen) = IF x # None /\ LooksClean(x[1]) THEN x ELSE None
  BY <1>1, <1>2, Chosen
<1> DEFINE Text(i) == IF Bullets(<<A[i]>>) = {} THEN A[i] ELSE BulletText(A[i])
           Lines(i, j) == [k \in 1 .. j - i + 1 |-> IF k = 1 THEN Text(i) ELSE A[i + k - 1]]
<1>6. \A i, j : Lines(i, j) = SliceOf(A, i, j)
  <2>1. ASSUME NEW y PROVE Bullets(<<y>>) = {} <=> ~IsBullet(y)
    <3>1. PICK s : s = <<y>>
      OBVIOUS
    <3>2. s \in Seq({y}) /\ Len(s) = 1 /\ s[1] = y
      BY <3>1
    <3>3. Bullets(s) = {i \in 1..1 : IsBullet(s[i])}
      BY <3>2, BulletsAre
    <3>4. \A i \in 1..1 : i = 1
      OBVIOUS
    <3>5. QED BY <3>1, <3>2, <3>3, <3>4
  <2>2. \A i : Text(i) = Said(A[i])
    BY <2>1 DEF Said
  <2> HIDE DEF Text
  <2>3. QED BY <2>2 DEF SliceOf
<1> DEFINE plain == ToSet(Join(A)) \cap Unclean = {}
<1>7. plain => Clean(A)
  <2>1. PICK V : V = Seq(ScreenTokens)
    OBVIOUS
  <2>2. A \in Seq(V) /\ "nl" \in ScreenTokens
    BY <1>3, <2>1, RowsAreText, CharactersAre DEF ScreenTokens
  <2>3. \A i \in 1..Len(A) : ToSet(A[i]) \subseteq ToSet(Join(A))
    BY <2>1, <2>2, JoinTokens
  <2>4. QED BY <2>3 DEF Clean
<1>8. ChooseReply(screen) # None => \E i, j \in DOMAIN A : ChooseReply(screen) = Finish(Lines(i, j))
  <2>1. SUFFICES ASSUME ChooseReply(screen) # None
                 PROVE  \E i, j \in DOMAIN A : ChooseReply(screen) = Finish(Lines(i, j))
    OBVIOUS
  <2>2. ChooseReply(screen) = x /\ x # None
    BY <1>5, <2>1
  <2>3. PICK i, j \in DOMAIN A : x = Finish(SliceOf(A, i, j))
    BY <1>4, <2>2 DEF Yielded
  <2> HIDE DEF Lines
  <2>4. QED BY <1>6, <2>2, <2>3
<1>9. plain /\ (program = "claude" \/ Bullets(LinesOf(screen)) # {}) => ChooseReply(screen) = Finish(A)
  <2>1. SUFFICES ASSUME plain, program = "claude" \/ Bullets(LinesOf(screen)) # {}
                 PROVE  ChooseReply(screen) = Finish(A)
    OBVIOUS
  <2>2. Clean(A) /\ x = Finish(A)
    BY <1>2, <1>4, <1>7, <2>1 DEF Yielded
  <2>3. x = None \/ LooksClean(x[1])
    <3>1. PICK V : V = Seq(ScreenTokens)
      OBVIOUS
    <3>2. A \in Seq(V) /\ "nl" \in ScreenTokens
      BY <1>3, <3>1, RowsAreText, CharactersAre DEF ScreenTokens
    <3>3. \A i \in 1..Len(A) : ToSet(A[i]) \cap Unclean = {}
      BY <2>2 DEF Clean
    <3>4. Finish(A) = None \/ LooksClean(Finish(A)[1])
      BY <3>1, <3>2, <3>3, FinishClean
    <3>5. QED BY <2>2, <3>4
  <2>4. QED BY <1>5, <2>2, <2>3
<1>10. QED BY <1>2, <1>8, <1>9 DEF SliceIsLastAnswer

LEMMA WordedRows ==
  ASSUME NEW answer \in AnswerTexts
  PROVE  /\ Worded(answer) \in Seq(AnswerRows) /\ Len(Worded(answer)) >= 1
         /\ \E c \in {"a", "b"} : Worded(answer)[1] = <<c>>
<1>1. PICK w, m : w = Worded(answer) /\ m = Len(w)
  OBVIOUS
<1>2. w \in Seq(Plain) /\ m >= 1 /\ m \in Nat /\ DOMAIN w = 1..m /\ \A k \in 1..m : w[k] \in Plain
  BY <1>1, WordedIs, LenProperties, ElementOfSeq
<1>3. PICK letter : letter = IF "a" \in ToSet(screen) THEN "b" ELSE "a"
  OBVIOUS
<1> DEFINE In(line) == [i \in DOMAIN line |-> IF line[i] = "text" THEN letter ELSE line[i]]
<1>4. w = [k \in DOMAIN answer |-> In(answer[k])]
  BY <1>1, <1>3 DEF Worded
<1>5. letter \in {"a", "b"} /\ letter \notin Blanks
  BY <1>3 DEF Blanks
<1>6. PICK n \in 0 .. MaxRows - 1 : \E ls \in [1..n -> AnswerLines] : answer = << <<"text">> >> \o ls
  BY DEF AnswerTexts
<1>7. PICK ls \in [1..n -> AnswerLines] : answer = << <<"text">> >> \o ls
  BY <1>6
<1>8. /\ answer[1] = <<"text">> /\ \A k \in 2..m : answer[k] \in AnswerLines
      /\ DOMAIN answer = 1..m
  <2>1. PICK V, h : V = Seq(Words) /\ h = << <<"text">> >>
    OBVIOUS
  <2>2. AnswerLines \subseteq V /\ MaxRows \in Nat /\ <<"text">> \in V
    BY <2>1, ExtractAssumption DEF ExtractAssumption, Words
  <2>3. n \in Nat /\ ls \in [1..n -> V]
    BY <2>2
  <2>4. ls \in Seq(V) /\ Len(ls) = n
    <3>1. ls \in Seq(V)
      BY <2>3, SeqDef
    <3>2. QED BY <2>3, <3>1, LenProperties
  <2>5. h \in Seq(V) /\ Len(h) = 1 /\ h[1] = <<"text">>
    BY <2>1, <2>2
  <2>6. /\ answer \in Seq(V) /\ Len(answer) = Len(h) + Len(ls)
        /\ (\A i \in 1..Len(h) : answer[i] = h[i])
        /\ \A i \in 1..Len(ls) : answer[Len(h) + i] = ls[i]
    BY <1>7, <2>1, <2>4, <2>5, Joined2
  <2>7. DOMAIN answer = 1 .. n + 1 /\ DOMAIN answer = DOMAIN w
    BY <1>4, <2>3, <2>4, <2>5, <2>6, LenProperties
  <2>8. answer[1] = <<"text">>
    <3>1. 1 \in 1..Len(h)
      BY <2>5
    <3>2. QED BY <2>5, <2>6, <3>1
  <2>9. ASSUME NEW k \in 2 .. n + 1 PROVE answer[k] \in AnswerLines
    <3>1. k - 1 \in 1..n /\ 1 + (k - 1) = k
      BY <2>3
    <3>2. QED BY <1>7, <2>4, <2>5, <2>6, <3>1
  <2>10. m = n + 1
    <3>1. m \in 1..m /\ n + 1 \in 1 .. n + 1
      BY <1>2, <2>3
    <3>2. 1..m = 1 .. n + 1
      BY <1>2, <2>7
    <3>3. QED BY <1>2, <2>3, <3>1, <3>2
  <2>11. QED BY <2>7, <2>8, <2>9, <2>10
<1>9. w[1] = <<letter>>
  <2>1. PICK x : x = <<"text">>
    OBVIOUS
  <2>2. DOMAIN x = 1..1 /\ x[1] = "text"
    BY <2>1
  <2>3. In(x) = [i \in 1..1 |-> letter]
    BY <2>2
  <2>4. PICK y : y = <<letter>>
    OBVIOUS
  <2>5. y \in Seq({letter}) /\ Len(y) = 1 /\ y[1] = letter
    BY <2>4
  <2>6. In(x) \in Seq({letter}) /\ Len(In(x)) = 1 /\ In(x)[1] = letter
    <3>1. In(x) \in [1..1 -> {letter}] /\ 1 \in Nat
      BY <2>3
    <3>2. In(x) \in Seq({letter})
      BY <3>1, SeqDef
    <3>3. QED BY <2>3, <3>1, <3>2, LenProperties
  <2>7. In(x) = y
    BY <2>5, <2>6, SameItems
  <2>8. 1 \in 1..m
    BY <1>2
  <2>9. QED BY <1>4, <1>8, <2>1, <2>4, <2>7, <2>8
<1>10. ASSUME NEW k \in 1..m PROVE w[k] \in AnswerRows
  <2>1. w[k] \in Plain
    BY <1>2
  <2>2. CASE k = 1
    <3>1. ~Blank(w[k])
      <4>1. PICK y : y = w[1]
        OBVIOUS
      <4>2. y \in Seq({letter}) /\ Len(y) = 1 /\ y[1] = letter
        BY <1>9, <4>1
      <4>3. QED BY <1>5, <2>2, <4>1, <4>2, BlankIs
    <3>2. QED BY <2>1, <3>1 DEF AnswerRows
  <2>3. CASE k # 1
    <3>1. PICK x : x = answer[k]
      OBVIOUS
    <3>2. x \in AnswerLines /\ w[k] = In(x)
      BY <1>2, <1>4, <1>8, <2>3, <3>1
    <3>3. x \in Seq(Words) /\ (Blank(x) => x = <<>>)
      BY <3>2, ExtractAssumption, RowsAreTrimmed DEF ExtractAssumption
    <3>4. PICK y : y = w[k]
      OBVIOUS
    <3>5. DOMAIN x = 1..Len(x) /\ Len(x) \in Nat /\ y \in Seq(Words \cup {"a", "b"})
      BY <2>1, <3>3, <3>4, LenProperties DEF Plain
    <3>6. DOMAIN y = 1..Len(x) /\ Len(y) = Len(x)
          /\ \A i \in 1..Len(x) : y[i] = IF x[i] = "text" THEN letter ELSE x[i]
      <4>1. DOMAIN y = 1..Len(x) /\ \A i \in 1..Len(x) : y[i] = IF x[i] = "text" THEN letter ELSE x[i]
        BY <3>2, <3>4, <3>5
      <4>2. QED BY <3>5, <4>1, LenProperties
    <3>7. Blank(y) => Blank(x)
      <4>1. Blank(y) <=> \A i \in 1..Len(y) : y[i] \in Blanks
        BY <3>5, BlankIs
      <4>2. Blank(x) <=> \A i \in 1..Len(x) : x[i] \in Blanks
        BY <3>3, BlankIs
      <4>3. QED BY <1>5, <3>6, <4>1, <4>2
    <3>8. Blank(y) => y = <<>>
      <4>1. x = <<>> => Len(x) = 0
        OBVIOUS
      <4>2. QED BY <3>3, <3>5, <3>6, <3>7, <4>1, EmptySeq
    <3>9. QED BY <2>1, <3>4, <3>8 DEF AnswerRows
  <2>4. QED BY <2>2, <2>3
<1>11. w \in Seq(AnswerRows)
  <2>1. w \in [1..m -> AnswerRows]
    <3>1. w = [k \in DOMAIN w |-> w[k]]
      BY <1>4
    <3>2. QED BY <1>2, <1>10, <3>1
  <2>2. QED BY <1>2, <2>1, SeqDef
<1>12. QED BY <1>1, <1>2, <1>5, <1>9, <1>11

\* What Draw puts on the screen: the prompt with the answer's first line, the others, the
\* chrome and the start of the line below it.
TurnTop(w) == << <<"prompt", "sp", "n", "sp", "B">> \o <<"sp", "n">>,
                 <<"sp", "sp", "n", "sp", "E", "sp", "n">>, <<>>, <<"dot", "sp">> \o w[1] >>
TurnRest(w) == [k \in 1 .. Len(w) - 1 |->
                  IF w[k + 1] = <<>> THEN <<>> ELSE <<"sp", "sp">> \o w[k + 1]]
TurnLow(p) == << <<>>, IF p = "claude" THEN <<"mark">> ELSE <<"status">>, <<"rule">>,
                 <<"prompt">>, <<>> >>

LEMMA TurnLines ==
  ASSUME NEW p, NEW w \in Seq(AnswerRows), Len(w) >= 1, NEW c \in {"a", "b"}, w[1] = <<c>>
  PROVE  \E L \in Seq(Row) : /\ Answered(L, w, p, 3)
                             /\ TurnTop(w) \o TurnRest(w) \o TurnLow(p) = L \o << <<>> >>
<1>0. PICK top, rest, low : top = TurnTop(w) /\ rest = TurnRest(w) /\ low = TurnLow(p)
  OBVIOUS
<1>1. PICK m : m = Len(w)
  OBVIOUS
<1>2. m \in Nat /\ m >= 1 /\ \A k \in 1..m : w[k] \in AnswerRows
  BY <1>1, LenProperties, ElementOfSeq
<1>3. PICK T : T = ScreenTokens \ {"nl"}
  OBVIOUS
<1>4. Row = Seq(T) /\ {"prompt", "sp", "n", "B", "E", "dot", c} \subseteq T
  BY <1>3 DEF Row, ScreenTokens, Characters, Words
<1>5. /\ top \in Seq(Row) /\ Len(top) = 4 /\ top[4] = <<"dot", "sp">> \o <<c>>
  <2>1. PICK x, y, z, d : /\ x = <<"prompt", "sp", "n", "sp", "B">> \o <<"sp", "n">>
                          /\ y = <<"sp", "sp", "n", "sp", "E", "sp", "n">>
                          /\ z = <<>> /\ d = <<"dot", "sp">> \o <<c>>
    OBVIOUS
  <2>2. x \in Seq(T) /\ y \in Seq(T) /\ z \in Seq(T) /\ d \in Seq(T)
    <3>1. <<"prompt", "sp", "n", "sp", "B">> \in Seq(T) /\ <<"sp", "n">> \in Seq(T)
          /\ <<"dot", "sp">> \in Seq(T) /\ <<c>> \in Seq(T)
      BY <1>4
    <3>2. x \in Seq(T) /\ d \in Seq(T)
      BY <2>1, <3>1, Joined2
    <3>3. y \in Seq(T) /\ z \in Seq(T)
      BY <1>4, <2>1
    <3>4. QED BY <3>2, <3>3
  <2>3. top = <<x, y, z, d>>
    BY <1>0, <2>1 DEF TurnTop
  <2>4. QED BY <1>4, <2>1, <2>2, <2>3
<1>6. rest \in Seq(Row) /\ Len(rest) = m - 1 /\ \A k \in 1 .. m - 1 : rest[k] = Indented(w[k + 1])
  <2>1. rest = [k \in 1 .. m - 1 |-> Indented(w[k + 1])]
    BY <1>0, <1>1 DEF Indented, TurnRest
  <2>2. ASSUME NEW k \in 1 .. m - 1 PROVE Indented(w[k + 1]) \in Row
    <3>1. w[k + 1] \in AnswerRows
      BY <1>2
    <3>2. QED BY <3>1, RowIs
  <2>3. rest \in [1 .. m - 1 -> Row]
    BY <2>1, <2>2
  <2>4. rest \in Seq(Row) /\ Len(rest) = m - 1
    <3>1. PICK r, q : r = rest /\ q = m - 1
      OBVIOUS
    <3>2. r \in [1..q -> Row] /\ q \in Nat
      BY <1>2, <2>3, <3>1
    <3>3. r \in Seq(Row) /\ Len(r) = q
      BY <3>2, SeqDef, LenProperties
    <3>4. QED BY <3>1, <3>3
  <2>5. QED BY <2>1, <2>4
<1>7. PICK sign : sign = <<Sign(p)>>
  OBVIOUS
<1>8. sign = (IF p = "claude" THEN <<"mark">> ELSE <<"status">>)
  BY <1>7 DEF Sign
<1>9. sign \in Row /\ <<"rule">> \in Row /\ <<"prompt">> \in Row /\ <<>> \in Row
  <2>1. Sign(p) \in {"mark", "status", "rule", "prompt"}
    BY DEF Sign
  <2>2. QED BY <1>7, <2>1, ChromeRow, NoRow
<1>10. PICK low4, e : low4 = << <<>>, sign, <<"rule">>, <<"prompt">> >> /\ e = << <<>> >>
  OBVIOUS
<1>11. /\ low4 \in Seq(Row) /\ Len(low4) = 4 /\ e \in Seq(Row) /\ low = low4 \o e
       /\ low4[1] = <<>> /\ low4[2] = sign /\ low4[3] = <<"rule">> /\ low4[4] = <<"prompt">>
  <2>1. PICK a, r, q : a = <<>> /\ r = <<"rule">> /\ q = <<"prompt">>
    OBVIOUS
  <2>2. low4 = <<a, sign, r, q>> /\ e = <<a>> /\ low = <<a, sign, r, q, a>>
    BY <1>0, <1>8, <1>10, <2>1 DEF TurnLow
  <2>3. a \in Row /\ sign \in Row /\ r \in Row /\ q \in Row
    BY <1>9, <2>1
  <2>4. QED BY <2>1, <2>2, <2>3
<1>12. PICK body : body = top \o rest
  OBVIOUS
<1>13. /\ body \in Seq(Row) /\ Len(body) = 4 + (m - 1)
       /\ \A i \in 1..4 : body[i] = top[i]
       /\ \A i \in 1 .. m - 1 : body[4 + i] = rest[i]
  <2>1. top \in Seq(Row) /\ rest \in Seq(Row) /\ Len(top) = 4 /\ Len(rest) = m - 1
    BY <1>5, <1>6
  <2>2. top \o rest \in Seq(Row) /\ Len(top \o rest) = Len(top) + Len(rest)
        /\ (\A i \in 1..Len(top) : (top \o rest)[i] = top[i])
        /\ \A i \in 1..Len(rest) : (top \o rest)[Len(top) + i] = rest[i]
    <3>1. top \in Seq(Row) /\ rest \in Seq(Row)
      BY <2>1
    <3>2. QED BY <3>1, Joined2
  <2>3. QED BY <1>12, <2>1, <2>2
<1>14. PICK L : L = body \o low4
  OBVIOUS
<1>15. /\ L \in Seq(Row) /\ Len(L) = Len(body) + 4
       /\ \A i \in 1..Len(body) : L[i] = body[i]
       /\ \A i \in 1..4 : L[Len(body) + i] = low4[i]
  <2>1. body \in Seq(Row) /\ low4 \in Seq(Row)
    BY <1>11, <1>13
  <2>2. /\ body \o low4 \in Seq(Row) /\ Len(body \o low4) = Len(body) + Len(low4)
        /\ \A i \in 1..Len(body) : (body \o low4)[i] = body[i]
        /\ \A i \in 1..Len(low4) : (body \o low4)[Len(body) + i] = low4[i]
    BY <2>1, Joined2
  <2>3. Len(low4) = 4
    BY <1>11
  <2>4. QED BY <1>14, <2>2, <2>3
<1>16. top \o rest \o low = L \o e
  <2>1. body \in Seq(Row) /\ low4 \in Seq(Row) /\ e \in Seq(Row)
    BY <1>11, <1>13
  <2>2. \A x, y, z \in Seq(Row) : (x \o y) \o z = x \o (y \o z)
    BY ConcatAssociative
  <2>3. low = low4 \o e
    BY <1>11
  <2>4. (body \o low4) \o e = body \o (low4 \o e)
    BY <2>1, <2>2
  <2>5. QED BY <1>12, <1>14, <2>3, <2>4, Zenon
<1>17. Len(body) = m + 3 /\ Len(L) = 3 + m + 4 /\ L[3 + 1] = <<"dot", "sp">> \o <<c>>
  <2>1. Len(body) = m + 3 /\ Len(L) = 3 + m + 4 /\ 3 + 1 = 4 /\ 4 \in 1..4 /\ 4 \in 1 .. m + 3
    BY <1>2, <1>13, <1>15
  <2>2. L[4] = body[4] /\ body[4] = top[4]
    BY <1>13, <1>15, <2>1
  <2>3. QED BY <1>5, <2>1, <2>2
<1>18. ASSUME NEW k \in 2..m PROVE L[3 + k] = Indented(w[k])
  <2>1. k - 1 \in 1 .. m - 1 /\ 4 + (k - 1) = 3 + k /\ 3 + k \in 1 .. m + 3 /\ (k - 1) + 1 = k
    BY <1>2
  <2>2. L[3 + k] = body[3 + k]
    BY <1>15, <1>17, <2>1
  <2>3. body[4 + (k - 1)] = rest[k - 1] /\ rest[k - 1] = Indented(w[(k - 1) + 1])
    BY <1>6, <1>13, <2>1
  <2>4. QED BY <2>1, <2>2, <2>3
<1>19. /\ L[3 + m + 1] = <<>> /\ L[3 + m + 2] = sign
       /\ L[3 + m + 3] = <<"rule">> /\ L[3 + m + 4] = <<"prompt">>
  <2>1. /\ 3 + m + 1 = Len(body) + 1 /\ 3 + m + 2 = Len(body) + 2
        /\ 3 + m + 3 = Len(body) + 3 /\ 3 + m + 4 = Len(body) + 4
    BY <1>2, <1>17
  <2>2. \A i \in 1..4 : L[Len(body) + i] = low4[i]
    BY <1>15
  <2>3. L[Len(body) + 1] = low4[1] /\ L[Len(body) + 2] = low4[2]
        /\ L[Len(body) + 3] = low4[3] /\ L[Len(body) + 4] = low4[4]
    BY <2>2
  <2>4. QED BY <1>11, <2>1, <2>3
<1>20. Below(L, w, p, 3, 2)
  BY <1>1, <1>2, <1>7, <1>15, <1>17, <1>18, <1>19 DEF Below
<1>21. Answered(L, w, p, 3)
  BY <1>1, <1>2, <1>17, <1>20 DEF Answered
<1>22. QED BY <1>0, <1>10, <1>15, <1>16, <1>21

\* Lines above an answer only move it down.
LEMMA LinesAbove ==
  ASSUME NEW L, NEW A, NEW p, NEW o, Answered(L, A, p, o), NEW K \in Seq(Row)
  PROVE  Answered(K \o L, A, p, Len(K) + o)
<1>1. PICK m, n, h, G : m = Len(A) /\ n = Len(L) /\ h = Len(K) /\ G = K \o L
  OBVIOUS
<1>2. /\ L \in Seq(Row) /\ A \in Seq(AnswerRows) /\ o \in Nat /\ m \in Nat /\ n = o + m + 4 /\ m >= 1
      /\ \A k \in 2..m : L[o + k] = Indented(A[k])
      /\ L[o + m + 1] = <<>> /\ L[o + m + 2] = <<Sign(p)>>
      /\ L[o + m + 3] = <<"rule">> /\ L[o + m + 4] = <<"prompt">>
  BY <1>1 DEF Answered, Below
<1>3. PICK c \in {"a", "b"} : A[1] = <<c>> /\ L[o + 1] = <<"dot", "sp">> \o <<c>>
  BY DEF Answered
<1>4. /\ G \in Seq(Row) /\ Len(G) = h + n /\ h \in Nat
      /\ \A i \in 1..n : G[h + i] = L[i]
  <2>1. L \in Seq(Row)
    BY <1>2
  <2>2. QED BY <1>1, <2>1, Joined2
<1>5. ASSUME NEW k \in 1 .. m + 4 PROVE G[(h + o) + k] = L[o + k]
  <2>1. o + k \in 1..n /\ h + (o + k) = (h + o) + k
    BY <1>2, <1>4
  <2>2. QED BY <1>4, <2>1
<1>6. ASSUME NEW k \in 2..m PROVE G[(h + o) + k] = Indented(A[k])
  <2>1. k \in 1 .. m + 4
    BY <1>2
  <2>2. QED BY <1>2, <1>5, <2>1
<1>7. /\ G[(h + o) + m + 1] = <<>> /\ G[(h + o) + m + 2] = <<Sign(p)>>
      /\ G[(h + o) + m + 3] = <<"rule">> /\ G[(h + o) + m + 4] = <<"prompt">>
  <2>1. ASSUME NEW j \in 1..4 PROVE G[(h + o) + m + j] = L[o + m + j]
    <3>1. m + j \in 1 .. m + 4 /\ (h + o) + (m + j) = (h + o) + m + j /\ o + (m + j) = o + m + j
      BY <1>2, <1>4, SMTT(30)
    <3>2. G[(h + o) + (m + j)] = L[o + (m + j)]
      BY <1>5, <3>1
    <3>3. QED BY <3>1, <3>2
  <2>2. QED BY <1>2, <2>1
<1>8. G[(h + o) + 1] = <<"dot", "sp">> \o <<c>>
  <2>1. 1 \in 1 .. m + 4
    BY <1>2
  <2>2. QED BY <1>3, <1>5, <2>1
<1>9. Len(G) = (h + o) + m + 4 /\ h + o \in Nat
  BY <1>2, <1>4
<1>10. Below(G, A, p, h + o, 2)
  BY <1>1, <1>2, <1>4, <1>6, <1>7, <1>9, SMTT(30) DEF Below
<1>11. Answered(G, A, p, h + o)
  BY <1>1, <1>2, <1>3, <1>8, <1>10 DEF Answered
<1>12. QED BY <1>1, <1>11

\* A turn puts its answer on the screen below everything else.
LEMMA DrawStep ==
  ASSUME SliceInv, program # "unknown", NEW answer \in AnswerTexts, Draw(Worded(answer))
  PROVE  SliceInv'
<1>1. PICK w : w = Worded(answer)
  OBVIOUS
<1>2. PICK c \in {"a", "b"} : w \in Seq(AnswerRows) /\ Len(w) >= 1 /\ w[1] = <<c>>
  BY <1>1, WordedRows
<1>3. PICK top, rest, low : top = TurnTop(w) /\ rest = TurnRest(w) /\ low = TurnLow(program)
  OBVIOUS
<1>4. /\ screen' = screen \o Join(top \o rest \o low) /\ drawn' = Append(drawn, w)
      /\ program' = program
  BY <1>1, <1>3 DEF Draw, TurnTop, TurnRest, TurnLow
<1>5. PICK L \in Seq(Row) : /\ Answered(L, w, program, 3)
                            /\ top \o rest \o low = L \o << <<>> >>
  BY <1>2, <1>3, TurnLines
<1>6. PICK t, K : t = screen' /\ K = LinesOf(screen)
  OBVIOUS
<1>7. screen \in Seq(ScreenTokens) /\ Closed(screen) /\ K \in Seq(Row) /\ drawn \in Seq(Seq(AnswerRows))
  BY <1>6 DEF SliceInv
<1>8. t = screen \o Join(L \o << <<>> >>)
  BY <1>4, <1>5, <1>6
<1>9. t \in Seq(ScreenTokens) /\ Closed(t) /\ LinesOf(t) = K \o L
  BY <1>6, <1>7, <1>8, JoinedLines
<1>10. K \o L \in Seq(Row)
  BY <1>7, Joined2
<1>11. Answered(LinesOf(t), w, program, Len(K) + 3) /\ Len(K) + 3 \in Nat
  <2>1. Answered(K \o L, w, program, Len(K) + 3)
    BY <1>5, <1>7, LinesAbove
  <2>2. Len(K) \in Nat
    BY <1>7, LenProperties
  <2>3. QED BY <1>9, <2>1, <2>2
<1>12. PICK d : d = drawn'
  OBVIOUS
<1>13. d \in Seq(Seq(AnswerRows)) /\ d # <<>> /\ Last(d) = w
  BY <1>2, <1>4, <1>7, <1>12, FrontAppend
<1>14. /\ screen' \in Seq(ScreenTokens) /\ Closed(screen') /\ LinesOf(screen') \in Seq(Row)
       /\ drawn' \in Seq(Seq(AnswerRows)) /\ drawn' # <<>>
       /\ \E o \in Nat : Answered(LinesOf(screen'), Last(drawn'), program', o)
  BY <1>4, <1>6, <1>9, <1>10, <1>11, <1>12, <1>13
<1>15. QED BY <1>14 DEF SliceInv, Closed, Answered, Below, Sign, Scrolled

\* What is left on the screen below the last bullet.
LEMMA BelowBullet ==
  ASSUME NEW K, NEW A, NEW p, NEW o, Answered(K, A, p, o), NEW s, s = LastBulletOf(A)
  PROVE  Scrolled(SubSeq(K, o + s + 1, Len(K)), SubSeq(A, s + 1, Len(A)), p)
<1>1. PICK m, n, h : m = Len(A) /\ n = Len(K) /\ h = o + s
  OBVIOUS
<1>2. /\ K \in Seq(Row) /\ A \in Seq(AnswerRows) /\ o \in Nat /\ m \in Nat /\ n = o + m + 4
      /\ \A k \in 2..m : K[o + k] = Indented(A[k])
      /\ K[o + m + 1] = <<>> /\ K[o + m + 2] = <<Sign(p)>>
      /\ K[o + m + 3] = <<"rule">> /\ K[o + m + 4] = <<"prompt">>
  BY <1>1 DEF Answered, Below
<1>3. s \in 1..m /\ \A k \in s + 1 .. m : ~IsBullet(A[k])
  BY <1>1, LastBulletIs
<1>3a. s \in Int /\ 1 <= s /\ s <= m /\ m \in Int /\ o \in Int /\ o >= 0 /\ n = o + m + 4 /\ h = o + s
  <2>1. o \in Nat /\ m \in Nat /\ n = o + m + 4 /\ h = o + s
    BY <1>1, <1>2
  <2>2. s \in 1..m
    BY <1>3
  <2>3. QED BY <2>1, <2>2
<1>4. PICK L, C : L = SubSeq(K, h + 1, n) /\ C = SubSeq(A, s + 1, m)
  OBVIOUS
<1>5. /\ L \in Seq(Row) /\ Len(L) = n - h
      /\ \A i \in 1 .. n - h : L[i] = K[h + i]
  <2>1. /\ h + 1 \in 1 .. n + 1 /\ n \in h + 1 - 1 .. n /\ n - (h + 1) + 1 = n - h
        /\ \A i \in 1 .. n - h : h + 1 + i - 1 = h + i
    BY <1>3a
  <2>2. K \in Seq(Row) /\ n = Len(K)
    BY <1>1, <1>2
  <2>3. L \in Seq(Row) /\ Len(L) = n - (h + 1) + 1
        /\ \A i \in 1 .. n - (h + 1) + 1 : L[i] = K[h + 1 + i - 1]
    BY <1>4, <2>1, <2>2, CutOut
  <2>4. QED BY <2>1, <2>3
<1>6. /\ C \in Seq(AnswerRows) /\ Len(C) = m - s
      /\ \A i \in 1 .. m - s : C[i] = A[s + i]
  <2>1. /\ s + 1 \in 1 .. m + 1 /\ m \in s + 1 - 1 .. m /\ m - (s + 1) + 1 = m - s
        /\ \A i \in 1 .. m - s : s + 1 + i - 1 = s + i
    BY <1>3a
  <2>2. A \in Seq(AnswerRows) /\ m = Len(A)
    BY <1>1, <1>2
  <2>3. C \in Seq(AnswerRows) /\ Len(C) = m - (s + 1) + 1
        /\ \A i \in 1 .. m - (s + 1) + 1 : C[i] = A[s + 1 + i - 1]
    BY <1>4, <2>1, <2>2, CutOut
  <2>4. QED BY <2>1, <2>3
<1>7. PICK l : l = m - s
  OBVIOUS
<1>8. l \in Nat /\ n - h = l + 4 /\ Len(C) = l /\ Len(L) = l + 4 /\ h + l = o + m
  BY <1>3a, <1>5, <1>6, <1>7
<1>9. ASSUME NEW k \in 1..l PROVE L[k] = Indented(C[k]) /\ ~IsBullet(C[k])
  <2>1. k \in 1 .. m - s /\ k \in 1 .. n - h /\ s + k \in 2..m /\ s + k \in s + 1 .. m
        /\ h + k = o + (s + k)
    BY <1>3a, <1>7
  <2>2. L[k] = K[h + k] /\ C[k] = A[s + k]
    BY <1>5, <1>6, <2>1
  <2>3. QED BY <1>2, <1>3, <2>1, <2>2
<1>10. ASSUME NEW j \in 1..4 PROVE L[l + j] = K[o + m + j]
  <2>1. l + j \in 1 .. n - h /\ h + (l + j) = o + m + j
    BY <1>3a, <1>7
  <2>2. QED BY <1>5, <2>1
<1>11. /\ L[l + 1] = <<>> /\ L[l + 2] = <<Sign(p)>>
       /\ L[l + 3] = <<"rule">> /\ L[l + 4] = <<"prompt">>
  BY <1>2, <1>10
<1>12. Below(L, C, p, 0, 1)
  <2>1. /\ 0 + l = l /\ 0 + l + 1 = l + 1 /\ 0 + l + 2 = l + 2 /\ 0 + l + 3 = l + 3
        /\ 0 + l + 4 = l + 4 /\ \A k \in 1..l : 0 + k = k
    BY <1>8
  <2>2. 0 \in Nat /\ 1 \in 1..2 /\ Len(C) \in Nat /\ Len(L) = 0 + Len(C) + 4
    BY <1>8
  <2>3. \A k \in 1..l : L[0 + k] = Indented(C[k])
    BY <1>9, <2>1
  <2>4. /\ L[0 + l + 1] = <<>> /\ L[0 + l + 2] = <<Sign(p)>>
        /\ L[0 + l + 3] = <<"rule">> /\ L[0 + l + 4] = <<"prompt">>
    BY <1>11, <2>1
  <2>5. Len(C) = l /\ L \in Seq(Row) /\ C \in Seq(AnswerRows)
    BY <1>5, <1>6, <1>8
  <2>6. QED BY <2>2, <2>3, <2>4, <2>5 DEF Below
<1>13. Bullets(C) = {}
  <2>1. Bullets(C) = {i \in 1..Len(C) : IsBullet(C[i])}
    BY <1>6, BulletsAre
  <2>2. QED BY <1>8, <1>9, <2>1
<1>14. Scrolled(L, C, p)
  BY <1>12, <1>13 DEF Scrolled
<1>15. QED BY <1>1, <1>4, <1>14

\* Scrolling leaves what is below the last bullet, of the screen and of the answer.
LEMMA ScrollStep ==
  ASSUME SliceInv, program # "unknown", ScrollOff
  PROVE  SliceInv'
<1>1. PICK lines, A : lines = LinesOf(screen) /\ A = Last(drawn)
  OBVIOUS
<1>2. /\ lines \in Seq(Row) /\ drawn \in Seq(Seq(AnswerRows))
      /\ IF drawn = <<>> THEN screen = <<>>
         ELSE \/ \E o \in Nat : Answered(lines, A, program, o)
              \/ Scrolled(lines, A, program)
  BY <1>1 DEF SliceInv
<1>3. /\ Bullets(lines) # {} /\ program' = program
      /\ screen' = Join(SubSeq(lines, Max(Bullets(lines)) + 1, Len(lines)) \o << <<>> >>)
      /\ drawn' = << SubSeq(A, LastBulletOf(A) + 1, Len(A)) >>
  BY <1>1 DEF ScrollOff, LastBulletOf
<1>4. PICK o \in Nat : Answered(lines, A, program, o)
  <2>1. drawn # <<>>
    BY <1>1, <1>2, <1>3, NothingDrawn
  <2>2. ~Scrolled(lines, A, program)
    BY <1>3, ScrolledSlice
  <2>3. QED BY <1>2, <2>1, <2>2
<1>5. PICK s : s = LastBulletOf(A)
  OBVIOUS
<1>6. Max(Bullets(lines)) = o + s
  BY <1>4, <1>5, LastBulletIs
<1>7. PICK L, C : L = SubSeq(lines, o + s + 1, Len(lines)) /\ C = SubSeq(A, s + 1, Len(A))
  OBVIOUS
<1>8. Scrolled(L, C, program)
  BY <1>4, <1>5, <1>7, BelowBullet
<1>9. L \in Seq(Row) /\ C \in Seq(AnswerRows)
  BY <1>8 DEF Scrolled, Below
<1>10. PICK t, d : t = screen' /\ d = drawn'
  OBVIOUS
<1>11. t = Join(L \o << <<>> >>) /\ d = <<C>>
  BY <1>3, <1>5, <1>6, <1>7, <1>10
<1>12. t \in Seq(ScreenTokens) /\ Closed(t) /\ LinesOf(t) = L
  <2>1. PICK e : e = <<>>
    OBVIOUS
  <2>2. e \in Seq(ScreenTokens) /\ Closed(e) /\ LinesOf(e) = e /\ e \in Seq(Row)
    BY <2>1, NothingDrawn DEF Closed
  <2>3. PICK u : u = e \o Join(L \o << <<>> >>)
    OBVIOUS
  <2>4. u \in Seq(ScreenTokens) /\ Closed(u) /\ LinesOf(u) = e \o L
    BY <1>9, <2>2, <2>3, JoinedLines
  <2>5. e \o L = L
    BY <1>9, <2>1, ConcatEmptySeq
  <2>6. t \in Seq(ScreenTokens)
    <3>1. PICK V : V = Seq(ScreenTokens)
      OBVIOUS
    <3>2. "nl" \in ScreenTokens /\ <<>> \in V
      BY <3>1, CharactersAre DEF ScreenTokens
    <3>3. Row \subseteq V
      BY <3>1 DEF Row
    <3>4. PICK f : f = << <<>> >>
      OBVIOUS
    <3>5. f \in Seq(V) /\ L \in Seq(V)
      BY <1>9, <3>2, <3>3, <3>4
    <3>6. L \o f \in Seq(V)
      BY <3>5, Joined2
    <3>7. Join(L \o f) \in V
      BY <3>1, <3>2, <3>6, JoinTokens
    <3>8. QED BY <1>11, <3>1, <3>4, <3>7
  <2>7. e \o t = t
    BY <2>1, <2>6, ConcatEmptySeq
  <2>8. u = t
    BY <1>11, <2>3, <2>7
  <2>9. QED BY <2>4, <2>5, <2>8
<1>13. d \in Seq(Seq(AnswerRows)) /\ d # <<>> /\ Last(d) = C
  BY <1>9, <1>11 DEF Last
<1>14. /\ screen' \in Seq(ScreenTokens) /\ Closed(screen') /\ LinesOf(screen') \in Seq(Row)
       /\ drawn' \in Seq(Seq(AnswerRows)) /\ drawn' # <<>>
       /\ Scrolled(LinesOf(screen'), Last(drawn'), program')
  BY <1>3, <1>8, <1>9, <1>10, <1>12, <1>13
<1>15. QED BY <1>14 DEF SliceInv, Closed, Answered, Below, Sign, Scrolled

\* What SliceIsLastAnswer needs holds of every reachable state.
THEOREM SliceInvHolds == Spec => []SliceInv
<1>1. Init => SliceInv
  <2> SUFFICES ASSUME Init PROVE SliceInv
    OBVIOUS
  <2>1. screen = <<>> /\ drawn = <<>>
    BY DEF Init
  <2>2. screen \in Seq(ScreenTokens) /\ drawn \in Seq(Seq(AnswerRows)) /\ Closed(screen)
    BY <2>1 DEF Closed
  <2>3. LinesOf(screen) \in Seq(Row)
    BY <2>1, NothingDrawn
  <2>4. QED BY <2>1, <2>2, <2>3 DEF SliceInv
<1>2. ASSUME SliceInv, [Next]_vars PROVE SliceInv'
  <2>1. CASE UNCHANGED vars
    BY <1>2, <2>1 DEF vars, SliceInv, Closed, Answered, Below, Sign, Scrolled
  <2>2. CASE program = "unknown" /\ ~torn /\ Fenced
    <3>1. program' = program
      BY <2>2 DEF Fenced, Mention, Answer, Abandon, Tear, Message
    <3>2. QED BY <2>2, <3>1 DEF SliceInv
  <2>3. CASE program # "unknown" /\ Unfenced
    <3>1. ASSUME NEW answer \in AnswerTexts, Draw(Worded(answer)) PROVE SliceInv'
      BY <1>2, <2>3, <3>1, DrawStep
    <3>2. ASSUME ScrollOff PROVE SliceInv'
      BY <1>2, <2>3, <3>2, ScrollStep
    <3>3. QED BY <2>3, <3>1, <3>2 DEF Unfenced
  <2>4. QED BY <1>2, <2>1, <2>2, <2>3 DEF Next
<1>3. QED BY <1>1, <1>2, PTL DEF Spec

\* Of the screen of a CLI that omits the markers, the structural fallback never yields an
\* earlier answer, the instruction or chrome: `extract_for_target` finds lines of the last
\* answer only, and all of them when none looks like chrome.
THEOREM ScreenYieldsLastAnswer == Spec => []SliceIsLastAnswer
<1>1. ScreenInv /\ SliceInv => SliceIsLastAnswer
  BY SliceAgrees
<1>2. QED BY <1>1, ScreenInvHolds, SliceInvHolds, PTL
=============================================================================
