--------------------------- MODULE RequestsProof ---------------------------
(***************************************************************************)
(* What the operators do that the modules of the UI make their requests    *)
(* and their lists with: Only, RemoveAt, and what becomes of the requests  *)
(* under way when one is answered, sent or given up.                       *)
(*                                                                         *)
(* Only is a recursive function, so its lemmas need induction.  The        *)
(* theorems of NaturalsInduction have an operator as a parameter, which    *)
(* the provers cannot instantiate; Induct has a set instead, and follows   *)
(* from the fact that the order of the naturals is well founded.           *)
(***************************************************************************)
EXTENDS Requests, WellFoundedInduction, SequenceTheorems, TLAPS

----------------------------------------------------------------------------
(* Induction.                                                              *)

\* A set of natural numbers has a least element.
LEMMA Least ==
  ASSUME NEW S, S \subseteq Nat, S # {}
  PROVE  \E x \in S : \A y \in S : x <= y
<1>1. IsWellFoundedOn(OpToRel(<,Nat), Nat)
  BY NatLessThanWellFounded
<1>2. PICK x \in S : \A y \in S : ~(<<y, x>> \in OpToRel(<,Nat))
  BY <1>1, WFMin
<1>3. \A y \in S : ~(y < x)
  BY <1>2 DEF OpToRel
<1>4. QED
  BY <1>3

LEMMA Induct ==
  ASSUME NEW T, NEW n \in Nat, 0 \in T, \A m \in 0..(n - 1) : m \in T => m + 1 \in T
  PROVE  \A m \in 0..n : m \in T
<1> DEFINE S == {m \in 0..n : m \notin T}
<1>1. ASSUME S # {} PROVE FALSE
  <2>1. S \subseteq Nat
    OBVIOUS
  <2>2. PICK x \in S : \A y \in S : x <= y
    <3> HIDE DEF S
    <3>1. QED
      BY <1>1, <2>1, Least
  <2>3. x \in 0..n /\ x # 0
    BY <2>2
  <2>4. x - 1 \in 0..(n - 1) /\ x - 1 < x
    BY <2>3
  <2>5. x - 1 \in T
    BY <2>2, <2>4
  <2>6. QED
    BY <2>2, <2>3, <2>4, <2>5
<1>2. QED
  BY <1>1

----------------------------------------------------------------------------
(* Only.                                                                   *)

\* The function that Only is made of exists and does what it says.
LEMMA OnlyUnfolds ==
  ASSUME NEW X, NEW s \in Seq(X), NEW is
  PROVE  \E f : /\ Only(s, is) = f[Len(s)]
                /\ f[0] = <<>>
                /\ \A n \in 1..Len(s) :
                     f[n] = IF n \in is THEN Append(f[n - 1], s[n]) ELSE f[n - 1]
<1> DEFINE Body(f, n) == IF n = 0 THEN <<>>
                         ELSE IF n \in is THEN Append(f[n - 1], s[n]) ELSE f[n - 1]
           Upto(f, k) == \A n \in 0..k : f[n] = Body(f, n)
           T == {k \in 0..Len(s) : \E f : f = [n \in 0..k |-> f[n]] /\ Upto(f, k)}
           F == CHOOSE f : f = [n \in 0..Len(s) |-> Body(f, n)]
<1>1. Len(s) \in Nat
  OBVIOUS
<1>2. 0 \in T
  <2> DEFINE z == [n \in 0..0 |-> <<>>]
  <2>1. z = [n \in 0..0 |-> z[n]]
    OBVIOUS
  <2>2. Upto(z, 0)
    <3>1. \A n \in 0..0 : n = 0
      OBVIOUS
    <3>2. QED
      BY <3>1
  <2> HIDE DEF z, Upto
  <2>3. QED
    BY <1>1, <2>1, <2>2
<1>3. ASSUME NEW k \in 0..(Len(s) - 1), k \in T PROVE k + 1 \in T
  <2>1. PICK f : f = [n \in 0..k |-> f[n]] /\ Upto(f, k)
    BY <1>3
  <2> DEFINE g == [n \in 0..(k + 1) |-> IF n = k + 1 THEN Body(f, n) ELSE f[n]]
  <2>2. Upto(g, k + 1)
    <3>1. ASSUME NEW n \in 0..(k + 1) PROVE Body(g, n) = Body(f, n)
      BY <1>1
    <3>2. ASSUME NEW n \in 0..(k + 1) PROVE g[n] = Body(f, n)
      <4>1. CASE n = k + 1
        BY <4>1
      <4>2. CASE n # k + 1
        <5>1. n \in 0..k
          BY <1>1, <4>2
        <5> HIDE DEF Body
        <5>2. QED
          BY <2>1, <4>2, <5>1
      <4>3. QED
        BY <4>1, <4>2
    <3>3. QED
      BY <3>1, <3>2
  <2>3. g = [n \in 0..(k + 1) |-> g[n]]
    OBVIOUS
  <2> HIDE DEF g, Upto
  <2>4. QED
    BY <1>1, <2>2, <2>3
<1>4. Len(s) \in T
  <2>1. \A m \in 0..(Len(s) - 1) : m \in T => m + 1 \in T
    BY <1>3
  <2> HIDE DEF T
  <2>2. \A m \in 0..Len(s) : m \in T
    BY <1>1, <1>2, <2>1, Induct
  <2>3. QED
    BY <1>1, <2>2
<1>5. PICK f : f = [n \in 0..Len(s) |-> f[n]] /\ Upto(f, Len(s))
  BY <1>4
<1>6. f = [n \in 0..Len(s) |-> Body(f, n)]
  BY <1>5
<1>7. F = [n \in 0..Len(s) |-> Body(F, n)]
  <2> HIDE DEF Body
  <2>1. QED
    BY <1>6
<1>8. Only(s, is) = F[Len(s)]
  BY DEF Only
<1>9. F[0] = <<>> /\ \A n \in 1..Len(s) : F[n] = Body(F, n)
  <2>1. \A n \in 0..Len(s) : F[n] = Body(F, n)
    <3> HIDE DEF F, Body
    <3>1. QED
      BY <1>7
  <2> HIDE DEF F
  <2>2. QED
    BY <1>1, <2>1
<1>10. \A n \in 1..Len(s) :
         F[n] = IF n \in is THEN Append(F[n - 1], s[n]) ELSE F[n - 1]
  <2> HIDE DEF F
  <2>1. QED
    BY <1>9
<1> HIDE DEF F
<1>11. QED
  BY <1>8, <1>9, <1>10

\* The elements of Only(s, is) are those of s at the indices is, in order: g
\* says where each comes from.
Picks(r, s, is, g) ==
    /\ g \in [1..Len(r) -> {i \in 1..Len(s) : i \in is}]
    /\ \A k \in 1..Len(r) : r[k] = s[g[k]]
    /\ \A j, k \in 1..Len(r) : j < k => g[j] < g[k]
    /\ \A i \in 1..Len(s) : i \in is => \E k \in 1..Len(r) : g[k] = i

LEMMA OnlyPicks ==
  ASSUME NEW X, NEW s \in Seq(X), NEW is
  PROVE  Only(s, is) \in Seq(X) /\ \E g : Picks(Only(s, is), s, is, g)
<1>1. PICK f : /\ Only(s, is) = f[Len(s)]
               /\ f[0] = <<>>
               /\ \A n \in 1..Len(s) :
                    f[n] = IF n \in is THEN Append(f[n - 1], s[n]) ELSE f[n - 1]
  BY OnlyUnfolds
<1> DEFINE Is(n) == {i \in 1..n : i \in is}
           From(n, g) == /\ g \in [1..Len(f[n]) -> Is(n)]
                         /\ \A k \in 1..Len(f[n]) : f[n][k] = s[g[k]]
                         /\ \A j, k \in 1..Len(f[n]) : j < k => g[j] < g[k]
                         /\ \A i \in Is(n) : \E k \in 1..Len(f[n]) : g[k] = i
           T == {n \in 0..Len(s) : f[n] \in Seq(X) /\ \E g : From(n, g)}
<1>2. Len(s) \in Nat /\ \A i \in 1..Len(s) : s[i] \in X
  OBVIOUS
<1>3. 0 \in T
  <2>1. f[0] \in Seq(X) /\ Len(f[0]) = 0
    BY <1>1
  <2> DEFINE g == [k \in 1..0 |-> 0]
  <2>2. From(0, g)
    BY <2>1
  <2> HIDE DEF g, From
  <2>3. QED
    BY <1>2, <2>1, <2>2
<1>4. ASSUME NEW m \in 0..(Len(s) - 1), m \in T PROVE m + 1 \in T
  <2>1. m \in Nat /\ m + 1 \in 1..Len(s) /\ m + 1 \in 0..Len(s) /\ (m + 1) - 1 = m
    BY <1>2
  <2>2. f[m] \in Seq(X) /\ \E g : From(m, g)
    BY <1>4
  <2>3. PICK g : From(m, g)
    BY <2>2
  <2>4. f[m + 1] = IF m + 1 \in is THEN Append(f[m], s[m + 1]) ELSE f[m]
    BY <1>1, <2>1
  <2>5. CASE m + 1 \notin is
    <3>1. f[m + 1] = f[m]
      BY <2>4, <2>5
    <3>2. Is(m + 1) = Is(m)
      BY <2>1, <2>5
    <3>3. From(m + 1, g)
      <4> HIDE DEF Is
      <4>1. QED
        BY <2>3, <3>1, <3>2
    <3> HIDE DEF From
    <3>4. QED
      BY <2>1, <2>2, <3>1, <3>3
  <2>6. CASE m + 1 \in is
    <3> DEFINE l == Len(f[m])
               h == [k \in 1..(l + 1) |-> IF k = l + 1 THEN m + 1 ELSE g[k]]
    <3>1. f[m + 1] = Append(f[m], s[m + 1])
      BY <2>4, <2>6
    <3>2. s[m + 1] \in X
      BY <1>2, <2>1
    <3>3. /\ f[m + 1] \in Seq(X) /\ l \in Nat /\ Len(f[m + 1]) = l + 1
          /\ f[m + 1][l + 1] = s[m + 1]
          /\ \A k \in 1..l : f[m + 1][k] = f[m][k]
      BY <2>2, <3>1, <3>2
    <3>4. /\ \A k \in 1..(l + 1) : k = l + 1 \/ k \in 1..l
          /\ \A k \in 1..l : k \in 1..(l + 1) /\ k # l + 1
          /\ l + 1 \in 1..(l + 1)
      BY <3>3
    <3>5. /\ \A k \in 1..l : h[k] = g[k] /\ g[k] \in Is(m)
          /\ h[l + 1] = m + 1
      BY <2>3, <3>4
    <3>6. \A i \in Is(m) : i \in Is(m + 1) /\ i < m + 1
      BY <2>1
    <3>7. m + 1 \in Is(m + 1) /\ \A i \in Is(m + 1) : i = m + 1 \/ i \in Is(m)
      BY <2>1, <2>6
    <3>8. h \in [1..(l + 1) -> Is(m + 1)]
      <4>1. \A k \in 1..(l + 1) : h[k] \in Is(m + 1)
        <5> HIDE DEF h, Is, l
        <5>1. QED
          BY <3>4, <3>5, <3>6, <3>7
      <4> HIDE DEF Is, l
      <4>2. QED
        BY <4>1
    <3> HIDE DEF h, Is, l
    <3>9. \A k \in 1..(l + 1) : f[m + 1][k] = s[h[k]]
      <4>1. \A k \in 1..l : f[m][k] = s[g[k]]
        BY <2>3 DEF l
      <4>2. QED
        BY <3>3, <3>4, <3>5, <4>1
    <3>10. \A j, k \in 1..(l + 1) : j < k => h[j] < h[k]
      <4>1. \A j, k \in 1..l : j < k => g[j] < g[k]
        BY <2>3 DEF l
      <4>2. \A j \in 1..l : h[j] < m + 1
        BY <3>5, <3>6
      <4>3. \A j, k \in 1..(l + 1) : j < k => j \in 1..l
        BY <3>3
      <4>4. QED
        BY <3>4, <3>5, <4>1, <4>2, <4>3
    <3>11. \A i \in Is(m + 1) : \E k \in 1..(l + 1) : h[k] = i
      <4>1. \A i \in Is(m) : \E k \in 1..l : g[k] = i
        BY <2>3 DEF l
      <4>2. QED
        BY <3>4, <3>5, <3>7, <4>1
    <3>12. From(m + 1, h)
      BY <3>3, <3>8, <3>9, <3>10, <3>11
    <3> HIDE DEF From
    <3>13. QED
      BY <2>1, <3>3, <3>12
  <2>7. QED
    BY <2>5, <2>6
<1>5. Len(s) \in T
  <2>1. \A m \in 0..(Len(s) - 1) : m \in T => m + 1 \in T
    BY <1>4
  <2> HIDE DEF T
  <2>2. \A m \in 0..Len(s) : m \in T
    BY <1>2, <1>3, <2>1, Induct
  <2>3. QED
    BY <1>2, <2>2
<1>6. PICK g : f[Len(s)] \in Seq(X) /\ From(Len(s), g)
  BY <1>5
<1>7. Picks(Only(s, is), s, is, g)
  BY <1>1, <1>6 DEF Picks
<1>8. QED
  BY <1>1, <1>6, <1>7

----------------------------------------------------------------------------
(* Sequences and their elements.                                           *)

Of(s) == {s[k] : k \in DOMAIN s}
Sequence(s) == s \in Seq(Of(s))

LEMMA InSeq ==
  ASSUME NEW X, NEW s \in Seq(X)
  PROVE  Sequence(s)
<1>1. \A k \in 1..Len(s) : s[k] \in Of(s)
  BY DEF Of
<1>2. s = [k \in 1..Len(s) |-> s[k]] /\ Len(s) \in Nat
  OBVIOUS
<1>3. QED
  BY <1>1, <1>2 DEF Sequence

LEMMA Indices ==
  ASSUME NEW s, Sequence(s)
  PROVE  Len(s) \in Nat /\ DOMAIN s = 1..Len(s)
BY DEF Sequence

LEMMA Numbered ==
  ASSUME NEW n \in Nat, NEW s, s = [k \in 1..n |-> s[k]]
  PROVE  Sequence(s) /\ Len(s) = n /\ DOMAIN s = 1..n
<1>1. \A k \in 1..n : s[k] \in Of(s)
  BY DEF Of
<1>2. s \in Seq(Of(s)) /\ Len(s) = n
  BY <1>1
<1>3. QED
  BY <1>2 DEF Sequence

LEMMA Empty == Sequence(<<>>) /\ Len(<<>>) = 0 /\ Of(<<>>) = {}
<1>1. <<>> \in Seq({}) /\ Len(<<>>) = 0
  BY EmptySeq
<1>2. DOMAIN <<>> = {}
  OBVIOUS
<1>3. Of(<<>>) = {}
  BY <1>2 DEF Of
<1>4. QED
  BY <1>1, <1>3, InSeq

LEMMA Single ==
  ASSUME NEW c
  PROVE  Sequence(<<c>>) /\ Len(<<c>>) = 1 /\ <<c>>[1] = c /\ Of(<<c>>) = {c}
<1>1. <<c>> \in Seq({c}) /\ Len(<<c>>) = 1 /\ <<c>>[1] = c
  OBVIOUS
<1>2. DOMAIN <<c>> = 1..1
  OBVIOUS
<1>3. Of(<<c>>) = {c}
  <2>1. \A k \in 1..1 : k = 1
    OBVIOUS
  <2>2. 1 \in 1..1
    OBVIOUS
  <2>3. QED
    BY <1>1, <1>2, <2>1, <2>2 DEF Of
<1>4. QED
  BY <1>1, <1>3, InSeq

LEMMA Pair ==
  ASSUME NEW c, NEW d
  PROVE  /\ Sequence(<<c, d>>) /\ Len(<<c, d>>) = 2 /\ Of(<<c, d>>) = {c, d}
         /\ <<c, d>>[1] = c /\ <<c, d>>[2] = d
<1>1. <<c, d>> \in Seq({c, d}) /\ Len(<<c, d>>) = 2
  OBVIOUS
<1>2. DOMAIN <<c, d>> = 1..2 /\ <<c, d>>[1] = c /\ <<c, d>>[2] = d
  OBVIOUS
<1>3. Of(<<c, d>>) = {c, d}
  <2>1. \A k \in 1..2 : k = 1 \/ k = 2
    OBVIOUS
  <2>2. 1 \in 1..2 /\ 2 \in 1..2
    OBVIOUS
  <2>3. QED
    BY <1>2, <2>1, <2>2 DEF Of
<1>4. QED
  BY <1>1, <1>2, <1>3, InSeq

LEMMA Joined ==
  ASSUME NEW s, NEW t, Sequence(s), Sequence(t)
  PROVE  /\ Sequence(s \o t) /\ Len(s \o t) = Len(s) + Len(t)
         /\ \A k \in 1..Len(s) : (s \o t)[k] = s[k]
         /\ \A k \in 1..Len(t) : (s \o t)[Len(s) + k] = t[k]
         /\ Of(s \o t) = Of(s) \cup Of(t)
<1>1. s \in Seq(Of(s) \cup Of(t)) /\ t \in Seq(Of(s) \cup Of(t))
  BY SeqMonotonic DEF Sequence
<1>2. s \o t \in Seq(Of(s) \cup Of(t)) /\ Len(s \o t) = Len(s) + Len(t)
  BY <1>1, ConcatProperties
<1>3. \A k \in 1..Len(s) + Len(t) : (s \o t)[k] = IF k <= Len(s) THEN s[k] ELSE t[k - Len(s)]
  BY <1>1, ConcatProperties
<1>4. /\ Len(s) \in Nat /\ DOMAIN s = 1..Len(s)
      /\ Len(t) \in Nat /\ DOMAIN t = 1..Len(t)
      /\ DOMAIN (s \o t) = 1..(Len(s) + Len(t))
  BY <1>1, <1>2
<1>5. \A k \in 1..Len(s) : (s \o t)[k] = s[k]
  BY <1>3, <1>4
<1>6. \A k \in 1..Len(t) : (s \o t)[Len(s) + k] = t[k]
  BY <1>3, <1>4
<1>7. Of(s \o t) \subseteq Of(s) \cup Of(t)
  <2>1. \A k \in DOMAIN (s \o t) : (s \o t)[k] \in Of(s) \cup Of(t)
    BY <1>2, <1>4
  <2>2. QED
    BY <2>1 DEF Of
<1>8. ASSUME NEW c \in Of(s) PROVE c \in Of(s \o t)
  <2>1. PICK k \in 1..Len(s) : c = s[k]
    BY <1>4, <1>8 DEF Of
  <2>2. k \in DOMAIN (s \o t) /\ c = (s \o t)[k]
    BY <1>4, <1>5, <2>1
  <2>3. QED
    BY <2>2 DEF Of
<1>9. ASSUME NEW c \in Of(t) PROVE c \in Of(s \o t)
  <2>1. PICK k \in 1..Len(t) : c = t[k]
    BY <1>4, <1>9 DEF Of
  <2>2. Len(s) + k \in DOMAIN (s \o t) /\ c = (s \o t)[Len(s) + k]
    BY <1>4, <1>6, <2>1
  <2>3. QED
    BY <2>2 DEF Of
<1>10. Of(s \o t) = Of(s) \cup Of(t)
  BY <1>7, <1>8, <1>9
<1>11. QED
  BY <1>2, <1>5, <1>6, <1>10, InSeq

LEMMA Appended ==
  ASSUME NEW s, NEW c, Sequence(s)
  PROVE  /\ Append(s, c) = s \o <<c>>
         /\ Sequence(Append(s, c)) /\ Len(Append(s, c)) = Len(s) + 1
         /\ \A k \in 1..Len(s) : Append(s, c)[k] = s[k]
         /\ Append(s, c)[Len(s) + 1] = c
         /\ Of(Append(s, c)) = Of(s) \cup {c}
<1>1. Append(s, c) = s \o <<c>>
  <2>1. s \in Seq(Of(s) \cup {c}) /\ c \in Of(s) \cup {c}
    BY SeqMonotonic DEF Sequence
  <2>2. QED
    BY <2>1
<1>2. 1 \in 1..Len(<<c>>)
  OBVIOUS
<1>3. QED
  BY <1>1, <1>2, Joined, Single

LEMMA Replaced ==
  ASSUME NEW s, Sequence(s), NEW i \in DOMAIN s, NEW e
  PROVE  LET t == [s EXCEPT ![i] = e] IN
           /\ Sequence(t) /\ Len(t) = Len(s) /\ DOMAIN t = DOMAIN s
           /\ \A k \in DOMAIN s : t[k] = IF k = i THEN e ELSE s[k]
           /\ e \in Of(t) /\ Of(t) \subseteq Of(s) \cup {e}
           /\ \A k \in DOMAIN s : k # i => s[k] \in Of(t)
<1> DEFINE t == [s EXCEPT ![i] = e]
<1>1. s \in Seq(Of(s) \cup {e}) /\ e \in Of(s) \cup {e}
  BY SeqMonotonic DEF Sequence
<1>2. t \in Seq(Of(s) \cup {e}) /\ Len(t) = Len(s) /\ DOMAIN t = DOMAIN s
  BY <1>1
<1>3. \A k \in DOMAIN s : t[k] = IF k = i THEN e ELSE s[k]
  BY <1>1
<1>4. e \in Of(t) /\ Of(t) \subseteq Of(s) \cup {e}
  BY <1>2, <1>3 DEF Of
<1>5. \A k \in DOMAIN s : k # i => s[k] \in Of(t)
  BY <1>2, <1>3 DEF Of
<1>6. QED
  BY <1>2, <1>3, <1>4, <1>5, InSeq

LEMMA Removed ==
  ASSUME NEW s, Sequence(s), NEW i \in DOMAIN s
  PROVE  LET t == RemoveAt(s, i) IN
           /\ Sequence(t) /\ Len(t) = Len(s) - 1 /\ DOMAIN t = 1..(Len(s) - 1)
           /\ \A k \in 1..(Len(s) - 1) : t[k] = IF k < i THEN s[k] ELSE s[k + 1]
           /\ Of(t) \subseteq Of(s)
           /\ \A k \in DOMAIN s : k # i => s[k] \in Of(t)
<1> DEFINE n == Len(s)
           a == SubSeq(s, 1, i - 1)
           b == SubSeq(s, i + 1, n)
           t == RemoveAt(s, i)
<1>1. s \in Seq(Of(s)) /\ n \in Nat /\ DOMAIN s = 1..n /\ i \in 1..n
  BY DEF Sequence
<1>2. \A k \in 1..n : s[k] \in Of(s)
  BY <1>1
<1>3. a \in Seq(Of(s)) /\ Len(a) = i - 1 /\ \A k \in 1..(i - 1) : a[k] = s[k]
  <2>1. \A k \in 1..(i - 1) : s[k] \in Of(s)
    BY <1>1, <1>2
  <2>2. 1 \in Int /\ i - 1 \in Int
    BY <1>1
  <2>3. /\ a \in Seq(Of(s)) /\ Len(a) = (IF 1 <= i - 1 THEN (i - 1) - 1 + 1 ELSE 0)
        /\ \A k \in 1..((i - 1) - 1 + 1) : a[k] = s[1 + k - 1]
    BY <2>1, <2>2, SubSeqProperties
  <2>4. QED
    BY <1>1, <2>3
<1>4. b \in Seq(Of(s)) /\ Len(b) = n - i /\ \A k \in 1..(n - i) : b[k] = s[i + k]
  <2>1. \A k \in (i + 1)..n : s[k] \in Of(s)
    BY <1>1, <1>2
  <2>2. i + 1 \in Int /\ n \in Int
    BY <1>1
  <2>3. /\ b \in Seq(Of(s)) /\ Len(b) = (IF i + 1 <= n THEN n - (i + 1) + 1 ELSE 0)
        /\ \A k \in 1..(n - (i + 1) + 1) : b[k] = s[i + 1 + k - 1]
    BY <2>1, <2>2, SubSeqProperties
  <2>4. \A k \in 1..(n - i) : k \in 1..(n - (i + 1) + 1) /\ i + 1 + k - 1 = i + k
    BY <1>1
  <2>5. QED
    BY <1>1, <2>3, <2>4
<1> HIDE DEF a, b
<1>5. t = a \o b
  BY DEF RemoveAt, a, b
<1>6. /\ t \in Seq(Of(s)) /\ Len(t) = Len(a) + Len(b)
      /\ \A k \in 1..(Len(a) + Len(b)) : t[k] = IF k <= Len(a) THEN a[k] ELSE b[k - Len(a)]
  <2> HIDE DEF t
  <2>1. QED
    BY <1>3, <1>4, <1>5, ConcatProperties
<1> HIDE DEF t
<1>7. Len(t) = n - 1
  BY <1>1, <1>3, <1>4, <1>6
<1>8. \A k \in 1..(n - 1) : t[k] = IF k < i THEN s[k] ELSE s[k + 1]
  <2> TAKE k \in 1..(n - 1)
  <2>1. k \in 1..(Len(a) + Len(b))
    BY <1>1, <1>3, <1>4
  <2>2. CASE k < i
    <3>1. k <= Len(a) /\ k \in 1..(i - 1)
      BY <1>1, <1>3, <2>2
    <3>2. QED
      BY <1>3, <1>6, <2>1, <2>2, <3>1
  <2>3. CASE ~(k < i)
    <3>1. ~(k <= Len(a)) /\ k - Len(a) \in 1..(n - i) /\ i + (k - Len(a)) = k + 1
      BY <1>1, <1>3, <2>3
    <3>2. QED
      BY <1>4, <1>6, <2>1, <2>3, <3>1
  <2>4. QED
    BY <2>2, <2>3
<1>9. DOMAIN t = 1..(n - 1)
  <2>1. DOMAIN t = 1..Len(t)
    BY <1>6
  <2>2. QED
    BY <1>7, <2>1
<1>10. Of(t) \subseteq Of(s)
  <2>1. \A k \in 1..(n - 1) : t[k] \in Of(s)
    BY <1>6, <1>7
  <2>2. QED
    BY <1>9, <2>1 DEF Of
<1>11. ASSUME NEW k \in DOMAIN s, k # i PROVE s[k] \in Of(t)
  <2>1. CASE k < i
    <3>1. k \in 1..(n - 1) /\ t[k] = s[k]
      BY <1>1, <1>8, <2>1
    <3>2. QED
      BY <1>9, <3>1 DEF Of
  <2>2. CASE k > i
    <3>1. k - 1 \in 1..(n - 1) /\ ~(k - 1 < i) /\ (k - 1) + 1 = k
      BY <1>1, <2>2
    <3>2. t[k - 1] = s[k]
      BY <1>8, <3>1
    <3>3. QED
      BY <1>9, <3>1, <3>2 DEF Of
  <2>3. QED
    BY <1>1, <1>11, <2>1, <2>2
<1>12. QED
  BY <1>6, <1>7, <1>8, <1>9, <1>10, <1>11, InSeq DEF t
LEMMA OnlyOf ==
  ASSUME NEW s, Sequence(s), NEW is
  PROVE  /\ Sequence(Only(s, is))
         /\ \A c \in Of(Only(s, is)) : \E i \in DOMAIN s : i \in is /\ c = s[i]
<1>1. s \in Seq(Of(s)) /\ DOMAIN s = 1..Len(s)
  BY DEF Sequence
<1> DEFINE r == Only(s, is)
<1>2. r \in Seq(Of(s)) /\ \E g : Picks(r, s, is, g)
  BY <1>1, OnlyPicks
<1> HIDE DEF r
<1>3. PICK g : Picks(r, s, is, g)
  BY <1>2
<1>4. DOMAIN r = 1..Len(r)
  BY <1>2
<1>5. \A k \in 1..Len(r) : r[k] = s[g[k]] /\ g[k] \in DOMAIN s /\ g[k] \in is
  BY <1>1, <1>3 DEF Picks
<1>6. QED
  BY <1>2, <1>4, <1>5, InSeq DEF Of, r

----------------------------------------------------------------------------
(* The last request of an operation.                                       *)

\* It is a set: there may be none.
LastOf(s, op) ==
    {s[k] : k \in {m \in DOMAIN s : /\ s[m].op = op
                                    /\ \A j \in DOMAIN s : m < j => s[j].op # op}}

LEMMA LastOfJoined ==
  ASSUME NEW s, NEW t, Sequence(s), Sequence(t), NEW op, NEW c \in LastOf(s \o t, op)
  PROVE  \/ c \in LastOf(t, op)
         \/ c \in LastOf(s, op) /\ \A d \in Of(t) : d.op # op
<1> DEFINE u == s \o t
<1>1. /\ Len(s) \in Nat /\ Len(t) \in Nat /\ DOMAIN s = 1..Len(s) /\ DOMAIN t = 1..Len(t)
      /\ DOMAIN u = 1..(Len(s) + Len(t))
      /\ \A k \in 1..Len(s) : u[k] = s[k]
      /\ \A k \in 1..Len(t) : u[Len(s) + k] = t[k]
  BY Joined, Indices
<1> HIDE DEF u
<1>2. PICK m \in 1..(Len(s) + Len(t)) :
        c = u[m] /\ u[m].op = op /\ \A j \in DOMAIN u : m < j => u[j].op # op
  BY <1>1 DEF LastOf, u
<1>3. CASE m <= Len(s)
  <2>1. m \in 1..Len(s) /\ c = s[m] /\ s[m].op = op
    BY <1>1, <1>2, <1>3
  <2>2. \A j \in 1..Len(s) : m < j => s[j].op # op
    BY <1>1, <1>2
  <2>3. \A k \in 1..Len(t) : t[k].op # op
    <3> TAKE k \in 1..Len(t)
    <3>1. Len(s) + k \in 1..(Len(s) + Len(t)) /\ m < Len(s) + k
      BY <1>1, <1>3
    <3>2. QED
      BY <1>1, <1>2, <3>1
  <2>4. QED
    BY <1>1, <2>1, <2>2, <2>3 DEF LastOf, Of
<1>4. CASE ~(m <= Len(s))
  <2>1. /\ m - Len(s) \in 1..Len(t) /\ Len(s) + (m - Len(s)) = m
    BY <1>1, <1>4
  <2>2. c = t[m - Len(s)] /\ t[m - Len(s)].op = op
    BY <1>1, <1>2, <2>1
  <2>3. \A k \in 1..Len(t) : m - Len(s) < k => t[k].op # op
    <3> TAKE k \in 1..Len(t)
    <3>1. /\ Len(s) + k \in 1..(Len(s) + Len(t))
          /\ m - Len(s) < k => m < Len(s) + k
      BY <1>1, <1>4
    <3>2. QED
      BY <1>1, <1>2, <3>1
  <2>4. QED
    BY <1>1, <2>1, <2>2, <2>3 DEF LastOf
<1>5. QED
  BY <1>3, <1>4

LEMMA LastOfSingle ==
  ASSUME NEW c, NEW op, NEW d \in LastOf(<<c>>, op)
  PROVE  d = c /\ c.op = op
<1>1. DOMAIN <<c>> = 1..1 /\ <<c>>[1] = c
  OBVIOUS
<1>2. \A k \in 1..1 : k = 1
  OBVIOUS
<1>3. QED
  BY <1>1, <1>2 DEF LastOf

LEMMA LastOfRemoved ==
  ASSUME NEW s, Sequence(s), NEW i \in DOMAIN s, NEW op,
         s[i].op = op => \A j \in DOMAIN s : j < i => s[j].op # op,
         NEW c \in LastOf(RemoveAt(s, i), op)
  PROVE  c \in LastOf(s, op)
<1> DEFINE t == RemoveAt(s, i)
           n == Len(s)
<1>1. /\ n \in Nat /\ DOMAIN s = 1..n /\ DOMAIN t = 1..(n - 1)
      /\ \A k \in 1..(n - 1) : t[k] = IF k < i THEN s[k] ELSE s[k + 1]
  BY Removed, Indices
<1> HIDE DEF t, n
<1>2. PICK m \in 1..(n - 1) :
        c = t[m] /\ t[m].op = op /\ \A j \in DOMAIN t : m < j => t[j].op # op
  BY <1>1 DEF LastOf, t
<1>3. CASE m < i
  <2>1. m \in 1..n /\ c = s[m] /\ s[m].op = op
    BY <1>1, <1>2, <1>3
  <2>2. \A j \in 1..n : m < j => s[j].op # op
    <3> TAKE j \in 1..n
    <3>1. CASE j < i
      <4>1. j \in 1..(n - 1)
        BY <1>1, <3>1
      <4>2. QED
        BY <1>1, <1>2, <3>1, <4>1
    <3>2. CASE j = i
      BY <1>1, <1>3, <2>1, <3>2
    <3>3. CASE j > i
      <4>1. j - 1 \in 1..(n - 1) /\ ~(j - 1 < i) /\ (j - 1) + 1 = j /\ m < j - 1
        BY <1>1, <1>3, <3>3
      <4>2. QED
        BY <1>1, <1>2, <4>1
    <3>4. QED
      BY <1>1, <3>1, <3>2, <3>3
  <2>3. QED
    BY <1>1, <2>1, <2>2 DEF LastOf
<1>4. CASE ~(m < i)
  <2>1. m + 1 \in 1..n /\ c = s[m + 1] /\ s[m + 1].op = op
    BY <1>1, <1>2, <1>4
  <2>2. \A j \in 1..n : m + 1 < j => s[j].op # op
    <3> TAKE j \in 1..n
    <3> HAVE m + 1 < j
    <3>1. j - 1 \in 1..(n - 1) /\ ~(j - 1 < i) /\ (j - 1) + 1 = j /\ m < j - 1
      BY <1>1, <1>4
    <3>2. QED
      BY <1>1, <1>2, <3>1
  <2>3. QED
    BY <1>1, <2>1, <2>2 DEF LastOf
<1>5. QED
  BY <1>3, <1>4

LEMMA LastOfReplaced ==
  ASSUME NEW s, Sequence(s), NEW i \in DOMAIN s, NEW e, e.op = s[i].op, NEW op,
         NEW c \in LastOf([s EXCEPT ![i] = e], op)
  PROVE  c \in LastOf(s, op) \/ (c = e /\ s[i] \in LastOf(s, op))
<1> DEFINE t == [s EXCEPT ![i] = e]
<1>1. /\ DOMAIN t = DOMAIN s
      /\ \A k \in DOMAIN s : t[k] = IF k = i THEN e ELSE s[k]
  BY Replaced
<1> HIDE DEF t
<1>2. PICK m \in DOMAIN s :
        c = t[m] /\ t[m].op = op /\ \A j \in DOMAIN s : m < j => t[j].op # op
  BY <1>1 DEF LastOf, t
<1>3. s[m].op = op /\ \A j \in DOMAIN s : m < j => s[j].op # op
  BY <1>1, <1>2
<1>4. s[m] \in LastOf(s, op)
  BY <1>3 DEF LastOf
<1>5. QED
  BY <1>1, <1>2, <1>4

----------------------------------------------------------------------------
(* What becomes of the requests.                                           *)

WithAnswer(c, data) == [c EXCEPT !.state = "answered", !.reply = data]

LEMMA Replied ==
  ASSUME NEW i \in DOMAIN calls, NEW data, Sequence(calls), Reply(i, data)
  PROVE  calls' = [calls EXCEPT ![i] = WithAnswer(calls[i], data)]
BY DEF Reply, WithAnswer, Sequence

\* The requests of the operations ops are the same, and in the same order.
Same(ops) == /\ \A c : c.op \in ops => (c \in Of(calls') <=> c \in Of(calls))
             /\ \A op \in ops : LastOf(calls', op) \subseteq LastOf(calls, op)

LEMMA SameIfReplaced ==
  ASSUME NEW ops, NEW i \in DOMAIN calls, NEW e, Sequence(calls),
         calls' = [calls EXCEPT ![i] = e], e.op = calls[i].op, calls[i].op \notin ops
  PROVE  Sequence(calls') /\ Same(ops)
<1>1. /\ Sequence(calls') /\ Of(calls') \subseteq Of(calls) \cup {e}
      /\ \A k \in DOMAIN calls : k # i => calls[k] \in Of(calls')
  BY Replaced
<1>2. ASSUME NEW c, c.op \in ops PROVE c \in Of(calls') <=> c \in Of(calls)
  <2>1. c \in Of(calls') => c \in Of(calls)
    BY <1>1, <1>2
  <2>2. ASSUME c \in Of(calls) PROVE c \in Of(calls')
    <3>1. PICK k \in DOMAIN calls : c = calls[k]
      BY <2>2 DEF Of
    <3>2. QED
      BY <1>1, <1>2, <3>1
  <2>3. QED
    BY <2>1, <2>2
<1>3. ASSUME NEW op \in ops, NEW c \in LastOf(calls', op) PROVE c \in LastOf(calls, op)
  <2>1. c \in LastOf(calls, op) \/ calls[i] \in LastOf(calls, op)
    BY <1>3, LastOfReplaced
  <2>2. ~(calls[i] \in LastOf(calls, op))
    BY DEF LastOf
  <2>3. QED
    BY <2>1, <2>2
<1>4. QED
  BY <1>1, <1>2, <1>3 DEF Same

LEMMA SameIfJoined ==
  ASSUME NEW ops, NEW s, NEW cs, Sequence(s), Sequence(cs), calls' = s \o cs,
         \A c \in Of(cs) : c.op \notin ops,
         \A c : c.op \in ops => (c \in Of(s) <=> c \in Of(calls)),
         \A op \in ops : LastOf(s, op) \subseteq LastOf(calls, op)
  PROVE  Sequence(calls') /\ Same(ops)
<1>1. Sequence(calls') /\ Of(calls') = Of(s) \cup Of(cs)
  BY Joined
<1>2. ASSUME NEW op \in ops, NEW c \in LastOf(calls', op) PROVE c \in LastOf(calls, op)
  <2>1. c \in LastOf(cs, op) \/ c \in LastOf(s, op)
    BY <1>2, LastOfJoined
  <2>2. c \in LastOf(cs, op) => c \in Of(cs) /\ c.op = op
    BY DEF LastOf, Of
  <2>3. QED
    BY <2>1, <2>2
<1>3. QED
  BY <1>1, <1>2 DEF Same

LEMMA SameIfDone ==
  ASSUME NEW ops, NEW i \in DOMAIN calls, NEW cs, Sequence(calls), Sequence(cs),
         Done(i, cs), calls[i].op \notin ops, \A c \in Of(cs) : c.op \notin ops
  PROVE  Sequence(calls') /\ Same(ops)
<1> DEFINE s == RemoveAt(calls, i)
<1>1. /\ Sequence(s) /\ Of(s) \subseteq Of(calls)
      /\ \A k \in DOMAIN calls : k # i => calls[k] \in Of(s)
  BY Removed
<1>2. ASSUME NEW c, c.op \in ops, c \in Of(calls) PROVE c \in Of(s)
  <2>1. PICK k \in DOMAIN calls : c = calls[k]
    BY <1>2 DEF Of
  <2>2. QED
    BY <1>1, <1>2, <2>1
<1>3. ASSUME NEW op \in ops, NEW c \in LastOf(s, op) PROVE c \in LastOf(calls, op)
  BY <1>3, LastOfRemoved
<1>4. calls' = s \o cs
  BY DEF Done
<1> HIDE DEF s
<1>5. QED
  BY <1>1, <1>2, <1>3, <1>4, SameIfJoined

LEMMA SameIfSent ==
  ASSUME NEW ops, NEW cs, Sequence(calls), Sequence(cs), calls' = calls \o cs,
         \A c \in Of(cs) : c.op \notin ops
  PROVE  Sequence(calls') /\ Same(ops)
BY SameIfJoined

LEMMA SameIfUnchanged ==
  ASSUME NEW ops, Sequence(calls), calls' = calls
  PROVE  Sequence(calls') /\ Same(ops)
BY DEF Same

----------------------------------------------------------------------------
(* Requests that answers overtake.                                         *)

IsRequest(c) ==
    /\ c = [op |-> c.op, arg |-> c.arg, state |-> c.state, reply |-> c.reply, late |-> c.late]
    /\ c.state \in {"sent", "answered"} /\ c.late \in BOOLEAN
Requests == Sequence(calls) /\ \A c \in Of(calls) : IsRequest(c)

LEMMA NewRequest ==
  ASSUME NEW op, NEW arg
  PROVE  LET c == Request(op, arg) IN
           /\ IsRequest(c) /\ c.op = op /\ c.arg = arg
           /\ c.state = "sent" /\ c.reply = Nothing /\ ~c.late
BY DEF Request, IsRequest

\* What request c of s has become when those at js have been overtaken.
IsNow(d, c, overtaken) ==
    /\ IsRequest(d) /\ d.op = c.op /\ d.arg = c.arg /\ d.state = c.state /\ d.reply = c.reply
    /\ d.late <=> c.late \/ overtaken
    /\ ~overtaken => d = c

LEMMA OvertakenNow ==
  ASSUME Requests, NEW js
  PROVE  LET now == Overtaken(js) IN
           /\ Sequence(now) /\ Len(now) = Len(calls) /\ DOMAIN now = DOMAIN calls
           /\ \A k \in DOMAIN calls : IsNow(now[k], calls[k], k \in js)
<1> DEFINE now == Overtaken(js)
<1>1. DOMAIN calls = 1..Len(calls) /\ Len(calls) \in Nat
  BY Indices DEF Requests
<1>2. now = [j \in 1..Len(calls) |-> [calls[j] EXCEPT !.late = @ \/ j \in js]]
  BY <1>1 DEF Overtaken
<1>3. now = [j \in 1..Len(calls) |-> now[j]]
  BY <1>2
<1>4. Sequence(now) /\ Len(now) = Len(calls) /\ DOMAIN now = DOMAIN calls
  <2> HIDE DEF now
  <2>1. QED
    BY <1>1, <1>3, Numbered
<1>5. ASSUME NEW k \in DOMAIN calls PROVE IsNow(now[k], calls[k], k \in js)
  <2>1. IsRequest(calls[k])
    BY DEF Requests, Of
  <2>2. now[k] = [calls[k] EXCEPT !.late = @ \/ k \in js]
    BY <1>1, <1>2
  <2> HIDE DEF now
  <2> DEFINE c == calls[k]
             d == now[k]
             l == c.late \/ k \in js
  <2>3. IsRequest(c) /\ d = [c EXCEPT !.late = l]
    BY <2>1, <2>2
  <2>4. l \in BOOLEAN /\ (~(k \in js) => l = c.late)
    BY <2>3 DEF IsRequest
  <2> HIDE DEF c, d, l
  <2>5. /\ d = [op |-> c.op, arg |-> c.arg, state |-> c.state, reply |-> c.reply, late |-> l]
        /\ c.state \in {"sent", "answered"}
    BY <2>3 DEF IsRequest
  <2>6. /\ d.op = c.op /\ d.arg = c.arg /\ d.state = c.state /\ d.reply = c.reply /\ d.late = l
    BY <2>5
  <2>7. IsRequest(d)
    BY <2>4, <2>5, <2>6 DEF IsRequest
  <2>8. l = c.late => d = c
    BY <2>3, <2>5 DEF IsRequest
  <2>9. IsNow(d, c, k \in js)
    BY <2>4, <2>6, <2>7, <2>8 DEF IsNow, l
  <2>10. QED
    BY <2>9 DEF c, d
<1>6. QED
  BY <1>4, <1>5

\* When the answer to i has been handled, the others are there in their order,
\* and then what the handlers sent.
LEMMA FinishedAt ==
  ASSUME Requests, NEW i \in DOMAIN calls, NEW js, NEW cs, Sequence(cs), Overtakes(i, js, cs)
  PROVE  /\ Sequence(calls') /\ DOMAIN calls' = 1..(Len(calls) - 1 + Len(cs))
         /\ \A m \in 1..(Len(calls) - 1) :
              /\ m < i => IsNow(calls'[m], calls[m], m \in js)
              /\ ~(m < i) => IsNow(calls'[m], calls[m + 1], m + 1 \in js)
         /\ \A m \in 1..Len(cs) : calls'[Len(calls) - 1 + m] = cs[m]
<1> DEFINE now == Overtaken(js)
           t == RemoveAt(now, i)
           n == Len(calls)
<1>1. /\ Sequence(now) /\ Len(now) = n /\ DOMAIN now = DOMAIN calls
      /\ \A k \in DOMAIN calls : IsNow(now[k], calls[k], k \in js)
  BY OvertakenNow
<1>2. calls' = t \o cs
  BY DEF Overtakes
<1>3. n \in Nat /\ DOMAIN calls = 1..n /\ Len(cs) \in Nat /\ i \in 1..n
  BY Indices DEF Requests
<1> HIDE DEF now, n
<1>4. /\ Sequence(t) /\ Len(t) = n - 1 /\ DOMAIN t = 1..(n - 1)
      /\ \A k \in 1..(n - 1) : t[k] = IF k < i THEN now[k] ELSE now[k + 1]
  BY <1>1, Removed
<1> HIDE DEF t
<1>5. /\ Sequence(calls') /\ Len(calls') = n - 1 + Len(cs)
      /\ \A k \in 1..(n - 1) : calls'[k] = t[k]
      /\ \A k \in 1..Len(cs) : calls'[n - 1 + k] = cs[k]
  <2> DEFINE u == t \o cs
  <2>1. /\ Sequence(u) /\ Len(u) = Len(t) + Len(cs)
        /\ \A k \in 1..Len(t) : u[k] = t[k]
        /\ \A k \in 1..Len(cs) : u[Len(t) + k] = cs[k]
    BY <1>4, Joined
  <2> HIDE DEF u
  <2>2. calls' = u
    BY <1>2 DEF u
  <2>3. QED
    BY <1>4, <2>1, <2>2
<1>6. DOMAIN calls' = 1..(n - 1 + Len(cs))
  BY <1>5, Indices
<1>7. ASSUME NEW m \in 1..(n - 1)
      PROVE  /\ m < i => IsNow(calls'[m], calls[m], m \in js)
             /\ ~(m < i) => IsNow(calls'[m], calls[m + 1], m + 1 \in js)
  <2>1. m \in 1..n /\ m + 1 \in 1..n
    BY <1>3
  <2>2. IsNow(now[m], calls[m], m \in js) /\ IsNow(now[m + 1], calls[m + 1], m + 1 \in js)
    BY <1>1, <1>3, <2>1
  <2>3. calls'[m] = IF m < i THEN now[m] ELSE now[m + 1]
    BY <1>4, <1>5
  <2>4. QED
    BY <2>2, <2>3
<1>8. QED
  BY <1>5, <1>6, <1>7 DEF n

LEMMA FinishedOf ==
  ASSUME Requests, NEW i \in DOMAIN calls, NEW js, NEW cs, Sequence(cs), Overtakes(i, js, cs)
  PROVE  /\ Sequence(calls') /\ Of(cs) \subseteq Of(calls')
         /\ \A d \in Of(calls') :
              \/ d \in Of(cs)
              \/ \E k \in DOMAIN calls : k # i /\ IsNow(d, calls[k], k \in js)
         /\ \A k \in DOMAIN calls : k # i =>
              \E d \in Of(calls') : IsNow(d, calls[k], k \in js)
<1> DEFINE n == Len(calls)
           l == Len(cs)
<1>1. /\ Sequence(calls') /\ DOMAIN calls' = 1..(n - 1 + l)
      /\ \A m \in 1..(n - 1) :
           /\ m < i => IsNow(calls'[m], calls[m], m \in js)
           /\ ~(m < i) => IsNow(calls'[m], calls[m + 1], m + 1 \in js)
      /\ \A m \in 1..l : calls'[n - 1 + m] = cs[m]
  BY FinishedAt
<1>2. n \in Nat /\ DOMAIN calls = 1..n /\ l \in Nat /\ DOMAIN cs = 1..l /\ i \in 1..n
  BY Indices DEF Requests
<1> HIDE DEF n, l
<1>3. Of(cs) \subseteq Of(calls')
  <2>1. ASSUME NEW m \in 1..l PROVE cs[m] \in Of(calls')
    <3>1. n - 1 + m \in 1..(n - 1 + l)
      BY <1>2
    <3>2. QED
      BY <1>1, <3>1 DEF Of
  <2>2. QED
    BY <1>2, <2>1 DEF Of
<1>4. ASSUME NEW d \in Of(calls')
      PROVE  d \in Of(cs) \/ \E k \in DOMAIN calls : k # i /\ IsNow(d, calls[k], k \in js)
  <2>1. PICK m \in 1..(n - 1 + l) : d = calls'[m]
    BY <1>1 DEF Of
  <2>2. CASE m < i
    <3>1. m \in 1..(n - 1) /\ m \in 1..n /\ m # i
      BY <1>2, <2>2
    <3>2. QED
      BY <1>1, <1>2, <2>1, <2>2, <3>1
  <2>3. CASE ~(m < i) /\ m <= n - 1
    <3>1. m \in 1..(n - 1) /\ m + 1 \in 1..n /\ m + 1 # i
      BY <1>2, <2>3
    <3>2. QED
      BY <1>1, <1>2, <2>1, <2>3, <3>1
  <2>4. CASE ~(m <= n - 1)
    <3>1. m - (n - 1) \in 1..l /\ n - 1 + (m - (n - 1)) = m
      BY <1>2, <2>4
    <3>2. d = cs[m - (n - 1)]
      BY <1>1, <2>1, <3>1
    <3>3. QED
      BY <1>2, <3>1, <3>2 DEF Of
  <2>5. QED
    BY <2>2, <2>3, <2>4
<1>5. ASSUME NEW k \in DOMAIN calls, k # i
      PROVE  \E d \in Of(calls') : IsNow(d, calls[k], k \in js)
  <2>1. CASE k < i
    <3>1. k \in 1..(n - 1) /\ k \in 1..(n - 1 + l)
      BY <1>2, <2>1
    <3>2. QED
      BY <1>1, <2>1, <3>1 DEF Of
  <2>2. CASE k > i
    <3>1. k - 1 \in 1..(n - 1) /\ k - 1 \in 1..(n - 1 + l) /\ ~(k - 1 < i) /\ (k - 1) + 1 = k
      BY <1>2, <2>2
    <3>2. IsNow(calls'[k - 1], calls[k], k \in js)
      BY <1>1, <3>1
    <3>3. QED
      BY <1>1, <3>1, <3>2 DEF Of
  <2>3. QED
    BY <1>2, <1>5, <2>1, <2>2
<1>6. QED
  BY <1>1, <1>3, <1>4, <1>5

\* Request i has been answered with data.
IsAnswerTo(d, c, data) ==
    /\ IsRequest(d) /\ d.op = c.op /\ d.arg = c.arg /\ d.state = "answered" /\ d.reply = data
    /\ d.late = c.late

LEMMA RepliedAt ==
  ASSUME Requests, NEW i \in DOMAIN calls, NEW js, i \notin js, NEW data, ReplyOvertakes(i, js, data)
  PROVE  /\ Sequence(calls') /\ DOMAIN calls' = DOMAIN calls
         /\ IsAnswerTo(calls'[i], calls[i], data)
         /\ \A k \in DOMAIN calls : k # i => IsNow(calls'[k], calls[k], k \in js)
<1> DEFINE now == Overtaken(js)
           e == WithAnswer(now[i], data)
<1>1. /\ Sequence(now) /\ DOMAIN now = DOMAIN calls
      /\ \A k \in DOMAIN calls : IsNow(now[k], calls[k], k \in js)
  BY OvertakenNow
<1> HIDE DEF now
<1>2. calls' = [now EXCEPT ![i] = e]
  BY <1>1 DEF ReplyOvertakes, WithAnswer, now, Sequence
<1>3. now[i] = calls[i] /\ IsRequest(calls[i])
  BY <1>1 DEF IsNow
<1>4. IsAnswerTo(e, calls[i], data)
  <2> DEFINE c == calls[i]
  <2>1. IsRequest(c) /\ e = [c EXCEPT !.state = "answered", !.reply = data]
    BY <1>3 DEF WithAnswer
  <2> HIDE DEF c, e
  <2>2. /\ e = [op |-> c.op, arg |-> c.arg, state |-> "answered", reply |-> data, late |-> c.late]
        /\ c.late \in BOOLEAN
    BY <2>1 DEF IsRequest
  <2>3. IsAnswerTo(e, c, data)
    BY <2>2 DEF IsAnswerTo, IsRequest
  <2>4. QED
    BY <2>3 DEF c
<1> HIDE DEF e
<1>5. /\ Sequence(calls') /\ DOMAIN calls' = DOMAIN now
      /\ \A k \in DOMAIN now : calls'[k] = IF k = i THEN e ELSE now[k]
  BY <1>1, <1>2, Replaced
<1>6. QED
  BY <1>1, <1>4, <1>5

LEMMA RepliedOf ==
  ASSUME Requests, NEW i \in DOMAIN calls, NEW js, i \notin js, NEW data, ReplyOvertakes(i, js, data)
  PROVE  /\ Sequence(calls')
         /\ \A d \in Of(calls') :
              \/ IsAnswerTo(d, calls[i], data)
              \/ \E k \in DOMAIN calls : k # i /\ IsNow(d, calls[k], k \in js)
         /\ \E d \in Of(calls') : IsAnswerTo(d, calls[i], data)
         /\ \A k \in DOMAIN calls : k # i =>
              \E d \in Of(calls') : IsNow(d, calls[k], k \in js)
<1>1. /\ Sequence(calls') /\ DOMAIN calls' = DOMAIN calls
      /\ IsAnswerTo(calls'[i], calls[i], data)
      /\ \A k \in DOMAIN calls : k # i => IsNow(calls'[k], calls[k], k \in js)
  BY RepliedAt
<1>2. QED
  BY <1>1 DEF Of

LEMMA SentAt ==
  ASSUME Requests, NEW js, NEW cs, Sequence(cs), calls' = Overtaken(js) \o cs
  PROVE  /\ Sequence(calls') /\ DOMAIN calls' = 1..(Len(calls) + Len(cs))
         /\ \A m \in DOMAIN calls : IsNow(calls'[m], calls[m], m \in js)
         /\ \A m \in 1..Len(cs) : calls'[Len(calls) + m] = cs[m]
         /\ Of(calls') = Of(Overtaken(js)) \cup Of(cs)
<1> DEFINE now == Overtaken(js)
<1>1. /\ Sequence(now) /\ Len(now) = Len(calls) /\ DOMAIN now = DOMAIN calls
      /\ \A k \in DOMAIN calls : IsNow(now[k], calls[k], k \in js)
  BY OvertakenNow
<1> HIDE DEF now
<1>2. DOMAIN calls = 1..Len(calls)
  BY Indices DEF Requests
<1>3. /\ Sequence(calls') /\ Len(calls') = Len(now) + Len(cs)
      /\ \A k \in 1..Len(now) : calls'[k] = now[k]
      /\ \A k \in 1..Len(cs) : calls'[Len(now) + k] = cs[k]
      /\ Of(calls') = Of(now) \cup Of(cs)
  <2> DEFINE u == now \o cs
  <2>1. /\ Sequence(u) /\ Len(u) = Len(now) + Len(cs)
        /\ \A k \in 1..Len(now) : u[k] = now[k]
        /\ \A k \in 1..Len(cs) : u[Len(now) + k] = cs[k]
        /\ Of(u) = Of(now) \cup Of(cs)
    BY <1>1, Joined
  <2> HIDE DEF u
  <2>2. calls' = u
    BY DEF u, now
  <2>3. QED
    BY <2>1, <2>2
<1>4. DOMAIN calls' = 1..Len(calls')
  BY <1>3, Indices
<1>5. QED
  BY <1>1, <1>2, <1>3, <1>4 DEF now

LEMMA SentOf ==
  ASSUME Requests, NEW js, NEW cs, Sequence(cs), calls' = Overtaken(js) \o cs
  PROVE  /\ Sequence(calls') /\ Of(cs) \subseteq Of(calls')
         /\ \A d \in Of(calls') :
              \/ d \in Of(cs)
              \/ \E k \in DOMAIN calls : IsNow(d, calls[k], k \in js)
         /\ \A k \in DOMAIN calls : \E d \in Of(calls') : IsNow(d, calls[k], k \in js)
<1> DEFINE now == Overtaken(js)
<1>1. /\ Sequence(now) /\ Len(now) = Len(calls) /\ DOMAIN now = DOMAIN calls
      /\ \A k \in DOMAIN calls : IsNow(now[k], calls[k], k \in js)
  BY OvertakenNow
<1>2. Sequence(calls') /\ Of(calls') = Of(now) \cup Of(cs)
  BY SentAt
<1> HIDE DEF now
<1>3. ASSUME NEW d \in Of(now)
      PROVE  \E k \in DOMAIN calls : IsNow(d, calls[k], k \in js)
  BY <1>1 DEF Of
<1>4. ASSUME NEW k \in DOMAIN calls
      PROVE  \E d \in Of(now) : IsNow(d, calls[k], k \in js)
  BY <1>1 DEF Of
<1>5. QED
  BY <1>2, <1>3, <1>4

\* Nothing is overtaken.
LEMMA OvertakenNone ==
  ASSUME Requests
  PROVE  Overtaken({}) = calls
<1> DEFINE now == Overtaken({})
<1>1. /\ DOMAIN now = DOMAIN calls
      /\ \A k \in DOMAIN calls : IsNow(now[k], calls[k], k \in {})
  BY OvertakenNow
<1>2. \A k \in DOMAIN calls : now[k] = calls[k]
  BY <1>1 DEF IsNow
<1>3. now = [k \in DOMAIN calls |-> now[k]]
  BY DEF Overtaken
<1>4. calls = [k \in DOMAIN calls |-> calls[k]]
  BY Indices DEF Requests, Sequence
<1> HIDE DEF now
<1>5. now = calls
  BY <1>2, <1>3, <1>4
<1>6. QED
  BY <1>5 DEF now

LEMMA DoneOvertakes ==
  ASSUME Requests, NEW i, NEW cs
  PROVE  Done(i, cs) = Overtakes(i, {}, cs)
BY OvertakenNone DEF Done, Overtakes

LEMMA ReplyOvertakesNone ==
  ASSUME Requests, NEW i, NEW data
  PROVE  Reply(i, data) = ReplyOvertakes(i, {}, data)
BY OvertakenNone DEF Reply, ReplyOvertakes

----------------------------------------------------------------------------
(* The requests that a step has nothing to do with.                        *)

\* Those of the operations ops in t are those in s, and in the same order: g
\* says where each was.
AlignedBy(t, s, ops, g) ==
    /\ \A j \in DOMAIN t : t[j].op \in ops => g[j] \in DOMAIN s /\ t[j] = s[g[j]]
    /\ \A j, k \in DOMAIN t : (t[j].op \in ops /\ t[k].op \in ops /\ j < k) => g[j] < g[k]
    /\ \A k \in DOMAIN s : s[k].op \in ops => \E j \in DOMAIN t : g[j] = k /\ t[j].op \in ops
Aligned(t, s, ops) == \E g : AlignedBy(t, s, ops, g)
Spared(ops) == Aligned(calls', calls, ops)

LEMMA SparedFewer ==
  ASSUME NEW ops, Spared(ops), NEW fewer, fewer \subseteq ops
  PROVE  Spared(fewer)
<1>1. PICK g : AlignedBy(calls', calls, ops, g)
  BY DEF Spared, Aligned
<1>2. AlignedBy(calls', calls, fewer, g)
  BY <1>1 DEF AlignedBy
<1>3. QED
  BY <1>2 DEF Spared, Aligned

LEMMA SparedIfUnchanged ==
  ASSUME Requests, calls' = calls, NEW ops
  PROVE  Spared(ops)
<1> DEFINE g == [j \in DOMAIN calls |-> j]
<1>1. AlignedBy(calls', calls, ops, g)
  BY DEF AlignedBy
<1> HIDE DEF g
<1>2. QED
  BY <1>1 DEF Spared, Aligned

LEMMA SparedIfSent ==
  ASSUME Requests, NEW js, NEW cs, Sequence(cs), calls' = Overtaken(js) \o cs, NEW ops,
         \A k \in DOMAIN calls : k \in js => calls[k].op \notin ops,
         \A c \in Of(cs) : c.op \notin ops
  PROVE  Spared(ops)
<1> DEFINE n == Len(calls)
           l == Len(cs)
           g == [j \in 1..(n + l) |-> j]
<1>1. /\ Sequence(calls') /\ DOMAIN calls' = 1..(n + l)
      /\ \A m \in DOMAIN calls : IsNow(calls'[m], calls[m], m \in js)
      /\ \A m \in 1..l : calls'[n + m] = cs[m]
  BY SentAt
<1>2. n \in Nat /\ DOMAIN calls = 1..n /\ l \in Nat /\ DOMAIN cs = 1..l
  BY Indices DEF Requests
<1>3. \A j \in 1..(n + l) : g[j] = j
  OBVIOUS
<1> HIDE DEF n, l, g
<1>4. ASSUME NEW j \in 1..(n + l), calls'[j].op \in ops PROVE j \in 1..n /\ calls'[j] = calls[j]
  <2>1. CASE j \in 1..n
    BY <1>1, <1>2, <1>4, <2>1 DEF IsNow
  <2>2. CASE j \notin 1..n
    <3>1. j - n \in 1..l /\ n + (j - n) = j
      BY <1>2, <2>2
    <3>2. calls'[j] \in Of(cs)
      BY <1>1, <1>2, <3>1 DEF Of
    <3>3. QED
      BY <1>4, <3>2
  <2>3. QED
    BY <2>1, <2>2
<1>5. ASSUME NEW k \in 1..n, calls[k].op \in ops PROVE k \in 1..(n + l) /\ calls'[k] = calls[k]
  BY <1>1, <1>2, <1>5 DEF IsNow
<1>6. AlignedBy(calls', calls, ops, g)
  <2>1. \A j \in DOMAIN calls' : calls'[j].op \in ops => g[j] \in DOMAIN calls /\ calls'[j] = calls[g[j]]
    BY <1>1, <1>2, <1>3, <1>4
  <2>2. \A j, k \in DOMAIN calls' : (calls'[j].op \in ops /\ calls'[k].op \in ops /\ j < k) => g[j] < g[k]
    BY <1>1, <1>3
  <2>3. \A k \in DOMAIN calls : calls[k].op \in ops => \E j \in DOMAIN calls' : g[j] = k /\ calls'[j].op \in ops
    BY <1>1, <1>2, <1>3, <1>5
  <2>4. QED
    BY <2>1, <2>2, <2>3 DEF AlignedBy
<1>7. QED
  BY <1>6 DEF Spared, Aligned

LEMMA SparedIfReplied ==
  ASSUME Requests, NEW i \in DOMAIN calls, NEW js, i \notin js, NEW data,
         ReplyOvertakes(i, js, data), NEW ops, calls[i].op \notin ops,
         \A k \in DOMAIN calls : k \in js => calls[k].op \notin ops
  PROVE  Spared(ops)
<1> DEFINE g == [j \in DOMAIN calls |-> j]
<1>1. /\ DOMAIN calls' = DOMAIN calls
      /\ IsAnswerTo(calls'[i], calls[i], data)
      /\ \A k \in DOMAIN calls : k # i => IsNow(calls'[k], calls[k], k \in js)
  BY RepliedAt
<1>2. \A j \in DOMAIN calls : g[j] = j
  OBVIOUS
<1> HIDE DEF g
<1>3. \A k \in DOMAIN calls : calls'[k].op = calls[k].op /\ (calls[k].op \in ops => calls'[k] = calls[k])
  BY <1>1 DEF IsAnswerTo, IsNow
<1>4. AlignedBy(calls', calls, ops, g)
  BY <1>1, <1>2, <1>3 DEF AlignedBy
<1>5. QED
  BY <1>4 DEF Spared, Aligned

LEMMA SparedIfReplaced ==
  ASSUME Requests, NEW i \in DOMAIN calls, NEW e, e.op = calls[i].op,
         calls' = [calls EXCEPT ![i] = e], NEW ops, calls[i].op \notin ops
  PROVE  Spared(ops)
<1> DEFINE g == [j \in DOMAIN calls |-> j]
<1>1. /\ DOMAIN calls' = DOMAIN calls
      /\ \A k \in DOMAIN calls : calls'[k] = IF k = i THEN e ELSE calls[k]
  BY Replaced DEF Requests
<1>2. \A j \in DOMAIN calls : g[j] = j
  OBVIOUS
<1> HIDE DEF g
<1>3. \A k \in DOMAIN calls : calls'[k].op = calls[k].op /\ (calls[k].op \in ops => calls'[k] = calls[k])
  BY <1>1
<1>4. AlignedBy(calls', calls, ops, g)
  BY <1>1, <1>2, <1>3 DEF AlignedBy
<1>5. QED
  BY <1>4 DEF Spared, Aligned

LEMMA SparedIfFinished ==
  ASSUME Requests, NEW i \in DOMAIN calls, NEW js, NEW cs, Sequence(cs), Overtakes(i, js, cs),
         NEW ops, calls[i].op \notin ops,
         \A k \in DOMAIN calls : k \in js => calls[k].op \notin ops,
         \A c \in Of(cs) : c.op \notin ops
  PROVE  Spared(ops)
<1> DEFINE n == Len(calls)
           l == Len(cs)
           g == [j \in 1..(n - 1 + l) |-> IF j < i THEN j ELSE j + 1]
<1>1. /\ Sequence(calls') /\ DOMAIN calls' = 1..(n - 1 + l)
      /\ \A m \in 1..(n - 1) :
           /\ m < i => IsNow(calls'[m], calls[m], m \in js)
           /\ ~(m < i) => IsNow(calls'[m], calls[m + 1], m + 1 \in js)
      /\ \A m \in 1..l : calls'[n - 1 + m] = cs[m]
  BY FinishedAt
<1>2. n \in Nat /\ DOMAIN calls = 1..n /\ l \in Nat /\ DOMAIN cs = 1..l /\ i \in 1..n
  BY Indices DEF Requests
<1>3. \A j \in 1..(n - 1 + l) : g[j] = IF j < i THEN j ELSE j + 1
  OBVIOUS
<1> HIDE DEF n, l, g
<1>4. ASSUME NEW j \in 1..(n - 1 + l), calls'[j].op \in ops
      PROVE  j \in 1..(n - 1) /\ g[j] \in 1..n /\ calls'[j] = calls[g[j]]
  <2>1. CASE j \in 1..(n - 1) /\ j < i
    <3>1. j \in 1..n /\ g[j] = j
      BY <1>2, <1>3, <2>1
    <3>2. QED
      BY <1>1, <1>2, <1>4, <2>1, <3>1 DEF IsNow
  <2>2. CASE j \in 1..(n - 1) /\ ~(j < i)
    <3>1. j + 1 \in 1..n /\ g[j] = j + 1
      BY <1>2, <1>3, <2>2
    <3>2. QED
      BY <1>1, <1>2, <1>4, <2>2, <3>1 DEF IsNow
  <2>3. CASE j \notin 1..(n - 1)
    <3>1. j - (n - 1) \in 1..l /\ n - 1 + (j - (n - 1)) = j
      BY <1>2, <2>3
    <3>2. calls'[j] \in Of(cs)
      BY <1>1, <1>2, <3>1 DEF Of
    <3>3. QED
      BY <1>4, <3>2
  <2>4. QED
    BY <2>1, <2>2, <2>3
<1>5. ASSUME NEW k \in 1..n, calls[k].op \in ops
      PROVE  \E j \in 1..(n - 1 + l) : g[j] = k /\ calls'[j].op \in ops
  <2>1. k # i
    BY <1>5
  <2>2. CASE k < i
    <3>1. k \in 1..(n - 1) /\ k \in 1..(n - 1 + l) /\ g[k] = k
      BY <1>2, <1>3, <2>2
    <3>2. QED
      BY <1>1, <1>2, <1>5, <2>2, <3>1 DEF IsNow
  <2>3. CASE k > i
    <3>1. /\ k - 1 \in 1..(n - 1) /\ k - 1 \in 1..(n - 1 + l) /\ ~(k - 1 < i) /\ (k - 1) + 1 = k
          /\ g[k - 1] = k
      BY <1>2, <1>3, <2>3
    <3>2. IsNow(calls'[k - 1], calls[k], k \in js)
      BY <1>1, <3>1
    <3>3. calls'[k - 1].op \in ops
      BY <1>5, <3>2 DEF IsNow
    <3>4. QED
      BY <3>1, <3>3
  <2>4. QED
    BY <1>2, <2>1, <2>2, <2>3
<1>6. AlignedBy(calls', calls, ops, g)
  <2>1. \A j \in DOMAIN calls' : calls'[j].op \in ops => g[j] \in DOMAIN calls /\ calls'[j] = calls[g[j]]
    BY <1>1, <1>2, <1>4
  <2>2. \A j, k \in DOMAIN calls' : (calls'[j].op \in ops /\ calls'[k].op \in ops /\ j < k) => g[j] < g[k]
    BY <1>1, <1>2, <1>3
  <2>3. \A k \in DOMAIN calls : calls[k].op \in ops => \E j \in DOMAIN calls' : g[j] = k /\ calls'[j].op \in ops
    BY <1>1, <1>2, <1>5
  <2>4. QED
    BY <2>1, <2>2, <2>3 DEF AlignedBy
<1>7. QED
  BY <1>6 DEF Spared, Aligned

LEMMA SparedIfOnly ==
  ASSUME Requests, NEW is, calls' = Only(calls, is), NEW ops,
         \A k \in DOMAIN calls : calls[k].op \in ops => k \in is
  PROVE  Spared(ops)
<1> DEFINE r == Only(calls, is)
           n == Len(calls)
<1>1. calls \in Seq(Of(calls)) /\ DOMAIN calls = 1..n
  BY Indices DEF Requests, Sequence
<1>2. r \in Seq(Of(calls)) /\ \E g : Picks(r, calls, is, g)
  BY <1>1, OnlyPicks
<1>3. calls' = r
  OBVIOUS
<1> HIDE DEF r, n
<1>4. PICK g : Picks(r, calls, is, g)
  BY <1>2
<1>5. DOMAIN r = 1..Len(r)
  BY <1>2
<1>6. /\ \A j \in 1..Len(r) : g[j] \in 1..n /\ r[j] = calls[g[j]]
      /\ \A j, k \in 1..Len(r) : j < k => g[j] < g[k]
      /\ \A k \in 1..n : k \in is => \E j \in 1..Len(r) : g[j] = k
  BY <1>4 DEF Picks, n
<1>7. AlignedBy(r, calls, ops, g)
  <2>1. \A k \in 1..n : calls[k].op \in ops => \E j \in 1..Len(r) : g[j] = k /\ r[j].op \in ops
    BY <1>1, <1>6
  <2>2. QED
    BY <1>1, <1>5, <1>6, <2>1 DEF AlignedBy
<1>8. QED
  BY <1>3, <1>7 DEF Spared, Aligned

LEMMA SparedOf ==
  ASSUME NEW ops, Spared(ops)
  PROVE  \A c : c.op \in ops => (c \in Of(calls') <=> c \in Of(calls))
<1>1. PICK g : AlignedBy(calls', calls, ops, g)
  BY DEF Spared, Aligned
<1>2. ASSUME NEW c, c.op \in ops, c \in Of(calls') PROVE c \in Of(calls)
  <2>1. PICK j \in DOMAIN calls' : c = calls'[j]
    BY <1>2 DEF Of
  <2>2. g[j] \in DOMAIN calls /\ c = calls[g[j]]
    BY <1>1, <1>2, <2>1 DEF AlignedBy
  <2>3. QED
    BY <2>2 DEF Of
<1>3. ASSUME NEW c, c.op \in ops, c \in Of(calls) PROVE c \in Of(calls')
  <2>1. PICK k \in DOMAIN calls : c = calls[k]
    BY <1>3 DEF Of
  <2>2. PICK j \in DOMAIN calls' : g[j] = k /\ calls'[j].op \in ops
    BY <1>1, <1>3, <2>1 DEF AlignedBy
  <2>3. c = calls'[j]
    BY <1>1, <2>1, <2>2 DEF AlignedBy
  <2>4. QED
    BY <2>3 DEF Of
<1>4. QED
  BY <1>2, <1>3

\* The last request of an operation, unless it has been overtaken.
Newest(s, op) == {c \in LastOf(s, op) : ~c.late}

LEMMA SparedNewest ==
  ASSUME NEW ops, Spared(ops), Sequence(calls), Sequence(calls'), NEW op \in ops
  PROVE  LastOf(calls', op) \subseteq LastOf(calls, op) /\ Newest(calls', op) \subseteq Newest(calls, op)
<1>1. PICK g : AlignedBy(calls', calls, ops, g)
  BY DEF Spared, Aligned
<1>2. DOMAIN calls' = 1..Len(calls') /\ Len(calls') \in Nat
  BY Indices
<1>3. DOMAIN calls = 1..Len(calls) /\ Len(calls) \in Nat
  BY Indices
<1>4. ASSUME NEW c \in LastOf(calls', op) PROVE c \in LastOf(calls, op)
  <2>1. PICK m \in DOMAIN calls' :
          c = calls'[m] /\ calls'[m].op = op /\ \A j \in DOMAIN calls' : m < j => calls'[j].op # op
    BY DEF LastOf
  <2>2. g[m] \in DOMAIN calls /\ c = calls[g[m]] /\ calls[g[m]].op = op
    BY <1>1, <2>1 DEF AlignedBy
  <2>3. ASSUME NEW k \in DOMAIN calls, g[m] < k, calls[k].op = op PROVE FALSE
    <3>1. PICK j \in DOMAIN calls' : g[j] = k /\ calls'[j].op \in ops
      BY <1>1, <2>3 DEF AlignedBy
    <3>2. calls'[j].op = op
      BY <1>1, <2>3, <3>1 DEF AlignedBy
    <3>3. ~(j < m)
      <4>1. j < m => g[j] < g[m]
        BY <1>1, <2>1, <3>2 DEF AlignedBy
      <4>2. QED
        BY <1>3, <2>2, <2>3, <3>1, <4>1
    <3>4. j # m
      BY <1>3, <2>2, <2>3, <3>1
    <3>5. m < j
      BY <1>2, <3>3, <3>4
    <3>6. QED
      BY <2>1, <3>2, <3>5
  <2>4. QED
    BY <2>2, <2>3 DEF LastOf
<1>5. QED
  BY <1>4 DEF Newest

LEMMA NewestIfReplied ==
  ASSUME Requests, NEW i \in DOMAIN calls, NEW js, i \notin js, NEW data,
         ReplyOvertakes(i, js, data), NEW op, NEW c \in Newest(calls', op)
  PROVE  \E d \in Newest(calls, op) : c = d \/ IsAnswerTo(c, d, data)
<1>1. /\ DOMAIN calls' = DOMAIN calls
      /\ IsAnswerTo(calls'[i], calls[i], data)
      /\ \A k \in DOMAIN calls : k # i => IsNow(calls'[k], calls[k], k \in js)
  BY RepliedAt
<1>2. PICK m \in DOMAIN calls :
        c = calls'[m] /\ c.op = op /\ ~c.late /\ \A j \in DOMAIN calls : m < j => calls'[j].op # op
  BY <1>1 DEF Newest, LastOf
<1>3. \A k \in DOMAIN calls : calls'[k].op = calls[k].op
  BY <1>1 DEF IsAnswerTo, IsNow
<1>4. calls[m].op = op /\ \A j \in DOMAIN calls : m < j => calls[j].op # op
  BY <1>2, <1>3
<1>5. ~calls[m].late /\ (c = calls[m] \/ IsAnswerTo(c, calls[m], data))
  <2>1. CASE m = i
    BY <1>1, <1>2, <2>1 DEF IsAnswerTo
  <2>2. CASE m # i
    BY <1>1, <1>2, <2>2 DEF IsNow
  <2>3. QED
    BY <2>1, <2>2
<1>6. calls[m] \in Newest(calls, op)
  BY <1>4, <1>5 DEF Newest, LastOf
<1>7. QED
  BY <1>5, <1>6

LEMMA NewestIfSent ==
  ASSUME Requests, NEW js, NEW cs, Sequence(cs), calls' = Overtaken(js) \o cs, NEW op,
         \E d \in Of(cs) : d.op = op, NEW c \in LastOf(calls', op)
  PROVE  c \in Of(cs) /\ c.op = op
<1> DEFINE now == Overtaken(js)
<1>1. Sequence(now)
  BY OvertakenNow
<1> HIDE DEF now
<1>2. c \in LastOf(now \o cs, op)
  BY DEF now
<1>3. c \in LastOf(cs, op)
  BY <1>1, <1>2, LastOfJoined
<1>4. QED
  BY <1>3 DEF LastOf, Of

LEMMA NewestIfSentThen ==
  ASSUME Requests, NEW i \in DOMAIN calls, NEW js, NEW cs, Sequence(cs), Overtakes(i, js, cs),
         NEW op, \E d \in Of(cs) : d.op = op, NEW c \in LastOf(calls', op)
  PROVE  c \in Of(cs) /\ c.op = op
<1> DEFINE now == Overtaken(js)
           t == RemoveAt(now, i)
<1>1. Sequence(now) /\ DOMAIN now = DOMAIN calls
  BY OvertakenNow
<1> HIDE DEF now
<1>2. Sequence(t)
  BY <1>1, Removed
<1> HIDE DEF t
<1>3. c \in LastOf(t \o cs, op)
  BY DEF now, t, Overtakes
<1>4. c \in LastOf(cs, op)
  BY <1>2, <1>3, LastOfJoined
<1>5. QED
  BY <1>4 DEF LastOf, Of

\* Once a request has been answered and handled, the newest is the newest still,
\* or has been handled now.
LEMMA NewestIfFinished ==
  ASSUME Requests, NEW i \in DOMAIN calls, NEW js, Earlier(i) \subseteq js,
         NEW cs, Sequence(cs), Overtakes(i, js, cs), \A d \in Of(cs) : d.op # calls[i].op
  PROVE  /\ Newest(calls', calls[i].op) \subseteq Newest(calls, calls[i].op)
         /\ \/ \E d \in Of(calls') : d.op = calls[i].op
            \/ calls[i] \in LastOf(calls, calls[i].op)
<1> DEFINE n == Len(calls)
           l == Len(cs)
           op == calls[i].op
<1>1. /\ Sequence(calls') /\ DOMAIN calls' = 1..(n - 1 + l)
      /\ \A m \in 1..(n - 1) :
           /\ m < i => IsNow(calls'[m], calls[m], m \in js)
           /\ ~(m < i) => IsNow(calls'[m], calls[m + 1], m + 1 \in js)
      /\ \A m \in 1..l : calls'[n - 1 + m] = cs[m]
  BY FinishedAt
<1>2. n \in Nat /\ DOMAIN calls = 1..n /\ l \in Nat /\ DOMAIN cs = 1..l /\ i \in 1..n
  BY Indices DEF Requests
<1>3. \A k \in 1..n : calls[k].op = op /\ k < i => k \in js
  BY <1>2 DEF Earlier, Outstanding
<1>4. calls[i].op = op
  OBVIOUS
<1> HIDE DEF n, l, op
<1>5. ASSUME NEW c \in Newest(calls', op) PROVE c \in Newest(calls, op)
  <2>1. PICK m \in 1..(n - 1 + l) :
          c = calls'[m] /\ c.op = op /\ ~c.late /\ \A j \in 1..(n - 1 + l) : m < j => calls'[j].op # op
    BY <1>1 DEF Newest, LastOf
  <2>2. m \in 1..(n - 1)
    <3>1. ASSUME m \notin 1..(n - 1) PROVE FALSE
      <4>1. m - (n - 1) \in 1..l /\ n - 1 + (m - (n - 1)) = m
        BY <1>2, <3>1
      <4>2. c \in Of(cs)
        BY <1>1, <1>2, <2>1, <4>1 DEF Of
      <4>3. QED
        BY <1>4, <2>1, <4>2
    <3>2. QED
      BY <3>1
  <2>3. ~(m < i)
    <3>1. ASSUME m < i PROVE FALSE
      <4>1. IsNow(c, calls[m], m \in js) /\ m \in 1..n
        BY <1>1, <1>2, <2>1, <2>2, <3>1
      <4>2. m \in js
        BY <1>3, <2>1, <3>1, <4>1 DEF IsNow
      <4>3. QED
        BY <2>1, <4>1, <4>2 DEF IsNow
    <3>2. QED
      BY <3>1
  <2>4. IsNow(c, calls[m + 1], m + 1 \in js) /\ m + 1 \in 1..n
    BY <1>1, <1>2, <2>1, <2>2, <2>3
  <2> DEFINE q == m + 1
  <2>5. IsNow(c, calls[q], q \in js) /\ q \in 1..n
    BY <2>4
  <2>6. c = calls[q]
    BY <2>1, <2>5 DEF IsNow
  <2>7. ASSUME NEW j \in 1..n, q < j PROVE calls[j].op # op
    <3>1. /\ j - 1 \in 1..(n - 1) /\ j - 1 \in 1..(n - 1 + l) /\ ~(j - 1 < i) /\ (j - 1) + 1 = j
          /\ m < j - 1
      BY <1>2, <2>2, <2>3, <2>7
    <3>2. IsNow(calls'[j - 1], calls[j], j \in js) /\ calls'[j - 1].op # op
      BY <1>1, <2>1, <3>1
    <3>3. QED
      BY <3>2 DEF IsNow
  <2> HIDE DEF q
  <2>8. QED
    BY <1>2, <2>1, <2>5, <2>6, <2>7 DEF Newest, LastOf
<1>6. ASSUME \A d \in Of(calls') : d.op # op PROVE calls[i] \in LastOf(calls, op)
  <2>1. ASSUME NEW j \in 1..n, i < j PROVE calls[j].op # op
    <3>1. PICK d \in Of(calls') : IsNow(d, calls[j], j \in js)
      BY <1>2, <2>1, FinishedOf
    <3>2. QED
      BY <1>6, <3>1 DEF IsNow
  <2>2. QED
    BY <1>2, <1>4, <2>1 DEF LastOf
<1>7. QED
  BY <1>5, <1>6 DEF op
=============================================================================
