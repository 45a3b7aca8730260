--------------------------- MODULE EncodingsProofs ---------------------------
(* Theorems about Encodings for every text, message and fragment.           *)
EXTENDS Encodings, SequenceTheorems, WellFoundedInduction, TLAPS

-----------------------------------------------------------------------------
(* Induction over the naturals, for sets: the library's theorem takes an    *)
(* operator, which the provers cannot instantiate; well-foundedness does    *)
(* not.                                                                     *)

\* < as a set of pairs is well founded on Nat.
LEMMA WellFounded ==
    \E R : IsWellFoundedOn(R, Nat) /\ \A x, y \in Nat : <<y, x>> \in R <=> y < x
<1>1. \A x, y \in Nat : <<y, x>> \in OpToRel(<, Nat) <=> y < x
  BY DEF OpToRel
<1>2. IsWellFoundedOn(OpToRel(<, Nat), Nat)
  BY NatLessThanWellFounded
<1> WITNESS OpToRel(<, Nat)
<1> QED BY <1>1, <1>2, Zenon

\* A set of naturals has a least element.
LEMMA Least ==
    ASSUME NEW T \in SUBSET Nat, T # {}
    PROVE  \E n \in T : \A m \in T : n <= m
<1>1. PICK R : IsWellFoundedOn(R, Nat) /\ \A x, y \in Nat : <<y, x>> \in R <=> y < x
  BY WellFounded
<1>2. \E x \in T : \A y \in T : ~ (<<y, x>> \in R)
  BY <1>1, WFMin, Zenon
<1>3. PICK n \in T : \A y \in T : ~ (<<y, n>> \in R)
  BY <1>2
<1>4. ASSUME NEW m \in T PROVE n <= m
  <2>1. m \in Nat /\ n \in Nat
    OBVIOUS
  <2>2. ~ (m < n)
    BY <1>1, <1>3, <2>1, Zenon
  <2> QED BY <2>1, <2>2
<1> QED BY <1>4

\* A set with 0 and every successor has all naturals.
LEMMA Induction ==
    ASSUME NEW S, 0 \in S, \A n \in Nat : n \in S => n + 1 \in S
    PROVE  \A n \in Nat : n \in S
<1>1. SUFFICES ASSUME Nat \ S # {} PROVE FALSE
  OBVIOUS
<1>2. PICK n \in Nat \ S : \A m \in Nat \ S : n <= m
  BY <1>1, Least
<1>3. n - 1 \in Nat /\ n - 1 \notin Nat \ S
  BY <1>2
<1> QED BY <1>2, <1>3

-----------------------------------------------------------------------------
(* FlattenSeq.                                                              *)

Flat(f, q) == f = [i \in 1..Len(q) |-> IF i = 1 THEN q[i] ELSE f[i - 1] \o q[i]]

\* The function that FlattenSeq defines by recursion exists.
LEMMA FlatExists ==
    ASSUME NEW V, NEW q \in Seq(Seq(V))
    PROVE  \E f \in [1..Len(q) -> Seq(V)] : Flat(f, q)
<1> DEFINE n == Len(q)
           Upto(f, m) == \A i \in 1..n : i <= m => f[i] = IF i = 1 THEN q[i] ELSE f[i - 1] \o q[i]
           S == {m \in Nat : \E f \in [1..n -> Seq(V)] : Upto(f, m)}
<1>a. n \in Nat /\ \A i \in 1..n : q[i] \in Seq(V)
  OBVIOUS
<1>1. 0 \in S
  <2>1. [i \in 1..n |-> q[i]] \in [1..n -> Seq(V)] /\ Upto([i \in 1..n |-> q[i]], 0)
    BY <1>a
  <2> QED BY <2>1
<1>2. ASSUME NEW m \in Nat, m \in S PROVE m + 1 \in S
  <2>1. PICK f \in [1..n -> Seq(V)] : Upto(f, m)
    BY <1>2
  <2>a. PICK v : v = IF m = 0 THEN q[1] ELSE f[m] \o q[m + 1]
    OBVIOUS
  <2>2. m + 1 \in 1..n => v \in Seq(V)
    <3>1. CASE m = 0
      BY <1>a, <2>a, <3>1
    <3>2. CASE m # 0 /\ m + 1 \in 1..n
      <4>1. m \in 1..n
        BY <1>a, <3>2
      <4>2. f[m] \in Seq(V) /\ q[m + 1] \in Seq(V)
        BY <1>a, <2>1, <3>2, <4>1
      <4> QED BY <2>a, <3>2, <4>2
    <3> QED BY <3>1, <3>2
  <2>3. PICK g \in [1..n -> Seq(V)] : \A i \in 1..n : g[i] = IF i = m + 1 THEN v ELSE f[i]
    <3> DEFINE g == [i \in 1..n |-> IF i = m + 1 THEN v ELSE f[i]]
    <3>1. g \in [1..n -> Seq(V)] /\ \A i \in 1..n : g[i] = IF i = m + 1 THEN v ELSE f[i]
      BY <2>2
    <3> HIDE DEF g
    <3> QED BY <3>1
  <2>4. ASSUME NEW i \in 1..n, i <= m + 1
        PROVE  g[i] = IF i = 1 THEN q[i] ELSE g[i - 1] \o q[i]
    <3>1. i \in Nat /\ i # 1 => i - 1 \in 1..n /\ i - 1 # m + 1
      BY <1>a, <2>4
    <3>2. CASE i = m + 1
      <4>1. g[i] = v
        BY <2>3, <3>2
      <4>2. CASE i = 1
        BY <2>a, <3>2, <4>1, <4>2
      <4>3. CASE i # 1
        <5>1. g[i - 1] = f[m]
          BY <2>3, <3>1, <3>2, <4>3
        <5>2. m # 0 /\ i = m + 1
          BY <3>2, <4>3
        <5> QED BY <2>a, <4>1, <4>3, <5>1, <5>2, Zenon
      <4> QED BY <4>2, <4>3
    <3>3. CASE i # m + 1
      <4>1. i <= m /\ g[i] = f[i] /\ (i # 1 => g[i - 1] = f[i - 1])
        BY <1>a, <2>3, <2>4, <3>1, <3>3
      <4> QED BY <2>1, <4>1
    <3> QED BY <3>2, <3>3
  <2>5. Upto(g, m + 1)
    BY <2>4
  <2> HIDE DEF Upto
  <2> QED BY <2>5
<1>3. n \in S
  <2> HIDE DEF S
  <2> QED BY <1>1, <1>2, <1>a, Induction
<1>4. PICK f \in [1..n -> Seq(V)] : Upto(f, n)
  BY <1>3
<1>5. \A i \in 1..n : f[i] = IF i = 1 THEN q[i] ELSE f[i - 1] \o q[i]
  <2>1. \A i \in 1..n : i <= n
    BY <1>a
  <2> QED BY <1>4, <2>1
<1>6. Flat(f, q)
  BY <1>5 DEF Flat
<1> QED BY <1>6

\* The steps of FlattenSeq: its value after each of the sequences.
LEMMA FlattenSteps ==
    ASSUME NEW V, NEW q \in Seq(Seq(V))
    PROVE  \E f \in [0..Len(q) -> Seq(V)] :
              /\ f[0] = <<>> /\ f[Len(q)] = FlattenSeq(q)
              /\ \A i \in 1..Len(q) : f[i] = f[i - 1] \o q[i]
<1> DEFINE n == Len(q)
<1>a. n \in Nat /\ q \in [1..n -> Seq(V)]
  OBVIOUS
<1>1. CASE n = 0
  <2>1. q = <<>> /\ FlattenSeq(q) = <<>>
    BY <1>1 DEF FlattenSeq
  <2> DEFINE f == [i \in 0..n |-> <<>>]
  <2>2. f \in [0..n -> Seq(V)] /\ f[0] = <<>> /\ f[n] = <<>> /\ 1..n = {}
    BY <1>1
  <2> HIDE DEF f
  <2> QED BY <2>1, <2>2
<1>2. CASE n # 0
  <2>1. \E g : Flat(g, q)
    BY FlatExists
  <2> DEFINE g == CHOOSE h : Flat(h, q)
  <2>2. Flat(g, q)
    BY <2>1, Zenon
  <2>3. FlattenSeq(q) = g[n]
    BY <1>2, Zenon DEF FlattenSeq, Flat
  <2> HIDE DEF g
  <2>4. \A i \in 1..n : g[i] = IF i = 1 THEN q[i] ELSE g[i - 1] \o q[i]
    BY <2>2 DEF Flat
  <2> DEFINE f == [i \in 0..n |-> IF i = 0 THEN <<>> ELSE g[i]]
             S == {m \in Nat : m \in 1..n => g[m] \in Seq(V)}
  <2>5. \A m \in Nat : m \in S
    <3>1. 0 \in S
      OBVIOUS
    <3>2. ASSUME NEW m \in Nat, m \in S PROVE m + 1 \in S
      <4>1. SUFFICES ASSUME m + 1 \in 1..n PROVE g[m + 1] \in Seq(V)
        OBVIOUS
      <4>2. g[m + 1] = IF m + 1 = 1 THEN q[m + 1] ELSE g[m + 1 - 1] \o q[m + 1]
        BY <2>4, <4>1
      <4>3. q[m + 1] \in Seq(V)
        BY <1>a, <4>1
      <4>4. CASE m = 0
        BY <4>2, <4>3, <4>4
      <4>5. CASE m # 0
        <5>1. m \in 1..n /\ m + 1 - 1 = m /\ m + 1 # 1
          BY <1>a, <4>1, <4>5
        <5>2. g[m] \in Seq(V)
          BY <3>2, <5>1
        <5> QED BY <4>2, <4>3, <5>1, <5>2
      <4> QED BY <4>4, <4>5
    <3> HIDE DEF S
    <3> QED BY <3>1, <3>2, Induction
  <2>6. \A m \in 1..n : g[m] \in Seq(V)
    BY <1>a, <2>5
  <2>7. f \in [0..n -> Seq(V)]
    BY <1>a, <2>6
  <2>8. f[0] = <<>> /\ \A i \in 1..n : f[i] = g[i]
    BY <1>a
  <2>9. ASSUME NEW i \in 1..n PROVE f[i] = f[i - 1] \o q[i]
    <3>1. CASE i = 1
      <4>1. f[i] = q[i] /\ i - 1 = 0 /\ q[i] \in Seq(V)
        BY <1>a, <2>4, <2>8, <3>1
      <4>2. <<>> \o q[i] = q[i]
        BY <4>1
      <4> HIDE DEF f
      <4> QED BY <2>8, <4>1, <4>2
    <3>2. CASE i # 1
      <4>1. i - 1 \in 1..n
        BY <1>a, <3>2
      <4> HIDE DEF f
      <4> QED BY <2>4, <2>8, <3>2, <4>1
    <3> QED BY <3>1, <3>2
  <2>10. n \in 1..n
    BY <1>a, <1>2
  <2> HIDE DEF f
  <2> QED BY <2>3, <2>7, <2>8, <2>9, <2>10
<1> QED BY <1>1, <1>2

\* A concatenation, element by element.
LEMMA Concat ==
    ASSUME NEW V, NEW a \in Seq(V), NEW b \in Seq(V)
    PROVE  /\ a \o b \in Seq(V) /\ Len(a \o b) = Len(a) + Len(b)
           /\ \A d \in 1..Len(a) : (a \o b)[d] = a[d]
           /\ \A d \in 1..Len(b) : (a \o b)[Len(a) + d] = b[d]
OBVIOUS

\* Where FlattenSeq puts each sequence.
Placed(q, t, p) ==
    /\ p[1] = 1 /\ p[Len(q) + 1] = Len(t) + 1
    /\ \A k \in 1..(Len(q) + 1) : p[k] \in 1..(Len(t) + 1)
    /\ \A k \in 1..Len(q) :
        /\ p[k + 1] = p[k] + Len(q[k])
        /\ \A d \in 1..Len(q[k]) : t[p[k] + d - 1] = q[k][d]

LEMMA Placement ==
    ASSUME NEW V, NEW q \in Seq(Seq(V))
    PROVE  /\ FlattenSeq(q) \in Seq(V)
           /\ \E p \in [1..(Len(q) + 1) -> Nat] : Placed(q, FlattenSeq(q), p)
<1> DEFINE n == Len(q)
           t == FlattenSeq(q)
<1>a. n \in Nat /\ q \in [1..n -> Seq(V)]
  OBVIOUS
<1>1. PICK f \in [0..n -> Seq(V)] :
          /\ f[0] = <<>> /\ f[n] = t
          /\ \A i \in 1..n : f[i] = f[i - 1] \o q[i]
  BY FlattenSteps
<1> HIDE DEF t
<1>b. \A k \in 0..n : f[k] \in Seq(V) /\ Len(f[k]) \in Nat
  OBVIOUS
<1>2. PICK l \in [0..n -> Nat] : \A k \in 0..n : l[k] = Len(f[k])
  <2> DEFINE l == [k \in 0..n |-> Len(f[k])]
  <2>1. l \in [0..n -> Nat] /\ \A k \in 0..n : l[k] = Len(f[k])
    BY <1>b
  <2> HIDE DEF l
  <2> QED BY <2>1
<1> DEFINE Prefix(k, m) == l[k] <= l[m] /\ \A d \in 1..l[k] : f[m][d] = f[k][d]
           S == {m \in Nat : m <= n => \A k \in 0..m : Prefix(k, m)}
<1>3. ASSUME NEW k \in 1..n
      PROVE  /\ l[k] = l[k - 1] + Len(q[k])
             /\ \A d \in 1..l[k - 1] : f[k][d] = f[k - 1][d]
             /\ \A d \in 1..Len(q[k]) : f[k][l[k - 1] + d] = q[k][d]
  <2>1. k - 1 \in 0..n /\ k \in 0..n
    BY <1>a
  <2>2. f[k - 1] \in Seq(V) /\ q[k] \in Seq(V) /\ f[k] = f[k - 1] \o q[k]
    BY <1>a, <1>1, <2>1
  <2>3. l[k] = Len(f[k]) /\ l[k - 1] = Len(f[k - 1])
    BY <1>2, <2>1
  <2>4. \A a, b \in Seq(V) :
           /\ Len(a \o b) = Len(a) + Len(b)
           /\ \A d \in 1..Len(a) : (a \o b)[d] = a[d]
           /\ \A d \in 1..Len(b) : (a \o b)[Len(a) + d] = b[d]
    OBVIOUS
  <2>5. PICK a, b \in Seq(V) : a = f[k - 1] /\ b = q[k]
    BY <2>2
  <2>6. /\ Len(a \o b) = Len(a) + Len(b)
        /\ \A d \in 1..Len(a) : (a \o b)[d] = a[d]
        /\ \A d \in 1..Len(b) : (a \o b)[Len(a) + d] = b[d]
    BY <2>4, Zenon
  <2>7. f[k] = a \o b
    BY <2>2, <2>5
  <2>8. l[k] = Len(a \o b) /\ l[k - 1] = Len(a)
    BY <2>3, <2>5, <2>7
  <2> QED BY <2>5, <2>6, <2>7, <2>8, Zenon
<1>4. \A m \in Nat : m \in S
  <2>1. 0 \in S
    BY <1>2
  <2>2. ASSUME NEW m \in Nat, m \in S PROVE m + 1 \in S
    <3>1. SUFFICES ASSUME m + 1 <= n, NEW k \in 0..(m + 1) PROVE Prefix(k, m + 1)
      OBVIOUS
    <3>2. l[m + 1] \in Nat /\ l[m] \in Nat /\ l[k] \in Nat
      BY <1>a, <1>2, <3>1
    <3>3. CASE k = m + 1
      BY <3>2, <3>3
    <3>4. CASE k # m + 1
      <4>1. Prefix(k, m) /\ m + 1 \in 1..n /\ m + 1 - 1 = m
        BY <1>a, <2>2, <3>1, <3>4
      <4>2. q[m + 1] \in Seq(V) /\ Len(q[m + 1]) \in Nat
        BY <1>a, <4>1
      <4>3. l[m + 1] = l[m] + Len(q[m + 1]) /\ \A d \in 1..l[m] : f[m + 1][d] = f[m][d]
        BY <1>3, <4>1
      <4>4. ASSUME NEW d \in 1..l[k] PROVE f[m + 1][d] = f[k][d]
        <5>1. d \in 1..l[m]
          BY <3>2, <4>1
        <5> QED BY <4>1, <4>3, <5>1
      <4>5. l[k] <= l[m + 1]
        BY <3>2, <4>1, <4>2, <4>3
      <4> QED BY <4>4, <4>5
    <3> QED BY <3>3, <3>4
  <2> HIDE DEF S
  <2> QED BY <2>1, <2>2, Induction
<1>5. \A k \in 0..n : Prefix(k, n)
  BY <1>a, <1>4
<1> DEFINE p == [k \in 1..(n + 1) |-> l[k - 1] + 1]
<1>6. p \in [1..(n + 1) -> Nat] /\ \A k \in 1..(n + 1) : p[k] = l[k - 1] + 1
  BY <1>a, <1>2
<1>7. p[1] = 1 /\ p[n + 1] = Len(t) + 1
  <2>1. 1 \in 1..(n + 1) /\ n + 1 \in 1..(n + 1) /\ n + 1 - 1 = n /\ 1 - 1 = 0
    BY <1>a
  <2>2. p[1] = l[0] + 1 /\ p[n + 1] = l[n] + 1
    BY <1>6, <2>1
  <2>3. l[0] = 0 /\ l[n] = Len(t)
    BY <1>a, <1>1, <1>2
  <2> QED BY <2>2, <2>3
<1>8. ASSUME NEW k \in 1..n
      PROVE  /\ p[k + 1] = p[k] + Len(q[k])
             /\ \A d \in 1..Len(q[k]) : t[p[k] + d - 1] = q[k][d]
  <2>1. /\ k \in 1..(n + 1) /\ k + 1 \in 1..(n + 1) /\ k + 1 - 1 = k
        /\ k \in 0..n /\ k - 1 \in 0..n
    BY <1>a
  <2>2. l[k] \in Nat /\ l[k - 1] \in Nat /\ Len(q[k]) \in Nat
    BY <1>a, <1>2, <2>1
  <2>3. p[k] = l[k - 1] + 1 /\ p[k + 1] = l[k] + 1
    BY <1>6, <2>1
  <2>4. Prefix(k, n) /\ f[n] = t
    BY <1>1, <1>5, <2>1
  <2> HIDE DEF p
  <2>5. ASSUME NEW d \in 1..Len(q[k]) PROVE t[p[k] + d - 1] = q[k][d]
    <3>1. p[k] + d - 1 = l[k - 1] + d /\ l[k - 1] + d \in 1..l[k]
      <4>1. d \in Nat /\ 1 <= d /\ d <= Len(q[k]) /\ l[k] = l[k - 1] + Len(q[k])
        BY <1>3, <2>2
      <4>2. \A x, y, z, w \in Nat :
               z = x + y /\ w \in 1..y => x + 1 + w - 1 = x + w /\ x + w \in 1..z
        OBVIOUS
      <4>3. d \in 1..Len(q[k])
        OBVIOUS
      <4>4. l[k - 1] + 1 + d - 1 = l[k - 1] + d /\ l[k - 1] + d \in 1..l[k]
        BY <2>2, <4>1, <4>2, <4>3
      <4> QED BY <2>3, <4>4
    <3> QED BY <1>3, <2>4, <3>1
  <2>6. p[k + 1] = p[k] + Len(q[k])
    <3>1. l[k] = l[k - 1] + Len(q[k])
      BY <1>3, Zenon
    <3>2. \A x, y, z \in Nat : z = x + y => z + 1 = x + 1 + y
      OBVIOUS
    <3>3. l[k] + 1 = l[k - 1] + 1 + Len(q[k])
      BY <2>2, <3>1, <3>2, Zenon
    <3> QED BY <2>3, <3>3, Zenon
  <2> QED BY <2>5, <2>6, Zenon
<1> HIDE DEF p
<1>11. ASSUME NEW k \in 1..(n + 1) PROVE p[k] \in 1..(Len(t) + 1)
  <2>1. k - 1 \in 0..n /\ l[k - 1] \in Nat /\ p[k] = l[k - 1] + 1
    BY <1>2, <1>6, <1>a
  <2>2. l[k - 1] <= l[n] /\ l[n] = Len(t) /\ l[n] \in Nat
    <3>1. n \in 0..n
      BY <1>a
    <3> QED BY <1>1, <1>2, <1>5, <2>1, <3>1
  <2> QED BY <2>1, <2>2
<1>9. Placed(q, t, p)
  BY <1>7, <1>8, <1>11 DEF Placed
<1>10. t \in Seq(V)
  BY <1>a, <1>1
<1> QED BY <1>6, <1>9, <1>10 DEF t

-----------------------------------------------------------------------------
(* decodeCLIXMLString.                                                      *)

LEMMA AtEnd ==
    ASSUME NEW t, NEW f, NEW i, i > Len(t)
    PROVE  DecodedAt(t, i, f) = <<>>
BY DEF DecodedAt

\* The step reads what the decoder makes of a later position.
LEMMA Onwards ==
    ASSUME NEW t \in Seq(Int), NEW f, NEW g, NEW i \in Nat,
           f[i + 1] = g[i + 1], f[i + 7] = g[i + 7], f[i + 14] = g[i + 14]
    PROVE  DecodedAt(t, i, f) = DecodedAt(t, i, g)
<1>1. CASE i > Len(t)
  BY <1>1 DEF DecodedAt
<1>2. CASE ~ (i > Len(t)) /\ PairAt(t, i)
  BY <1>2 DEF DecodedAt
<1>3. CASE ~ (i > Len(t)) /\ ~ PairAt(t, i) /\ EscapeAt(t, i)
  BY <1>3 DEF DecodedAt
<1>4. CASE ~ (i > Len(t)) /\ ~ PairAt(t, i) /\ ~ EscapeAt(t, i)
  BY <1>4 DEF DecodedAt
<1> QED BY <1>1, <1>2, <1>3, <1>4

Decoder(t, f) == f = [i \in 1..(Len(t) + 14) |-> DecodedAt(t, i, f)]

\* The function that decodeCLIXMLString defines by recursion exists.
LEMMA DecoderExists ==
    ASSUME NEW t \in Seq(Int)
    PROVE  \E f : Decoder(t, f)
<1> DEFINE n == Len(t)
           D == 1..(n + 14)
           Down(f, m) == \A i \in D : i > n + 14 - m => f[i] = DecodedAt(t, i, f)
           S == {m \in Nat : \E f : f = [i \in D |-> f[i]] /\ Down(f, m)}
<1>a. n \in Nat
  OBVIOUS
<1>1. 0 \in S
  <2>1. PICK f : f = [i \in D |-> <<>>]
    OBVIOUS
  <2>2. f = [i \in D |-> f[i]]
    BY <2>1
  <2>3. Down(f, 0)
    BY <1>a
  <2> QED BY <2>2, <2>3
<1>2. ASSUME NEW m \in Nat, m \in S PROVE m + 1 \in S
  <2>1. PICK f : f = [i \in D |-> f[i]] /\ Down(f, m)
    BY <1>2
  <2>2. PICK j : j = n + 14 - m
    OBVIOUS
  <2>3. PICK v : v = DecodedAt(t, j, f)
    OBVIOUS
  <2>4. PICK g : g = [i \in D |-> g[i]] /\ \A i \in D : g[i] = IF i = j THEN v ELSE f[i]
    <3>1. PICK g : g = [i \in D |-> IF i = j THEN v ELSE f[i]]
      OBVIOUS
    <3>2. \A i \in D : g[i] = IF i = j THEN v ELSE f[i]
      BY <3>1
    <3>3. g = [i \in D |-> g[i]]
      BY <3>1
    <3> QED BY <3>2, <3>3
  <2>5. ASSUME NEW i \in D, i >= j PROVE DecodedAt(t, i, g) = DecodedAt(t, i, f)
    <3>1. CASE i > n
      BY <3>1 DEF DecodedAt
    <3>2. CASE i <= n
      <4>1. /\ i \in Nat /\ i + 1 \in D /\ i + 7 \in D /\ i + 14 \in D
            /\ i + 1 # j /\ i + 7 # j /\ i + 14 # j
        BY <1>a, <2>2, <2>5, <3>2, SMTT(30)
      <4>2. g[i + 1] = f[i + 1] /\ g[i + 7] = f[i + 7] /\ g[i + 14] = f[i + 14]
        BY <2>4, <4>1, Zenon
      <4> QED BY <4>1, <4>2, Onwards, ZenonT(30)
    <3> QED BY <1>a, <3>1, <3>2
  <2>6. ASSUME NEW i \in D, i > n + 14 - (m + 1) PROVE g[i] = DecodedAt(t, i, g)
    <3>1. i >= j
      BY <1>a, <2>2, <2>6
    <3>2. DecodedAt(t, i, g) = DecodedAt(t, i, f)
      BY <2>5, <3>1
    <3>3. CASE i = j
      <4>1. g[i] = v
        BY <2>4, <3>3, Zenon
      <4> QED BY <2>3, <3>2, <3>3, <4>1, Zenon
    <3>4. CASE i # j
      <4>1. g[i] = f[i]
        BY <2>4, <3>4, Zenon
      <4>2. i > n + 14 - m
        BY <1>a, <2>2, <3>1, <3>4
      <4>3. f[i] = DecodedAt(t, i, f)
        BY <2>1, <4>2, Zenon
      <4> QED BY <3>2, <4>1, <4>3, Zenon
    <3> QED BY <3>3, <3>4
  <2>7. Down(g, m + 1)
    BY <2>6
  <2> HIDE DEF Down
  <2> QED BY <2>4, <2>7
<1>3. n + 14 \in S
  <2> HIDE DEF S
  <2> QED BY <1>1, <1>2, <1>a, Induction
<1>4. PICK f : f = [i \in D |-> f[i]] /\ Down(f, n + 14)
  BY <1>3
<1>5. \A i \in D : f[i] = DecodedAt(t, i, f)
  <2>1. \A i \in D : i > n + 14 - (n + 14)
    BY <1>a
  <2> QED BY <1>4, <2>1, Zenon
<1>6. [i \in D |-> f[i]] = [i \in D |-> DecodedAt(t, i, f)]
  BY <1>5, Zenon
<1>7. f = [i \in D |-> DecodedAt(t, i, f)]
  BY <1>4, <1>6, Zenon
<1> QED BY <1>7 DEF Decoder

\* What decodeCLIXMLString makes of a text from each of its positions.
LEMMA Decoding ==
    ASSUME NEW t \in Seq(Int)
    PROVE  \E f : /\ decodeCLIXMLString(t) = f[1]
                  /\ \A i \in 1..(Len(t) + 14) : f[i] = DecodedAt(t, i, f)
<1> DEFINE f == CHOOSE h : Decoder(t, h)
<1>1. Decoder(t, f)
  BY DecoderExists, Zenon
<1>2. decodeCLIXMLString(t) = f[1]
  BY Zenon DEF decodeCLIXMLString, Decoder
<1> HIDE DEF f
<1>3. \A i \in 1..(Len(t) + 14) : f[i] = DecodedAt(t, i, f)
  BY <1>1 DEF Decoder
<1> QED BY <1>2, <1>3

-----------------------------------------------------------------------------
(* The escapes.                                                             *)

\* Characters that XML leaves as they are.
Printable == {c \in Int : XmlCharacter(c)}

\* A 16-bit unit.
Units == {u \in Nat : u <= 65535}

LEMMA Hex ==
    ASSUME NEW n \in 0..15
    PROVE  /\ HexDigit(n) \in 48..57 \cup 65..70
           /\ isHexDigit(HexDigit(n)) /\ Digit(HexDigit(n)) = n
BY DEF HexDigit, isHexDigit, Digit

\* A unit is its four digits.
LEMMA FourDigits ==
    ASSUME NEW u \in Units
    PROVE  /\ u \div 4096 \in 0..15 /\ (u \div 256) % 16 \in 0..15
           /\ (u \div 16) % 16 \in 0..15 /\ u % 16 \in 0..15
           /\ u = 4096 * (u \div 4096) + 256 * ((u \div 256) % 16)
                  + 16 * ((u \div 16) % 16) + (u % 16)
<1>1. u \in Nat /\ u <= 65535
  BY DEF Units
<1>2. \A v \in Nat : /\ v \div 16 \in Nat /\ v % 16 \in 0..15
                     /\ v = 16 * (v \div 16) + (v % 16)
  OBVIOUS
<1>3. \A v \in Nat : v \div 256 = (v \div 16) \div 16
  OBVIOUS
<1>4. \A v \in Nat : v \div 4096 = (v \div 256) \div 16
  OBVIOUS
<1>5. PICK a \in Nat : a = u \div 16
  BY <1>1, <1>2
<1>6. PICK b \in Nat : b = a \div 16
  BY <1>2
<1>7. PICK c \in Nat : c = b \div 16
  BY <1>2
<1>8. u \div 256 = b /\ u \div 4096 = c
  BY <1>1, <1>3, <1>4, <1>5, <1>6, <1>7
<1>9. u = 16 * a + (u % 16) /\ u % 16 \in 0..15
  BY <1>1, <1>2, <1>5
<1>10. a = 16 * b + (a % 16) /\ a % 16 \in 0..15
  BY <1>2, <1>6
<1>11. b = 16 * c + (b % 16) /\ b % 16 \in 0..15
  BY <1>2, <1>7
<1>12. PICK x, y, z \in 0..15 : x = u % 16 /\ y = a % 16 /\ z = b % 16
  BY <1>9, <1>10, <1>11
<1>13. c \in 0..15 /\ u = 4096 * c + 256 * z + 16 * y + x
  BY <1>1, <1>9, <1>10, <1>11, <1>12
<1> QED BY <1>5, <1>8, <1>12, <1>13

LEMMA EscapeForm ==
    ASSUME NEW u \in Units
    PROVE  /\ writeHex4(u) \in Seq(Printable) /\ Len(writeHex4(u)) = 7
           /\ writeHex4(u)[1] = Underscore /\ writeHex4(u)[2] = 120
           /\ writeHex4(u)[7] = Underscore
           /\ \A d \in 3..6 : isHexDigit(writeHex4(u)[d])
           /\ parseHex4(<<writeHex4(u)[3], writeHex4(u)[4], writeHex4(u)[5], writeHex4(u)[6]>>) = u
<1>1. PICK a, b, c, d :
        /\ a = HexDigit(u \div 4096) /\ b = HexDigit((u \div 256) % 16)
        /\ c = HexDigit((u \div 16) % 16) /\ d = HexDigit(u % 16)
  OBVIOUS
<1>2. /\ a \in 48..57 \cup 65..70 /\ b \in 48..57 \cup 65..70
      /\ c \in 48..57 \cup 65..70 /\ d \in 48..57 \cup 65..70
  BY <1>1, FourDigits, Hex
<1>3. isHexDigit(a) /\ isHexDigit(b) /\ isHexDigit(c) /\ isHexDigit(d)
  BY <1>1, FourDigits, Hex
<1>4. 4096 * Digit(a) + 256 * Digit(b) + 16 * Digit(c) + Digit(d) = u
  <2>1. Digit(a) = u \div 4096
    BY <1>1, FourDigits, Hex
  <2>2. Digit(b) = (u \div 256) % 16
    BY <1>1, FourDigits, Hex
  <2>3. Digit(c) = (u \div 16) % 16
    BY <1>1, FourDigits, Hex
  <2>4. Digit(d) = u % 16
    BY <1>1, FourDigits, Hex
  <2> QED BY <2>1, <2>2, <2>3, <2>4, FourDigits
<1>5. writeHex4(u) = <<Underscore, 120, a, b, c, d, Underscore>>
  BY <1>1 DEF writeHex4
<1>6. parseHex4(<<a, b, c, d>>) = u
  BY <1>4 DEF parseHex4
<1>7. \A x \in 3..6 : x = 3 \/ x = 4 \/ x = 5 \/ x = 6
  OBVIOUS
<1>8. PICK w : w = <<Underscore, 120, a, b, c, d, Underscore>>
  OBVIOUS
<1>9. /\ w \in Seq(Printable) /\ Len(w) = 7
      /\ w[1] = Underscore /\ w[2] = 120 /\ w[7] = Underscore
      /\ w[3] = a /\ w[4] = b /\ w[5] = c /\ w[6] = d
  <2>1. \A v \in Int : 32 <= v /\ v <= 55295 => v \in Printable
    BY DEF Printable, XmlCharacter
  <2>2. /\ Underscore \in Printable /\ 120 \in Printable /\ a \in Printable
        /\ b \in Printable /\ c \in Printable /\ d \in Printable
    BY <1>2, <2>1 DEF Underscore
  <2> QED BY <1>8, <2>2
<1>10. \A x \in 3..6 : isHexDigit(w[x])
  BY <1>3, <1>7, <1>9
<1> QED BY <1>5, <1>6, <1>8, <1>9, <1>10, Zenon

\* A slice of four.
LEMMA Four ==
    ASSUME NEW V, NEW t \in Seq(V), NEW i \in 1..Len(t), i + 6 <= Len(t)
    PROVE  SubSeq(t, i + 2, i + 5) = <<t[i + 2], t[i + 3], t[i + 4], t[i + 5]>>
<1>1. PICK n \in Nat : n = Len(t)
  OBVIOUS
<1>2. i \in Nat /\ 1 <= i + 2 /\ i + 5 <= n
  BY <1>1
<1>3. PICK w : w = SubSeq(t, i + 2, i + 5)
  OBVIOUS
<1>4. w \in Seq(V) /\ Len(w) = 4
  BY <1>1, <1>2, <1>3
<1>5. w[1] = t[i + 2] /\ w[2] = t[i + 3] /\ w[3] = t[i + 4] /\ w[4] = t[i + 5]
  BY <1>1, <1>2, <1>3
<1>6. w = <<w[1], w[2], w[3], w[4]>>
  BY <1>4
<1> QED BY <1>3, <1>5, <1>6, Zenon

\* The decoder recognizes what writeHex4 wrote, wherever it stands.
LEMMA EscapeRead ==
    ASSUME NEW t \in Seq(Int), NEW i \in 1..Len(t), NEW u \in Units,
           i + 6 <= Len(t), \A d \in 1..7 : t[i + d - 1] = writeHex4(u)[d]
    PROVE  EscapeAt(t, i) /\ UnitAt(t, i) = u
<1> DEFINE w == writeHex4(u)
<1>1. /\ w[1] = Underscore /\ w[2] = 120 /\ w[7] = Underscore
      /\ \A d \in 3..6 : isHexDigit(w[d])
      /\ parseHex4(<<w[3], w[4], w[5], w[6]>>) = u
  BY EscapeForm
<1> HIDE DEF w
<1>2. \A d \in 1..7 : t[i + d - 1] = w[d]
  BY DEF w
<1>3. /\ t[i] = w[1] /\ t[i + 1] = w[2] /\ t[i + 2] = w[3] /\ t[i + 3] = w[4]
      /\ t[i + 4] = w[5] /\ t[i + 5] = w[6] /\ t[i + 6] = w[7]
  <2>1. /\ i + 1 - 1 = i /\ i + 2 - 1 = i + 1 /\ i + 3 - 1 = i + 2 /\ i + 4 - 1 = i + 3
        /\ i + 5 - 1 = i + 4 /\ i + 6 - 1 = i + 5 /\ i + 7 - 1 = i + 6
    OBVIOUS
  <2>2. {1, 2, 3, 4, 5, 6, 7} \subseteq 1..7
    OBVIOUS
  <2> QED BY <1>2, <2>1, <2>2
<1>4. \A j \in 2..5 : isHexDigit(t[i + j])
  <2>1. \A j \in 2..5 : j = 2 \/ j = 3 \/ j = 4 \/ j = 5
    OBVIOUS
  <2>2. isHexDigit(w[3]) /\ isHexDigit(w[4]) /\ isHexDigit(w[5]) /\ isHexDigit(w[6])
    BY <1>1
  <2> QED BY <1>3, <2>1, <2>2
<1>5. EscapeAt(t, i)
  BY <1>1, <1>3, <1>4 DEF EscapeAt, Cross
<1>6. SubSeq(t, i + 2, i + 5) = <<w[3], w[4], w[5], w[6]>>
  <2>2. SubSeq(t, i + 2, i + 5) = <<t[i + 2], t[i + 3], t[i + 4], t[i + 5]>>
    BY Four, Zenon
  <2> QED BY <1>3, <2>2, Zenon
<1>7. UnitAt(t, i) = u
  BY <1>1, <1>6, Zenon DEF UnitAt
<1> QED BY <1>5, <1>7

\* A character above U+FFFF is its two surrogates.
Combined(high, low) == 65536 + (high - 55296) * 1024 + (low - 56320)

LEMMA Surrogates ==
    ASSUME NEW r \in Nat, r > 65535, r <= 1114111,
           NEW high, high = 55296 + ((r - 65536) \div 1024),
           NEW low, low = 56320 + ((r - 65536) % 1024)
    PROVE  /\ high \in Units /\ isHighSurrogate(high)
           /\ low \in Units /\ isLowSurrogate(low)
           /\ r = Combined(high, low)
<1>1. PICK n \in Nat : n = r - 65536
  OBVIOUS
<1>2. \A x \in Nat : /\ x \div 1024 \in Nat /\ x % 1024 \in Nat /\ x % 1024 < 1024
                     /\ x = (x \div 1024) * 1024 + (x % 1024)
  OBVIOUS
<1>3. PICK a, b \in Nat : a = n \div 1024 /\ b = n % 1024
  BY <1>2
<1>4. n = a * 1024 + b /\ b < 1024 /\ n <= 1048575 /\ r = 65536 + n
  BY <1>1, <1>2, <1>3
<1>5. high = 55296 + a /\ low = 56320 + b
  BY <1>1, <1>3
<1>6. a <= 1023
  BY <1>4
<1> QED BY <1>4, <1>5, <1>6 DEF Units, isHighSurrogate, isLowSurrogate, Combined

\* How a character is written: as it is, as an escape, as a pair of escapes.
Plain(s, k) ==
    /\ Piece(s, k) = <<s[k]>> /\ s[k] > 31
    /\ s[k] = Underscore /\ k < Len(s) => s[k + 1] \notin Cross

Escaped(s, k) ==
    Piece(s, k) = writeHex4(s[k]) /\ s[k] \in Units /\ ~isSurrogate(s[k])

Paired(s, k) ==
    \E high, low \in Units :
        /\ isHighSurrogate(high) /\ isLowSurrogate(low)
        /\ Piece(s, k) = writeHex4(high) \o writeHex4(low)
        /\ s[k] = Combined(high, low)

LEMMA Pieces ==
    ASSUME NEW s \in Seq(Scalars), NEW k \in 1..Len(s)
    PROVE  Plain(s, k) \/ Escaped(s, k) \/ Paired(s, k)
<1>1. s[k] \in Nat /\ s[k] <= 1114111 /\ ~isSurrogate(s[k])
  BY DEF Scalars
<1>2. CASE s[k] = Underscore /\ k < Len(s) /\ s[k + 1] \in Cross
  <2>1. Piece(s, k) = writeHex4(s[k])
    BY <1>2 DEF Piece
  <2>2. s[k] \in Units
    BY <1>2 DEF Units, Underscore
  <2> QED BY <1>1, <2>1, <2>2 DEF Escaped
<1>3. CASE ~ (s[k] = Underscore /\ k < Len(s) /\ s[k + 1] \in Cross)
  <2>1. Piece(s, k) = Written(s[k])
    BY <1>3 DEF Piece
  <2>2. CASE ~ needsCLIXMLCharEscape(s[k])
    <3>1. Piece(s, k) = <<s[k]>>
      BY <2>1, <2>2 DEF Written
    <3>2. s[k] > 31
      <4>1. \A r \in Nat : ~ needsCLIXMLCharEscape(r) => r > 31
        BY DEF needsCLIXMLCharEscape
      <4> QED BY <1>1, <2>2, <4>1
    <3> QED BY <1>3, <3>1, <3>2 DEF Plain
  <2>3. CASE needsCLIXMLCharEscape(s[k]) /\ s[k] <= 65535
    <3>1. Piece(s, k) = writeHex4(s[k])
      BY <2>1, <2>3 DEF Written
    <3> QED BY <1>1, <2>3, <3>1 DEF Escaped, Units
  <2>4. CASE needsCLIXMLCharEscape(s[k]) /\ ~ (s[k] <= 65535)
    <3>1. PICK r \in Nat : r = s[k]
      BY <1>1
    <3>2. r > 65535 /\ r <= 1114111 /\ needsCLIXMLCharEscape(r) /\ Piece(s, k) = Written(r)
      BY <1>1, <2>1, <2>4, <3>1
    <3>3. PICK high : high = 55296 + ((r - 65536) \div 1024)
      OBVIOUS
    <3>4. PICK low : low = 56320 + ((r - 65536) % 1024)
      OBVIOUS
    <3>5. /\ high \in Units /\ isHighSurrogate(high)
          /\ low \in Units /\ isLowSurrogate(low)
          /\ r = Combined(high, low)
      BY <3>2, <3>3, <3>4, Surrogates
    <3>6. Written(r) = writeHex4(high) \o writeHex4(low)
      BY <3>2, <3>3, <3>4, SMT DEF Written
    <3>7. Piece(s, k) = writeHex4(high) \o writeHex4(low)
      BY <3>2, <3>6
    <3>8. s[k] = Combined(high, low)
      BY <3>1, <3>5
    <3> QED BY <3>5, <3>7, <3>8, Zenon DEF Paired
  <2> QED BY <2>2, <2>3, <2>4
<1> QED BY <1>2, <1>3

LEMMA Join ==
    ASSUME NEW V, NEW a \in Seq(V), NEW b \in Seq(V), Len(a) >= 1
    PROVE  a \o b \in Seq(V) /\ Len(a \o b) >= 1 /\ (a \o b)[1] = a[1]
<1>1. a \o b \in Seq(V) /\ Len(b) \in Nat
  OBVIOUS
<1>2. Len(a \o b) = Len(a) + Len(b)
  BY Concat
<1>3. 1 \in 1..Len(a)
  OBVIOUS
<1>4. (a \o b)[1] = a[1]
  BY <1>3, Concat
<1> QED BY <1>1, <1>2, <1>4

\* A piece holds something, begins with the character or with an underscore, and
\* XML changes nothing in it unless the character is one that is left alone.
LEMMA PieceForm ==
    ASSUME NEW s \in Seq(Scalars), NEW k \in 1..Len(s)
    PROVE  /\ Piece(s, k) \in Seq(Int) /\ Len(Piece(s, k)) >= 1
           /\ Piece(s, k)[1] \in {s[k], Underscore}
           /\ s[k] \notin Noncharacters => Piece(s, k) \in Seq(Printable)
<1>1. CASE Plain(s, k)
  <2>1. s[k] \in Int /\ (s[k] \notin Noncharacters => s[k] \in Printable)
    <3>1. s[k] \in Nat /\ s[k] <= 1114111 /\ ~isSurrogate(s[k]) /\ s[k] > 31
      BY <1>1 DEF Scalars, Plain
    <3>2. PICK r \in Nat : r = s[k]
      BY <3>1
    <3>3. r <= 1114111 /\ ~isSurrogate(r) /\ r > 31
      BY <3>1, <3>2
    <3>4. r \notin Noncharacters => XmlCharacter(r)
      BY <3>3, SMT DEF Noncharacters, XmlCharacter, isSurrogate, isHighSurrogate, isLowSurrogate
    <3>5. s[k] \in Int /\ (s[k] \notin Noncharacters => XmlCharacter(s[k]))
      BY <3>2, <3>4
    <3> QED BY <3>5 DEF Printable
  <2>2. Piece(s, k) = <<s[k]>>
    BY <1>1 DEF Plain
  <2> QED BY <2>1, <2>2
<1>2. ASSUME NEW u \in Units
      PROVE  /\ writeHex4(u) \in Seq(Printable) /\ Len(writeHex4(u)) = 7
             /\ writeHex4(u)[1] = Underscore
  BY EscapeForm
<1>3. \A a \in Seq(Printable) : a \in Seq(Int)
  BY DEF Printable
<1>4. CASE Escaped(s, k)
  <2>1. PICK a \in Seq(Printable) : a = Piece(s, k) /\ Len(a) = 7 /\ a[1] = Underscore
    BY <1>2, <1>4, Zenon DEF Escaped
  <2>2. Len(a) >= 1
    BY <2>1
  <2> QED BY <1>3, <2>1, <2>2, Zenon
<1>5. CASE Paired(s, k)
  <2>1. PICK high, low \in Units : Piece(s, k) = writeHex4(high) \o writeHex4(low)
    BY <1>5 DEF Paired
  <2>2. PICK a, b \in Seq(Printable) :
           a = writeHex4(high) /\ b = writeHex4(low) /\ Len(a) >= 1 /\ a[1] = Underscore
    BY <1>2
  <2>3. Piece(s, k) = a \o b
    BY <2>1, <2>2
  <2>4. a \o b \in Seq(Printable) /\ Len(a \o b) >= 1 /\ (a \o b)[1] = a[1]
    BY <2>2, Join
  <2> QED BY <1>3, <2>2, <2>3, <2>4, Zenon
<1> QED BY <1>1, <1>4, <1>5, Pieces

\* A character that is left alone stands for itself.
LEMMA PieceAlone ==
    ASSUME NEW s, NEW k, s[k] \in Noncharacters \cup {Replacement}
    PROVE  Piece(s, k) = <<s[k]>>
<1>1. s[k] \in {65533, 65534, 65535}
  BY DEF Noncharacters, Replacement
<1>2. s[k] # Underscore /\ ~needsCLIXMLCharEscape(s[k])
  BY <1>1 DEF Underscore, needsCLIXMLCharEscape, isSurrogate, isHighSurrogate, isLowSurrogate
<1>3. Piece(s, k) = Written(s[k])
  BY <1>2, Zenon DEF Piece
<1>4. \A r : ~needsCLIXMLCharEscape(r) => Written(r) = <<r>>
  BY SMT DEF Written
<1> QED BY <1>2, <1>3, <1>4, Zenon

Reads(f, t) == \A i \in 1..(Len(t) + 14) : f[i] = DecodedAt(t, i, f)

PiecesOf(s) == [k \in 1..Len(s) |-> Piece(s, k)]

\* Of the text that the pieces make up, the decoder reads each as its character.
LEMMA PieceRead ==
    ASSUME NEW s \in Seq(Scalars), NEW q, q = PiecesOf(s),
           NEW t \in Seq(Int), NEW p, Placed(q, t, p),
           NEW f, Reads(f, t),
           NEW k \in 1..Len(s)
    PROVE  f[p[k]] = <<s[k]>> \o f[p[k + 1]]
<1>1. /\ Len(s) \in Nat /\ Len(t) \in Nat /\ Len(q) = Len(s)
      /\ \A x \in 1..Len(s) : q[x] = Piece(s, x)
  BY DEF PiecesOf
<1>2. /\ p[k] \in 1..(Len(t) + 1) /\ p[k + 1] \in 1..(Len(t) + 1)
      /\ p[k + 1] = p[k] + Len(q[k])
      /\ \A d \in 1..Len(q[k]) : t[p[k] + d - 1] = q[k][d]
  <2>1. k \in 1..(Len(q) + 1) /\ k + 1 \in 1..(Len(q) + 1) /\ k \in 1..Len(q)
    BY <1>1
  <2> QED BY <2>1, Zenon DEF Placed
<1>3. PICK i \in Nat : i = p[k] /\ i >= 1
  BY <1>2
<1>4. PICK w : w = Piece(s, k)
  OBVIOUS
<1>5. w \in Seq(Int) /\ Len(w) \in Nat /\ Len(w) >= 1 /\ w = q[k]
  <2>1. w \in Seq(Int) /\ Len(w) >= 1
    BY <1>4, PieceForm
  <2>2. w = q[k]
    BY <1>1, <1>4
  <2> QED BY <2>1, <2>2
<1>6. i + Len(w) = p[k + 1] /\ i + Len(w) <= Len(t) + 1 /\ i \in 1..Len(t)
  BY <1>1, <1>2, <1>3, <1>5
<1>7. \A d \in 1..Len(w) : t[i + d - 1] = w[d]
  BY <1>2, <1>3, <1>5
<1>8. f[i] = DecodedAt(t, i, f)
  BY <1>1, <1>6 DEF Reads
<1>9. CASE Escaped(s, k)
  <2>1. PICK u \in Units : u = s[k] /\ ~isSurrogate(u) /\ w = writeHex4(u)
    BY <1>4, <1>9 DEF Escaped
  <2>2. Len(w) = 7
    BY <2>1, EscapeForm
  <2>3. i + 6 <= Len(t) /\ \A d \in 1..7 : t[i + d - 1] = writeHex4(u)[d]
    BY <1>1, <1>6, <1>7, <2>1, <2>2
  <2>4. EscapeAt(t, i) /\ UnitAt(t, i) = u
    BY <1>6, <2>3, EscapeRead
  <2>5. ~ PairAt(t, i)
    BY <2>1, <2>4 DEF PairAt, isSurrogate
  <2>6. ~ (i > Len(t))
    BY <1>6
  <2>7. DecodedAt(t, i, f) = <<u>> \o f[i + 7]
    BY <2>1, <2>4, <2>5, <2>6 DEF DecodedAt
  <2>8. p[k + 1] = i + 7
    BY <1>6, <2>2
  <2> QED BY <1>3, <1>8, <2>1, <2>7, <2>8, Zenon
<1>10. CASE Paired(s, k)
  <2>1. PICK high, low \in Units :
           /\ isHighSurrogate(high) /\ isLowSurrogate(low)
           /\ w = writeHex4(high) \o writeHex4(low)
           /\ s[k] = Combined(high, low)
    BY <1>4, <1>10 DEF Paired
  <2>a. writeHex4(high) \in Seq(Printable) /\ Len(writeHex4(high)) = 7
    BY EscapeForm
  <2>b. writeHex4(low) \in Seq(Printable) /\ Len(writeHex4(low)) = 7
    BY EscapeForm
  <2>c. PICK n \in Nat : n = 7
    OBVIOUS
  <2>2. PICK a, b \in Seq(Printable) : a = writeHex4(high) /\ b = writeHex4(low)
    BY <2>a, <2>b
  <2>3. Len(a) = n /\ Len(b) = n /\ n = 7
    BY <2>a, <2>b, <2>c, <2>2
  <2>4. /\ Len(w) = Len(a) + Len(b)
        /\ \A d \in 1..Len(a) : w[d] = a[d]
        /\ \A d \in 1..Len(b) : w[Len(a) + d] = b[d]
    <3>1. w = a \o b
      BY <2>1, <2>2
    <3>2. /\ Len(a \o b) = Len(a) + Len(b)
          /\ \A d \in 1..Len(a) : (a \o b)[d] = a[d]
          /\ \A d \in 1..Len(b) : (a \o b)[Len(a) + d] = b[d]
      BY Concat
    <3> QED BY <3>1, <3>2, Zenon
  <2>5. Len(w) = 14
    BY <2>3, <2>4
  <2>6. ASSUME NEW d \in 1..7
        PROVE  t[i + d - 1] = writeHex4(high)[d] /\ t[i + 7 + d - 1] = writeHex4(low)[d]
    <3>1. d \in 1..Len(w) /\ 7 + d \in 1..Len(w) /\ i + (7 + d) - 1 = i + 7 + d - 1
      BY <2>5
    <3>2. t[i + d - 1] = w[d] /\ t[i + 7 + d - 1] = w[7 + d]
      BY <1>7, <3>1
    <3>3. w[d] = a[d] /\ w[7 + d] = b[d]
      BY <2>3, <2>4
    <3> QED BY <2>2, <3>2, <3>3
  <2>7. i + 6 <= Len(t) /\ i + 7 \in 1..Len(t) /\ i + 7 + 6 <= Len(t)
    BY <1>1, <1>6, <2>5
  <2>8. EscapeAt(t, i) /\ UnitAt(t, i) = high
    BY <1>6, <2>6, <2>7, EscapeRead
  <2>9. EscapeAt(t, i + 7) /\ UnitAt(t, i + 7) = low
    BY <2>6, <2>7, EscapeRead
  <2>10. PairAt(t, i)
    BY <2>1, <2>8, <2>9 DEF PairAt
  <2>11. ~ (i > Len(t))
    BY <1>6
  <2>12. DecodedAt(t, i, f) = <<Combined(high, low)>> \o f[i + 14]
    BY <2>8, <2>9, <2>10, <2>11, SMTT(30) DEF DecodedAt, Combined
  <2>13. p[k + 1] = i + 14
    BY <1>6, <2>5
  <2> QED BY <1>3, <1>8, <2>1, <2>12, <2>13, Zenon
<1>11. CASE Plain(s, k)
  <2>1. w = <<s[k]>> /\ Len(w) = 1 /\ w[1] = s[k]
    BY <1>4, <1>11 DEF Plain
  <2>2. t[i] = s[k]
    <3>1. 1 \in 1..Len(w) /\ i + 1 - 1 = i
      BY <2>1
    <3> QED BY <1>7, <2>1, <3>1
  <2>3. ~ EscapeAt(t, i)
    <3>1. SUFFICES ASSUME EscapeAt(t, i) PROVE FALSE
      OBVIOUS
    <3>2. i + 6 <= Len(t) /\ s[k] = Underscore /\ t[i + 1] \in Cross
      BY <2>2, <3>1 DEF EscapeAt
    <3>3. CASE k = Len(s)
      <4>1. p[k + 1] = Len(t) + 1
        BY <1>1, <3>3 DEF Placed
      <4> QED BY <1>1, <1>6, <2>1, <3>2, <4>1
    <3>4. CASE k < Len(s)
      <4>1. s[k + 1] \notin Cross
        BY <1>11, <3>2, <3>4 DEF Plain
      <4>2. k + 1 \in 1..Len(s)
        BY <1>1, <3>4
      <4>3. PICK v : v = Piece(s, k + 1)
        OBVIOUS
      <4>4. v \in Seq(Int) /\ Len(v) >= 1 /\ v[1] \in {s[k + 1], Underscore}
        BY <4>2, <4>3, PieceForm
      <4>5. q[k + 1] = v /\ p[k + 1] = i + 1 /\ 1 \in 1..Len(v)
        BY <1>1, <1>6, <2>1, <4>2, <4>3, <4>4
      <4>6. \A d \in 1..Len(q[k + 1]) : t[p[k + 1] + d - 1] = q[k + 1][d]
        BY <1>1, <4>2, Zenon DEF Placed
      <4>7. t[i + 1] = v[1]
        <5>1. t[p[k + 1] + 1 - 1] = v[1]
          BY <4>5, <4>6, Zenon
        <5>2. p[k + 1] + 1 - 1 = i + 1
          BY <4>5
        <5> QED BY <5>1, <5>2, Zenon
      <4>8. Underscore \notin Cross
        BY DEF Underscore, Cross
      <4> QED BY <3>2, <4>1, <4>4, <4>7, <4>8, Zenon
    <3>5. k = Len(s) \/ k < Len(s)
      OBVIOUS
    <3> QED BY <3>3, <3>4, <3>5
  <2>4. ~ PairAt(t, i)
    BY <2>3 DEF PairAt
  <2>5. ~ (i > Len(t))
    BY <1>6
  <2>6. DecodedAt(t, i, f) = <<s[k]>> \o f[i + 1]
    BY <2>2, <2>3, <2>4, <2>5, SMTT(30) DEF DecodedAt
  <2>7. p[k + 1] = i + 1
    BY <1>6, <2>1
  <2> QED BY <1>3, <1>8, <2>6, <2>7, Zenon
<1> QED BY <1>9, <1>10, <1>11, Pieces

-----------------------------------------------------------------------------
(* Every text.                                                              *)

LEMMA Singleton ==
    ASSUME NEW V, NEW v \in V
    PROVE  <<v>> \in Seq(V) /\ Len(<<v>>) = 1 /\ <<v>>[1] = v
OBVIOUS

LEMMA Suffix ==
    ASSUME NEW V, NEW s \in Seq(V), NEW k \in 1..Len(s)
    PROVE  <<s[k]>> \o SubSeq(s, k + 1, Len(s)) = SubSeq(s, k, Len(s))
<1>1. PICK n \in Nat : n = Len(s)
  OBVIOUS
<1>2. PICK a : a = SubSeq(s, k + 1, n)
  OBVIOUS
<1>3. k \in Nat /\ k >= 1 /\ k <= n /\ s[k] \in V
  BY <1>1
<1>4. a \in Seq(V) /\ Len(a) = n - k /\ \A d \in 1..(n - k) : a[d] = s[k + d]
  BY <1>1, <1>2, <1>3
<1>5. PICK b : b = SubSeq(s, k, n)
  OBVIOUS
<1>6. b \in Seq(V) /\ Len(b) = n - k + 1 /\ \A d \in 1..(n - k + 1) : b[d] = s[k + d - 1]
  BY <1>1, <1>3, <1>5
<1>7. PICK c : c = <<s[k]>> \o a
  OBVIOUS
<1>12. PICK h \in Seq(V) : h = <<s[k]>> /\ Len(h) = 1 /\ h[1] = s[k]
  BY <1>3, Singleton
<1>a. a \in Seq(V)
  BY <1>4
<1>13. /\ h \o a \in Seq(V) /\ Len(h \o a) = Len(h) + Len(a)
       /\ \A d \in 1..Len(h) : (h \o a)[d] = h[d]
       /\ \A d \in 1..Len(a) : (h \o a)[Len(h) + d] = a[d]
  BY <1>a, Concat
<1>8. c \in Seq(V) /\ Len(c) = n - k + 1
  BY <1>3, <1>4, <1>7, <1>12, <1>13
<1>9. c[1] = s[k] /\ \A d \in 1..(n - k) : c[1 + d] = a[d]
  <2>1. c = h \o a /\ 1 \in 1..Len(h)
    BY <1>7, <1>12
  <2> QED BY <1>4, <1>12, <1>13, <2>1
<1>10. ASSUME NEW d \in 1..(n - k + 1) PROVE c[d] = b[d]
  <2>1. CASE d = 1
    BY <1>3, <1>6, <1>9, <2>1
  <2>2. CASE d # 1
    <3>1. d - 1 \in 1..(n - k) /\ 1 + (d - 1) = d /\ k + (d - 1) = k + d - 1
      BY <1>3, <2>2
    <3> QED BY <1>4, <1>6, <1>9, <3>1
  <2> QED BY <2>1, <2>2
<1>11. b = c
  BY <1>3, <1>6, <1>8, <1>10
<1> QED BY <1>1, <1>2, <1>5, <1>7, <1>11

\* What is made up of the pieces of a text is read as that text.
LEMMA Inverted ==
    ASSUME NEW s \in Seq(Scalars), NEW t \in Seq(Int), NEW p, Placed(PiecesOf(s), t, p)
    PROVE  decodeCLIXMLString(t) = s
<1>1. PICK q : q = PiecesOf(s) /\ Placed(q, t, p)
  OBVIOUS
<1>2. Len(q) = Len(s)
  BY <1>1 DEF PiecesOf
<1>8. PICK f : /\ decodeCLIXMLString(t) = f[1]
               /\ \A i \in 1..(Len(t) + 14) : f[i] = DecodedAt(t, i, f)
  BY Decoding
<1>9. ASSUME NEW k \in 1..Len(s) PROVE f[p[k]] = <<s[k]>> \o f[p[k + 1]]
  <2>1. Reads(f, t)
    BY <1>8, Zenon DEF Reads
  <2> QED BY <1>1, <2>1, PieceRead
<1> DEFINE n == Len(s)
           S == {m \in Nat : m <= n => f[p[n + 1 - m]] = SubSeq(s, n + 1 - m, n)}
<1>10. n \in Nat /\ Len(t) \in Nat
  OBVIOUS
<1>11. 0 \in S
  <2>1. p[n + 1] = Len(t) + 1 /\ n + 1 - 0 = n + 1
    BY <1>1, <1>2, <1>10 DEF Placed
  <2>2. Len(t) + 1 \in 1..(Len(t) + 14) /\ Len(t) + 1 > Len(t)
    BY <1>10
  <2>3. f[Len(t) + 1] = <<>>
    BY <1>8, <2>2, AtEnd
  <2>4. SubSeq(s, n + 1, n) = <<>>
    BY <1>10
  <2> QED BY <2>1, <2>3, <2>4
<1>12. ASSUME NEW m \in Nat, m \in S PROVE m + 1 \in S
  <2>1. SUFFICES ASSUME m + 1 <= n
                 PROVE  f[p[n + 1 - (m + 1)]] = SubSeq(s, n + 1 - (m + 1), n)
    OBVIOUS
  <2>2. PICK k \in 1..n : k = n + 1 - (m + 1) /\ k + 1 = n + 1 - m
    BY <1>10, <2>1
  <2>3. f[p[k + 1]] = SubSeq(s, k + 1, n)
    BY <1>10, <1>12, <2>1, <2>2
  <2>4. f[p[k]] = <<s[k]>> \o f[p[k + 1]]
    BY <1>9
  <2>5. <<s[k]>> \o SubSeq(s, k + 1, n) = SubSeq(s, k, n)
    BY Suffix
  <2> QED BY <2>2, <2>3, <2>4, <2>5
<1>13. n \in S
  <2> HIDE DEF S
  <2> QED BY <1>10, <1>11, <1>12, Induction
<1>14. f[p[1]] = SubSeq(s, 1, n)
  <2>1. n + 1 - n = 1
    BY <1>10
  <2> QED BY <1>10, <1>13, <2>1
<1>15. p[1] = 1 /\ SubSeq(s, 1, n) = s
  BY <1>1 DEF Placed
<1> QED BY <1>8, <1>14, <1>15

\* encodeCLIXMLString writes the pieces one after the other, and only
\* characters of XML if the text holds no other that is left alone.
LEMMA Encoded ==
    ASSUME NEW s \in Seq(Scalars)
    PROVE  /\ encodeCLIXMLString(s) \in Seq(Int)
           /\ \E p : Placed(PiecesOf(s), encodeCLIXMLString(s), p)
           /\ (\A k \in 1..Len(s) : s[k] \notin Noncharacters)
                => encodeCLIXMLString(s) \in Seq(Printable)
<1>1. PICK q : q = PiecesOf(s)
  OBVIOUS
<1>2. encodeCLIXMLString(s) = FlattenSeq(q)
  BY <1>1 DEF encodeCLIXMLString, PiecesOf
<1>3. q \in Seq(Seq(Int))
  <2>1. \A k \in 1..Len(s) : Piece(s, k) \in Seq(Int)
    BY PieceForm
  <2> QED BY <1>1, <2>1 DEF PiecesOf
<1>4. FlattenSeq(q) \in Seq(Int) /\ \E p : Placed(q, FlattenSeq(q), p)
  BY <1>3, Placement
<1>5. ASSUME \A k \in 1..Len(s) : s[k] \notin Noncharacters
      PROVE  FlattenSeq(q) \in Seq(Printable)
  <2>1. \A k \in 1..Len(s) : Piece(s, k) \in Seq(Printable)
    BY <1>5, PieceForm
  <2>2. q \in Seq(Seq(Printable))
    BY <1>1, <2>1 DEF PiecesOf
  <2> QED BY <2>2, Placement
<1> QED BY <1>1, <1>2, <1>4, <1>5, Zenon

\* XML leaves what is printable as it is.
LEMMA XmlKeeps ==
    ASSUME NEW w \in Seq(Printable)
    PROVE  XmlText(w) = w
<1>1. \A i \in 1..Len(w) : XmlCharacter(w[i])
  BY DEF Printable
<1> QED BY <1>1 DEF XmlText

\* U+FFFE and U+FFFF are no characters of XML, U+FFFD is one.
LEMMA Outside ==
    /\ \A c \in Noncharacters : ~XmlCharacter(c) /\ c \notin Cross /\ c # Replacement
    /\ XmlCharacter(Replacement) /\ Replacement \notin Cross
BY DEF Noncharacters, XmlCharacter, Cross, Replacement

LEMMA CleanedForm ==
    ASSUME NEW s \in Seq(Scalars)
    PROVE  /\ Cleaned(s) \in Seq(Scalars) /\ Len(Cleaned(s)) = Len(s)
           /\ \A k \in 1..Len(s) :
                Cleaned(s)[k] = IF s[k] \in Noncharacters THEN Replacement ELSE s[k]
<1>1. Replacement \in Scalars
  BY DEF Replacement, Scalars, isSurrogate, isHighSurrogate, isLowSurrogate
<1> QED BY <1>1 DEF Cleaned

\* What XML makes of a piece is the piece of the text without U+FFFE and U+FFFF.
LEMMA PieceCleaned ==
    ASSUME NEW s \in Seq(Scalars), NEW k \in 1..Len(s)
    PROVE  Piece(Cleaned(s), k) = XmlText(Piece(s, k))
<1>1. /\ Len(Cleaned(s)) = Len(s)
      /\ \A i \in 1..Len(s) :
           Cleaned(s)[i] = IF s[i] \in Noncharacters THEN Replacement ELSE s[i]
  BY CleanedForm
<1>2. CASE s[k] \in Noncharacters
  <2>1. Piece(s, k) = <<s[k]>>
    BY <1>2, PieceAlone
  <2>2. Cleaned(s)[k] = Replacement
    BY <1>1, <1>2
  <2>3. Piece(Cleaned(s), k) = <<Replacement>>
    BY <2>2, PieceAlone
  <2>4. PICK c : c = s[k] /\ ~XmlCharacter(c)
    BY <1>2, Outside
  <2>5. XmlText(<<c>>) = <<Replacement>>
    BY <2>4 DEF XmlText
  <2> QED BY <2>1, <2>3, <2>4, <2>5
<1>3. CASE s[k] \notin Noncharacters
  <2>1. XmlText(Piece(s, k)) = Piece(s, k)
    BY <1>3, PieceForm, XmlKeeps
  <2>2. Cleaned(s)[k] = s[k]
    BY <1>1, <1>3
  <2>3. k < Len(s) => (Cleaned(s)[k + 1] \in Cross <=> s[k + 1] \in Cross)
    <3>1. SUFFICES ASSUME k < Len(s)
                   PROVE  Cleaned(s)[k + 1] \in Cross <=> s[k + 1] \in Cross
      OBVIOUS
    <3>2. k + 1 \in 1..Len(s)
      BY <3>1
    <3> QED BY <1>1, <3>2, Outside
  <2>4. Piece(Cleaned(s), k) = Piece(s, k)
    BY <1>1, <2>2, <2>3, Zenon DEF Piece
  <2> QED BY <2>1, <2>4
<1> QED BY <1>2, <1>3

\* XML takes the pieces of a text to those of the text without U+FFFE and U+FFFF.
LEMMA PlacedCleaned ==
    ASSUME NEW s \in Seq(Scalars), NEW t \in Seq(Int), NEW p, Placed(PiecesOf(s), t, p)
    PROVE  XmlText(t) \in Seq(Int) /\ Placed(PiecesOf(Cleaned(s)), XmlText(t), p)
<1>1. PICK q : q = PiecesOf(s)
  OBVIOUS
<1>2. PICK r : r = PiecesOf(Cleaned(s))
  OBVIOUS
<1>3. PICK n, m \in Nat : n = Len(s) /\ m = Len(t)
  OBVIOUS
<1>4. PICK x : x = XmlText(t)
  OBVIOUS
<1>5. /\ x \in Seq(Int) /\ Len(x) = m
      /\ \A i \in 1..m : x[i] = IF XmlCharacter(t[i]) THEN t[i] ELSE Replacement
  BY <1>3, <1>4 DEF XmlText, Replacement
<1>6. Len(q) = n /\ \A k \in 1..n : q[k] = Piece(s, k) /\ Len(q[k]) \in Nat
  <2>1. \A k \in 1..n : Len(Piece(s, k)) \in Nat
    BY <1>3, PieceForm
  <2> QED BY <1>1, <1>3, <2>1 DEF PiecesOf
<1>7. Len(r) = n /\ \A k \in 1..n : r[k] = XmlText(q[k])
  <2>1. Len(r) = n /\ \A k \in 1..n : r[k] = Piece(Cleaned(s), k)
    BY <1>2, <1>3, CleanedForm DEF PiecesOf
  <2> QED BY <1>3, <1>6, <2>1, PieceCleaned
<1>8. \A k \in 1..n : /\ Len(r[k]) = Len(q[k])
                      /\ \A d \in 1..Len(q[k]) :
                           r[k][d] = IF XmlCharacter(q[k][d]) THEN q[k][d] ELSE Replacement
  <2>1. SUFFICES ASSUME NEW k \in 1..n
                 PROVE  /\ Len(r[k]) = Len(q[k])
                        /\ \A d \in 1..Len(q[k]) :
                             r[k][d] = IF XmlCharacter(q[k][d]) THEN q[k][d] ELSE Replacement
    OBVIOUS
  <2>2. PICK w : w = q[k]
    OBVIOUS
  <2>3. Len(w) \in Nat /\ r[k] = XmlText(w)
    BY <1>6, <1>7, <2>2
  <2>4. /\ Len(XmlText(w)) = Len(w)
        /\ \A d \in 1..Len(w) :
             XmlText(w)[d] = IF XmlCharacter(w[d]) THEN w[d] ELSE Replacement
    BY <2>3 DEF XmlText
  <2> QED BY <2>2, <2>3, <2>4
<1>9. /\ p[1] = 1 /\ p[n + 1] = m + 1
      /\ \A k \in 1..(n + 1) : p[k] \in 1..(m + 1)
      /\ \A k \in 1..n : /\ p[k + 1] = p[k] + Len(q[k])
                         /\ \A d \in 1..Len(q[k]) : t[p[k] + d - 1] = q[k][d]
  BY <1>1, <1>3, <1>6, Zenon DEF Placed
<1>10. ASSUME NEW k \in 1..n, NEW d \in 1..Len(r[k]) PROVE x[p[k] + d - 1] = r[k][d]
  <2>1. d \in 1..Len(q[k])
    BY <1>8
  <2>2. p[k] + d - 1 \in 1..m
    <3>1. k \in 1..(n + 1) /\ k + 1 \in 1..(n + 1)
      OBVIOUS
    <3>2. p[k] \in 1..(m + 1) /\ p[k + 1] \in 1..(m + 1) /\ p[k + 1] = p[k] + Len(q[k])
      BY <1>9, <3>1
    <3>3. PICK i, j, l \in Nat : i = p[k] /\ j = p[k + 1] /\ l = Len(q[k])
      BY <1>6, <3>2
    <3>4. i >= 1 /\ j <= m + 1 /\ j = i + l /\ d \in 1..l
      BY <2>1, <3>2, <3>3
    <3>5. i + d - 1 \in 1..m
      BY <3>4
    <3> QED BY <3>3, <3>5
  <2>3. t[p[k] + d - 1] = q[k][d]
    BY <1>9, <2>1
  <2> QED BY <1>5, <1>8, <2>1, <2>2, <2>3
<1>11. \A k \in 1..n : p[k + 1] = p[k] + Len(r[k])
  BY <1>8, <1>9
<1>12. Placed(r, x, p)
  BY <1>5, <1>7, <1>9, <1>10, <1>11 DEF Placed
<1> QED BY <1>2, <1>4, <1>5, <1>12

\* decodeCLIXMLString inverts encodeCLIXMLString on every text: also on one that
\* holds something like an escape, or like half of a surrogate pair, and
\* whatever stands next to it.  By way of xml.EscapeText all but U+FFFE and
\* U+FFFF is read back, for which U+FFFD is read; and of what serializeStringFast
\* writes, XML refuses the texts with one of the two and without markup.
THEOREM EscapesInverted ==
    ASSUME NEW s \in Seq(Scalars)
    PROVE  /\ decodeCLIXMLString(encodeCLIXMLString(s)) = s
           /\ decodeCLIXMLString(XmlText(encodeCLIXMLString(s))) = Cleaned(s)
           /\ XmlRefuses(StringText(s)) <=>
                Cleaned(s) # s /\ ~needsXMLEscape(encodeCLIXMLString(s))
<1>1. PICK t : t = encodeCLIXMLString(s)
  OBVIOUS
<1>2. /\ t \in Seq(Int) /\ \E p : Placed(PiecesOf(s), t, p)
      /\ (\A k \in 1..Len(s) : s[k] \notin Noncharacters) => t \in Seq(Printable)
  BY <1>1, Encoded
<1>3. PICK p : Placed(PiecesOf(s), t, p)
  BY <1>2
<1>4. decodeCLIXMLString(t) = s
  BY <1>2, <1>3, Inverted
<1>5. decodeCLIXMLString(XmlText(t)) = Cleaned(s)
  <2>1. XmlText(t) \in Seq(Int) /\ Placed(PiecesOf(Cleaned(s)), XmlText(t), p)
    BY <1>2, <1>3, PlacedCleaned
  <2> QED BY <2>1, CleanedForm, Inverted
<1>6. Cleaned(s) # s <=> \E k \in 1..Len(s) : s[k] \in Noncharacters
  <2>1. CASE \E k \in 1..Len(s) : s[k] \in Noncharacters
    <3>1. PICK k \in 1..Len(s) : s[k] \in Noncharacters
      BY <2>1
    <3>2. Cleaned(s)[k] = Replacement /\ s[k] # Replacement
      BY <3>1, CleanedForm, Outside
    <3> QED BY <2>1, <3>2
  <2>2. CASE \A k \in 1..Len(s) : s[k] \notin Noncharacters
    <3>1. Cleaned(s) = s
      BY <2>2 DEF Cleaned
    <3> QED BY <2>2, <3>1
  <2> QED BY <2>1, <2>2
<1>7. XmlRefuses(t) <=> \E k \in 1..Len(s) : s[k] \in Noncharacters
  <2>1. CASE \E k \in 1..Len(s) : s[k] \in Noncharacters
    <3>1. PICK k \in 1..Len(s) : s[k] \in Noncharacters
      BY <2>1
    <3>2. PICK q : q = PiecesOf(s)
      OBVIOUS
    <3>3. Len(q) = Len(s) /\ q[k] = <<s[k]>>
      BY <3>1, <3>2, PieceAlone DEF PiecesOf
    <3>4. k \in 1..(Len(q) + 1) /\ k + 1 \in 1..(Len(q) + 1) /\ k \in 1..Len(q)
      BY <3>3
    <3>5. /\ p[k] \in 1..(Len(t) + 1) /\ p[k + 1] \in 1..(Len(t) + 1)
          /\ p[k + 1] = p[k] + Len(q[k])
          /\ \A d \in 1..Len(q[k]) : t[p[k] + d - 1] = q[k][d]
      BY <1>3, <3>2, <3>4, Zenon DEF Placed
    <3>6. Len(q[k]) = 1 /\ 1 \in 1..Len(q[k]) /\ q[k][1] = s[k]
      BY <3>3
    <3>7. p[k] \in 1..Len(t) /\ p[k] + 1 - 1 = p[k]
      BY <1>2, <3>5, <3>6
    <3>8. t[p[k]] = s[k]
      <4>1. t[p[k] + 1 - 1] = q[k][1]
        BY <3>5, <3>6, Zenon
      <4> QED BY <3>6, <3>7, <4>1, Zenon
    <3>9. ~XmlCharacter(t[p[k]])
      BY <3>1, <3>8, Outside
    <3> QED BY <2>1, <3>7, <3>9, Zenon DEF XmlRefuses
  <2>2. CASE \A k \in 1..Len(s) : s[k] \notin Noncharacters
    <3>1. t \in Seq(Printable)
      BY <1>2, <2>2
    <3>2. \A i \in 1..Len(t) : XmlCharacter(t[i])
      BY <3>1 DEF Printable
    <3> QED BY <2>2, <3>2, Zenon DEF XmlRefuses
  <2> QED BY <2>1, <2>2
<1>8. ~XmlRefuses(XmlText(t))
  <2>1. \A i \in 1..Len(XmlText(t)) : XmlCharacter(XmlText(t)[i])
    BY <1>2, Outside DEF XmlText
  <2> QED BY <2>1, Zenon DEF XmlRefuses
<1>9. StringText(s) = IF needsXMLEscape(t) THEN XmlText(t) ELSE t
  BY <1>1 DEF StringText
<1>10. XmlRefuses(StringText(s)) <=> Cleaned(s) # s /\ ~needsXMLEscape(t)
  <2>1. CASE needsXMLEscape(t)
    BY <1>8, <1>9, <2>1
  <2>2. CASE ~needsXMLEscape(t)
    BY <1>6, <1>7, <1>9, <2>2
  <2> QED BY <2>1, <2>2
<1> QED BY <1>1, <1>4, <1>5, <1>10, Zenon

TextInv == text \in Seq(Scalars)

LEMMA TextGrows ==
    ASSUME TextInv, [Lengthen]_text
    PROVE  TextInv'
<1>1. CASE Lengthen
  <2>1. PICK b \in Blocks : text' = text \o b
    BY <1>1 DEF Lengthen
  <2>2. text \in Seq(Scalars) /\ b \in Seq(Scalars)
    BY EncodingsAssumption DEF TextInv
  <2> QED BY <2>1, <2>2 DEF TextInv
<1> QED BY <1>1 DEF TextInv

\* TextSurvives, for whatever the text is made of.
THEOREM TextAlwaysSurvives == TextSpec => []TextSurvives
<1>1. text = <<>> => TextInv
  BY DEF TextInv
<1>2. TextInv /\ [Lengthen]_text => TextInv'
  BY TextGrows
<1>3. TextInv => TextSurvives
  BY EscapesInverted DEF TextInv, TextSurvives
<1> QED BY <1>1, <1>2, <1>3, PTL DEF TextSpec

-----------------------------------------------------------------------------
(* Sequences that hold others at known places.                              *)

\* After its first o elements x holds a.
Holds(x, o, a) == o + Len(a) <= Len(x) /\ \A d \in 1..Len(a) : x[o + d] = a[d]

LEMMA HoldsItself ==
    ASSUME NEW V, NEW a \in Seq(V)
    PROVE  Holds(a, 0, a)
BY DEF Holds

LEMMA HoldsBefore ==
    ASSUME NEW V, NEW x \in Seq(V), NEW a \in Seq(V), NEW b \in Seq(V), NEW o \in Nat,
           Holds(x, o, a)
    PROVE  Holds(x \o b, o, a)
<1>1. /\ Len(x \o b) = Len(x) + Len(b) /\ \A d \in 1..Len(x) : (x \o b)[d] = x[d]
  BY Concat
<1>2. Len(x) \in Nat /\ Len(a) \in Nat /\ Len(b) \in Nat
  OBVIOUS
<1>3. o + Len(a) <= Len(x) /\ \A d \in 1..Len(a) : x[o + d] = a[d]
  BY DEF Holds
<1>4. ASSUME NEW d \in 1..Len(a) PROVE (x \o b)[o + d] = a[d]
  <2>1. o + d \in 1..Len(x)
    BY <1>2, <1>3
  <2> QED BY <1>1, <1>3, <2>1
<1>5. o + Len(a) <= Len(x \o b)
  BY <1>1, <1>2, <1>3
<1> QED BY <1>4, <1>5 DEF Holds

LEMMA HoldsAfter ==
    ASSUME NEW V, NEW x \in Seq(V), NEW b \in Seq(V)
    PROVE  Holds(x \o b, Len(x), b)
<1>1. /\ Len(x \o b) = Len(x) + Len(b)
      /\ \A d \in 1..Len(b) : (x \o b)[Len(x) + d] = b[d]
  BY Concat
<1>2. Len(x) \in Nat /\ Len(b) \in Nat
  OBVIOUS
<1>3. Len(x) + Len(b) <= Len(x \o b)
  BY <1>1, <1>2
<1> QED BY <1>1, <1>3 DEF Holds

LEMMA HeldSlice ==
    ASSUME NEW V, NEW x \in Seq(V), NEW a \in Seq(V), NEW o \in Nat, Holds(x, o, a)
    PROVE  SubSeq(x, o + 1, o + Len(a)) = a
<1>1. PICK n, m \in Nat : n = Len(a) /\ m = Len(x)
  OBVIOUS
<1>2. o + n <= m /\ \A d \in 1..n : x[o + d] = a[d]
  BY <1>1 DEF Holds
<1>3. PICK b : b = SubSeq(x, o + 1, o + n)
  OBVIOUS
<1>4. b \in Seq(V) /\ Len(b) = n /\ \A d \in 1..n : b[d] = x[o + d]
  BY <1>1, <1>2, <1>3
<1>5. b = a
  BY <1>1, <1>2, <1>4
<1> QED BY <1>1, <1>3, <1>5

LEMMA Cut ==
    ASSUME NEW V, NEW u \in Seq(V), NEW i \in Nat, NEW j \in Nat, 1 <= i, i <= j + 1, j <= Len(u)
    PROVE  /\ SubSeq(u, i, j) \in Seq(V) /\ Len(SubSeq(u, i, j)) = j - i + 1
           /\ \A d \in 1..(j - i + 1) : SubSeq(u, i, j)[d] = u[i + d - 1]
OBVIOUS

LEMMA Halves ==
    ASSUME NEW V, NEW u \in Seq(V), NEW n \in 0..Len(u)
    PROVE  SubSeq(u, 1, n) \o SubSeq(u, n + 1, Len(u)) = u
<1>1. PICK m \in Nat : m = Len(u)
  OBVIOUS
<1>2. n \in Nat /\ n <= m
  BY <1>1
<1>a. SubSeq(u, 1, n) \in Seq(V)
  BY <1>1, <1>2
<1>b. SubSeq(u, n + 1, m) \in Seq(V)
  BY <1>1, <1>2
<1>3. PICK a \in Seq(V) : a = SubSeq(u, 1, n)
  BY <1>a
<1>4. PICK b \in Seq(V) : b = SubSeq(u, n + 1, m)
  BY <1>b
<1>5. Len(a) = n /\ \A d \in 1..n : a[d] = u[d]
  BY <1>1, <1>2, <1>3
<1>6. Len(b) = m - n /\ \A d \in 1..(m - n) : b[d] = u[n + d]
  BY <1>1, <1>2, <1>4
<1>7. /\ a \o b \in Seq(V) /\ Len(a \o b) = Len(a) + Len(b)
      /\ \A d \in 1..Len(a) : (a \o b)[d] = a[d]
      /\ \A d \in 1..Len(b) : (a \o b)[Len(a) + d] = b[d]
  BY Concat
<1>8. PICK c : c = a \o b
  OBVIOUS
<1>9. c \in Seq(V) /\ Len(c) = m
  BY <1>2, <1>5, <1>6, <1>7, <1>8
<1>10. ASSUME NEW d \in 1..m PROVE c[d] = u[d]
  <2>1. CASE d <= n
    <3>1. d \in 1..n
      BY <2>1
    <3> QED BY <1>5, <1>7, <1>8, <3>1
  <2>2. CASE ~ (d <= n)
    <3>1. d - n \in 1..(m - n) /\ n + (d - n) = d
      BY <1>2, <2>2
    <3>2. c[Len(a) + (d - n)] = b[d - n] /\ b[d - n] = u[n + (d - n)]
      BY <1>6, <1>7, <1>8, <3>1
    <3>3. Len(a) + (d - n) = d /\ n + (d - n) = d
      BY <1>2, <1>5, <3>1
    <3> QED BY <3>2, <3>3, Zenon
  <2> QED BY <2>1, <2>2
<1>11. c = u
  BY <1>1, <1>9, <1>10
<1> QED BY <1>1, <1>3, <1>4, <1>8, <1>11

-----------------------------------------------------------------------------
(* Integers in bytes.                                                       *)

\* 8 and 32 bits.
Byte == {b \in Nat : b <= 255}
Word32 == {v \in Nat : v \div 65536 <= 65535}

LEMMA Base256 ==
    ASSUME NEW v \in Nat
    PROVE  /\ v \div 256 \in Nat /\ v % 256 \in Byte
           /\ v = 256 * (v \div 256) + (v % 256)
           /\ v <= 65535 => v \div 256 \in Byte
BY DEF Byte

LEMMA Base65536 ==
    ASSUME NEW v \in Nat
    PROVE  /\ v \div 65536 \in Nat /\ v % 65536 \in Nat /\ v % 65536 <= 65535
           /\ v = 65536 * (v \div 65536) + (v % 65536)
OBVIOUS

LEMMA LittleEndian32 ==
    ASSUME NEW v \in Word32
    PROVE  /\ PutUint32(v) \in Seq(Byte) /\ Len(PutUint32(v)) = 4
           /\ Uint32(PutUint32(v)) = v
<1>1. v \in Nat /\ v \div 65536 <= 65535
  BY DEF Word32
<1>2. PICK a \in Nat, b \in Byte : a = v \div 256 /\ b = v % 256 /\ v = 256 * a + b
  BY <1>1, Base256
<1>3. PICK c \in Nat, d \in Byte : c = a \div 256 /\ d = a % 256 /\ a = 256 * c + d
  BY Base256
<1>4. PICK e \in Nat, g \in Byte : e = c \div 256 /\ g = c % 256 /\ c = 256 * e + g
  BY Base256
<1>5. \A x \in Nat : x \div 65536 = (x \div 256) \div 256
  OBVIOUS
<1>6. \A x \in Nat : x \div 16777216 = (x \div 65536) \div 256
  OBVIOUS
<1>7. v \div 65536 = c /\ v \div 16777216 = e
  BY <1>1, <1>2, <1>3, <1>4, <1>5, <1>6
<1>8. e <= 255 /\ e % 256 = e
  <2>1. c <= 65535
    BY <1>1, <1>7
  <2>2. e <= 255
    BY <1>4, <2>1 DEF Byte
  <2>3. \A x \in Nat : x <= 255 => x % 256 = x
    OBVIOUS
  <2> QED BY <2>2, <2>3
<1>9. PutUint32(v) = <<b, d, g, e>>
  BY <1>2, <1>3, <1>4, <1>7, <1>8, SMT DEF PutUint32
<1>10. v = b + 256 * d + 65536 * g + 16777216 * e
  BY <1>2, <1>3, <1>4 DEF Byte
<1>11. Uint32(<<b, d, g, e>>) = v
  BY <1>10, SMT DEF Uint32, Byte
<1>12. e \in Byte
  BY <1>8 DEF Byte
<1> QED BY <1>9, <1>11, <1>12, SMT

\* v is the word w above the bytes a and b.
Above(v, w, a, b) ==
    /\ w = v \div 65536 /\ a = (v \div 256) % 256 /\ b = v % 256
    /\ v = 65536 * w + (256 * a + b)

LEMMA LowWord ==
    ASSUME NEW v \in Nat
    PROVE  \E w \in Nat, a, b \in Byte : Above(v, w, a, b)
<1>1. PICK x \in Nat, b \in Byte : x = v \div 256 /\ b = v % 256 /\ v = 256 * x + b
  BY Base256
<1>2. PICK w \in Nat, a \in Byte : w = x \div 256 /\ a = x % 256 /\ x = 256 * w + a
  BY Base256
<1>3. v \div 65536 = w
  <2>1. \A y \in Nat : y \div 65536 = (y \div 256) \div 256
    OBVIOUS
  <2> QED BY <1>1, <1>2, <2>1
<1>4. v = 65536 * w + (256 * a + b)
  BY <1>1, <1>2 DEF Byte
<1>5. Above(v, w, a, b)
  BY <1>1, <1>2, <1>3, <1>4 DEF Above
<1> QED BY <1>5, Zenon

\* A word is its two bytes.
OfWord(w, a, b) == a = w \div 256 /\ b = w % 256 /\ w = 256 * a + b

LEMMA HighWord ==
    ASSUME NEW w \in Nat, w <= 65535
    PROVE  \E a, b \in Byte : OfWord(w, a, b)
BY Base256 DEF OfWord

LEMMA BigEndian32 ==
    ASSUME NEW v \in Word32
    PROVE  /\ PutUint32BE(v) \in Seq(Byte) /\ Len(PutUint32BE(v)) = 4
           /\ Uint32BE(PutUint32BE(v), 1) = v
<1>a. v \in Nat
  BY DEF Word32
<1>1. v \div 65536 <= 65535
  BY DEF Word32
<1>2. PICK w \in Nat, c, d \in Byte : Above(v, w, c, d)
  BY <1>a, LowWord, Zenon
<1>3. w <= 65535
  BY <1>1, <1>2 DEF Above
<1>4. PICK a, b \in Byte : OfWord(w, a, b)
  BY <1>3, HighWord
<1>5. PutUint32BE(v) = <<a, b, c, d>>
  BY <1>2, <1>4, SMT DEF PutUint32BE, Above, OfWord
<1>6. Uint32BE(<<a, b, c, d>>, 1) = v
  BY <1>2, <1>4, SMT DEF Uint32BE, WordAt, Above, OfWord, Byte
<1>7. <<a, b, c, d>> \in Seq(Byte) /\ Len(<<a, b, c, d>>) = 4
  OBVIOUS
<1> QED BY <1>5, <1>6, <1>7, Zenon

LEMMA BigEndian64 ==
    ASSUME NEW v \in Word64
    PROVE  /\ PutUint64BE(v) \in Seq(Byte) /\ Len(PutUint64BE(v)) = 8
           /\ Uint64BE(PutUint64BE(v), 1) = v
<1>a. v \in Nat
  BY DEF Word64
<1>1. ((v \div 65536) \div 65536) \div 65536 <= 65535
  BY DEF Word64
<1>2. PICK w1 \in Nat, h, j \in Byte : Above(v, w1, h, j)
  BY <1>a, LowWord, Zenon
<1>3. PICK w2 \in Nat, e, g \in Byte : Above(w1, w2, e, g)
  BY LowWord, Zenon
<1>4. PICK w3 \in Nat, c, d \in Byte : Above(w2, w3, c, d)
  BY LowWord, Zenon
<1>5. w3 <= 65535
  <2>1. w1 = v \div 65536 /\ w2 = w1 \div 65536 /\ w3 = w2 \div 65536
    BY <1>2, <1>3, <1>4, SMT DEF Above
  <2> QED BY <1>1, <2>1, SMT
<1>6. PICK a, b \in Byte : OfWord(w3, a, b)
  BY <1>5, HighWord
<1>7. PutUint64BE(v) = <<a, b, c, d, e, g, h, j>>
  <2>1. w1 = v \div 65536 /\ h = (v \div 256) % 256 /\ j = v % 256
    BY <1>2, SMT DEF Above
  <2>2. w2 = w1 \div 65536 /\ e = (w1 \div 256) % 256 /\ g = w1 % 256
    BY <1>3, SMT DEF Above
  <2>3. w3 = w2 \div 65536 /\ c = (w2 \div 256) % 256 /\ d = w2 % 256
    BY <1>4, SMT DEF Above
  <2>4. a = w3 \div 256 /\ b = w3 % 256
    BY <1>6, SMT DEF OfWord
  <2> QED BY <2>1, <2>2, <2>3, <2>4, SMT DEF PutUint64BE
<1>8. PICK z : z = <<a, b, c, d, e, g, h, j>>
  OBVIOUS
<1>9. z \in Seq(Byte) /\ Len(z) = 8
  BY <1>8
<1>10. Uint64BE(z, 1) = v
  <2>1. /\ z[1] = a /\ z[1 + 1] = b /\ z[1 + 2] = c /\ z[1 + 2 + 1] = d
        /\ z[1 + 4] = e /\ z[1 + 4 + 1] = g /\ z[1 + 6] = h /\ z[1 + 6 + 1] = j
    BY <1>8
  <2>2. /\ WordAt(z, 1) = 256 * a + b /\ WordAt(z, 1 + 2) = 256 * c + d
        /\ WordAt(z, 1 + 4) = 256 * e + g /\ WordAt(z, 1 + 6) = 256 * h + j
    BY <2>1 DEF WordAt
  <2>3. v = 65536 * w1 + (256 * h + j) /\ w1 = 65536 * w2 + (256 * e + g)
    BY <1>2, <1>3, SMT DEF Above
  <2>4. w2 = 65536 * w3 + (256 * c + d) /\ w3 = 256 * a + b
    BY <1>4, <1>6, SMT DEF Above, OfWord
  <2> QED BY <2>2, <2>3, <2>4, SMT DEF Uint64BE, Byte
<1> QED BY <1>7, <1>8, <1>9, <1>10

-----------------------------------------------------------------------------
(* The header of a message.                                                 *)

Guids == {u \in Seq(Byte) : Len(u) = 16}

LEMMA Guid ==
    ASSUME NEW u \in Guids
    PROVE  /\ uuidToLittleEndianBytes(u) \in Seq(Byte)
           /\ Len(uuidToLittleEndianBytes(u)) = 16
           /\ uuidFromLittleEndianBytes(uuidToLittleEndianBytes(u)) = u
<1>a. u \in Seq(Byte)
  BY DEF Guids
<1>1. u \in Seq(Byte) /\ Len(u) = 16
  BY DEF Guids
<1>2. /\ u[1] \in Byte /\ u[2] \in Byte /\ u[3] \in Byte /\ u[4] \in Byte
      /\ u[5] \in Byte /\ u[6] \in Byte /\ u[7] \in Byte /\ u[8] \in Byte
  <2>1. {1, 2, 3, 4, 5, 6, 7, 8} \subseteq 1..16
    OBVIOUS
  <2>2. \A n \in Nat : Len(u) = n => \A d \in 1..n : u[d] \in Byte
    BY <1>a
  <2>3. \A d \in 1..16 : u[d] \in Byte
    BY <1>1, <2>2
  <2> QED BY <2>1, <2>3
<1>3. PICK h : h = <<u[4], u[3], u[2], u[1], u[6], u[5], u[8], u[7]>>
  OBVIOUS
<1>4. h \in Seq(Byte) /\ Len(h) = 8
  BY <1>2, <1>3
<1>5. SubSeq(u, 9, 16) \in Seq(Byte) /\ Len(SubSeq(u, 9, 16)) = 8
  <2>1. 16 <= Len(u)
    BY <1>1
  <2>2. SubSeq(u, 9, 16) \in Seq(Byte) /\ Len(SubSeq(u, 9, 16)) = 16 - 9 + 1
    BY <1>a, <2>1, Cut
  <2> QED BY <2>2
<1>6. PICK r \in Seq(Byte) : r = SubSeq(u, 9, 16) /\ Len(r) = 8
  BY <1>5
<1>7. PICK b : b = uuidToLittleEndianBytes(u)
  OBVIOUS
<1>8. b = h \o r
  BY <1>3, <1>6, <1>7 DEF uuidToLittleEndianBytes
<1>9. /\ b \in Seq(Byte) /\ Len(b) = Len(h) + Len(r) /\ \A d \in 1..Len(h) : b[d] = h[d]
  <2>1. h \in Seq(Byte)
    BY <1>4
  <2> QED BY <1>8, <2>1, Concat
<1>10. /\ b[1] = u[4] /\ b[2] = u[3] /\ b[3] = u[2] /\ b[4] = u[1]
       /\ b[5] = u[6] /\ b[6] = u[5] /\ b[7] = u[8] /\ b[8] = u[7]
  <2>1. /\ h[1] = u[4] /\ h[2] = u[3] /\ h[3] = u[2] /\ h[4] = u[1]
        /\ h[5] = u[6] /\ h[6] = u[5] /\ h[7] = u[8] /\ h[8] = u[7]
    BY <1>3
  <2>2. {1, 2, 3, 4, 5, 6, 7, 8} \subseteq 1..Len(h)
    BY <1>4
  <2> QED BY <1>9, <2>1, <2>2
<1>11. SubSeq(b, 9, 16) = r
  <2>1. Holds(h \o r, Len(h), r)
    BY <1>4, HoldsAfter
  <2>2. Len(h) \in Nat /\ Len(h) + 1 = 9 /\ Len(h) + Len(r) = 16
    BY <1>4, <1>6
  <2>3. Holds(b, Len(h), r)
    BY <1>8, <2>1
  <2>4. SubSeq(b, Len(h) + 1, Len(h) + Len(r)) = r
    BY <1>9, <2>2, <2>3, HeldSlice
  <2> QED BY <2>2, <2>4
<1>12. PICK g : g = <<u[1], u[2], u[3], u[4], u[5], u[6], u[7], u[8]>>
  OBVIOUS
<1>13. uuidFromLittleEndianBytes(b) = g \o r
  <2>1. <<b[4], b[3], b[2], b[1], b[6], b[5], b[8], b[7]>> = g
    BY <1>10, <1>12
  <2> QED BY <1>11, <2>1, Zenon DEF uuidFromLittleEndianBytes
<1>14. SubSeq(u, 1, 8) = g
  <2>1. PICK w : w = SubSeq(u, 1, 8)
    OBVIOUS
  <2>a. 8 <= Len(u)
    BY <1>1
  <2>b. /\ w \in Seq(Byte) /\ Len(w) = 8 - 1 + 1
        /\ \A d \in 1..(8 - 1 + 1) : w[d] = u[1 + d - 1]
    BY <1>a, <2>1, <2>a, Cut
  <2>c. \A d \in 1..8 : 1 + d - 1 = d
    OBVIOUS
  <2>2. w \in Seq(Byte) /\ Len(w) = 8 /\ \A d \in 1..8 : w[d] = u[d]
    BY <2>b, <2>c
  <2>3. g \in Seq(Byte) /\ Len(g) = 8 /\ \A d \in 1..8 : g[d] = u[d]
    BY <1>2, <1>12
  <2>4. w = g
    BY <2>2, <2>3, SMTT(30)
  <2> QED BY <2>1, <2>4
<1>15. g \o r = u
  <2>1. 8 \in 0..Len(u) /\ 8 + 1 = 9
    BY <1>1
  <2>2. SubSeq(u, 1, 8) \o SubSeq(u, 8 + 1, Len(u)) = u
    BY <1>1, <2>1, Halves
  <2> QED BY <1>1, <1>6, <1>14, <2>1, <2>2
<1>16. Len(b) = 16
  BY <1>4, <1>6, <1>9
<1>17. b \in Seq(Byte) /\ uuidFromLittleEndianBytes(b) = u
  BY <1>9, <1>13, <1>15
<1> QED BY <1>7, <1>16, <1>17, Zenon

LEMMA Wider ==
    ASSUME NEW V, Byte \subseteq V, NEW b \in Seq(Byte)
    PROVE  b \in Seq(V)
OBVIOUS

Messages(V) ==
    [destination : Word32, type : Word32, runspace : Guids, pipeline : Guids, data : Seq(V)]

\* A header of four parts, and what follows it.
Laid(V, x, a, b, c, d, e) ==
    /\ x \in Seq(V) /\ Len(x) = Len(a) + Len(b) + Len(c) + Len(d) + Len(e)
    /\ Holds(x, 0, a)
    /\ Holds(x, Len(a), b)
    /\ Holds(x, Len(a) + Len(b), c)
    /\ Holds(x, Len(a) + Len(b) + Len(c), d)
    /\ Holds(x, Len(a) + Len(b) + Len(c) + Len(d), e)

LEMMA Parts ==
    ASSUME NEW V, NEW a \in Seq(V), NEW b \in Seq(V), NEW c \in Seq(V), NEW d \in Seq(V),
           NEW e \in Seq(V)
    PROVE  Laid(V, a \o b \o c \o d \o e, a, b, c, d, e)
<1>0. PICK x : x = a \o b \o c \o d \o e
  OBVIOUS
<1>1. PICK x1 : x1 = a \o b
  OBVIOUS
<1>2. x1 \in Seq(V) /\ Len(x1) = Len(a) + Len(b)
  BY <1>1, Concat
<1>3. Holds(x1, 0, a) /\ Holds(x1, Len(a), b)
  BY <1>1, HoldsItself, HoldsBefore, HoldsAfter
<1>4. PICK x2 : x2 = x1 \o c
  OBVIOUS
<1>5. x2 \in Seq(V) /\ Len(x2) = Len(x1) + Len(c)
  BY <1>2, <1>4, Concat
<1>6. Holds(x2, 0, a) /\ Holds(x2, Len(a), b) /\ Holds(x2, Len(x1), c)
  <2>1. Len(a) \in Nat
    OBVIOUS
  <2> QED BY <1>2, <1>3, <1>4, <2>1, HoldsBefore, HoldsAfter
<1>7. PICK x3 : x3 = x2 \o d
  OBVIOUS
<1>8. x3 \in Seq(V) /\ Len(x3) = Len(x2) + Len(d)
  BY <1>5, <1>7, Concat
<1>9. /\ Holds(x3, 0, a) /\ Holds(x3, Len(a), b) /\ Holds(x3, Len(x1), c)
      /\ Holds(x3, Len(x2), d)
  <2>1. Len(a) \in Nat /\ Len(x1) \in Nat
    BY <1>2
  <2> QED BY <1>5, <1>6, <1>7, <2>1, HoldsBefore, HoldsAfter
<1>10. x = x3 \o e
  BY <1>0, <1>1, <1>4, <1>7
<1>11. x \in Seq(V) /\ Len(x) = Len(x3) + Len(e)
  BY <1>8, <1>10, Concat
<1>12. /\ Holds(x, 0, a) /\ Holds(x, Len(a), b) /\ Holds(x, Len(x1), c)
       /\ Holds(x, Len(x2), d) /\ Holds(x, Len(x3), e)
  <2>1. Len(a) \in Nat /\ Len(x1) \in Nat /\ Len(x2) \in Nat
    BY <1>2, <1>5
  <2> QED BY <1>8, <1>9, <1>10, <2>1, HoldsBefore, HoldsAfter
<1>13. Len(x1) = Len(a) + Len(b) /\ Len(x2) = Len(a) + Len(b) + Len(c)
       /\ Len(x3) = Len(a) + Len(b) + Len(c) + Len(d)
  BY <1>2, <1>5, <1>8
<1>14. Laid(V, x, a, b, c, d, e)
  BY <1>11, <1>12, <1>13 DEF Laid
<1> QED BY <1>0, <1>14

\* Decode inverts Encode: the header of a message, its integers and the mixed
\* order of its GUIDs, and the payload after it, whatever that is.
THEOREM MessagesInverted ==
    ASSUME NEW V, Byte \subseteq V, NEW m \in Messages(V)
    PROVE  Decodable(Encode(m)) /\ Decode(Encode(m)) = m
<1>1. /\ m.destination \in Word32 /\ m.type \in Word32
      /\ m.runspace \in Guids /\ m.pipeline \in Guids /\ m.data \in Seq(V)
  BY DEF Messages
<1>2. PICK a \in Seq(V) : a = PutUint32(m.destination) /\ Len(a) = 4 /\ Uint32(a) = m.destination
  BY <1>1, LittleEndian32, Wider
<1>3. PICK b \in Seq(V) : b = PutUint32(m.type) /\ Len(b) = 4 /\ Uint32(b) = m.type
  BY <1>1, LittleEndian32, Wider
<1>4. PICK c \in Seq(V) : /\ c = uuidToLittleEndianBytes(m.runspace) /\ Len(c) = 16
                          /\ uuidFromLittleEndianBytes(c) = m.runspace
  BY <1>1, Guid, Wider
<1>5. PICK d \in Seq(V) : /\ d = uuidToLittleEndianBytes(m.pipeline) /\ Len(d) = 16
                          /\ uuidFromLittleEndianBytes(d) = m.pipeline
  BY <1>1, Guid, Wider
<1>6. PICK e \in Seq(V) : e = m.data
  BY <1>1
<1>7. PICK x : x = Encode(m)
  OBVIOUS
<1>8. x = a \o b \o c \o d \o e
  BY <1>2, <1>3, <1>4, <1>5, <1>6, <1>7, Zenon DEF Encode
<1>9. PICK n \in Nat : n = Len(e)
  OBVIOUS
<1>a. Laid(V, x, a, b, c, d, e)
  BY <1>8, Parts, Zenon
<1>10. x \in Seq(V) /\ Len(x) = Len(a) + Len(b) + Len(c) + Len(d) + Len(e)
  BY <1>a DEF Laid
<1>11. Len(x) = 40 + n
  BY <1>2, <1>3, <1>4, <1>5, <1>9, <1>10
<1>12. /\ Holds(x, 0, a) /\ Holds(x, Len(a), b) /\ Holds(x, Len(a) + Len(b), c)
       /\ Holds(x, Len(a) + Len(b) + Len(c), d)
       /\ Holds(x, Len(a) + Len(b) + Len(c) + Len(d), e)
  BY <1>a DEF Laid
<1>13. /\ Holds(x, 0, a) /\ Holds(x, 4, b) /\ Holds(x, 8, c) /\ Holds(x, 24, d)
       /\ Holds(x, 40, e)
  <2>1. /\ Len(a) = 4 /\ Len(a) + Len(b) = 8 /\ Len(a) + Len(b) + Len(c) = 24
        /\ Len(a) + Len(b) + Len(c) + Len(d) = 40
    BY <1>2, <1>3, <1>4, <1>5
  <2> QED BY <1>12, <2>1
<1>14. SubSeq(x, 1, 4) = a
  <2>1. SubSeq(x, 0 + 1, 0 + Len(a)) = a
    BY <1>10, <1>13, HeldSlice
  <2>2. 0 + 1 = 1 /\ 0 + Len(a) = 4
    BY <1>2
  <2> QED BY <2>1, <2>2, Zenon
<1>15. SubSeq(x, 5, 8) = b
  <2>1. SubSeq(x, 4 + 1, 4 + Len(b)) = b
    BY <1>10, <1>13, HeldSlice
  <2> QED BY <1>3, <2>1
<1>16. SubSeq(x, 9, 24) = c
  <2>1. SubSeq(x, 8 + 1, 8 + Len(c)) = c
    BY <1>10, <1>13, HeldSlice
  <2> QED BY <1>4, <2>1
<1>17. SubSeq(x, 25, 40) = d
  <2>1. SubSeq(x, 24 + 1, 24 + Len(d)) = d
    BY <1>10, <1>13, HeldSlice
  <2> QED BY <1>5, <2>1
<1>18. SubSeq(x, 41, Len(x)) = e
  <2>1. SubSeq(x, 40 + 1, 40 + Len(e)) = e
    BY <1>10, <1>13, HeldSlice
  <2>2. 40 + 1 = 41 /\ 40 + Len(e) = Len(x)
    BY <1>9, <1>11
  <2> QED BY <2>1, <2>2, Zenon
<1>19. Decode(x) = m
  <2>1. Decode(x) = [destination |-> m.destination, type |-> m.type, runspace |-> m.runspace,
                     pipeline |-> m.pipeline, data |-> m.data]
    BY <1>2, <1>3, <1>4, <1>5, <1>6, <1>14, <1>15, <1>16, <1>17, <1>18, Zenon DEF Decode
  <2> QED BY <2>1 DEF Messages
<1>20. Decodable(x)
  BY <1>11 DEF Decodable, HeaderSize
<1> QED BY <1>7, <1>19, <1>20

-----------------------------------------------------------------------------
(* The header of a fragment, and the stream that fragments arrive in.       *)

LEMMA SameWord ==
    ASSUME NEW x, NEW y, NEW o \in Nat, NEW i \in Nat,
           x[o + i] = y[i], x[o + (i + 1)] = y[i + 1]
    PROVE  WordAt(x, o + i) = WordAt(y, i)
<1>1. (o + i) + 1 = o + (i + 1)
  OBVIOUS
<1> QED BY <1>1 DEF WordAt

\* What an integer written at an offset reads as there.
LEMMA Read32 ==
    ASSUME NEW x, NEW o \in Nat, NEW v \in Word32, Holds(x, o, PutUint32BE(v))
    PROVE  Uint32BE(x, o + 1) = v
<1>1. PICK y : y = PutUint32BE(v)
  OBVIOUS
<1>2. Len(y) = 4 /\ Uint32BE(y, 1) = v
  BY <1>1, BigEndian32
<1>3. \A d \in 1..4 : x[o + d] = y[d]
  BY <1>1, <1>2 DEF Holds
<1>4. WordAt(x, o + 1) = WordAt(y, 1) /\ WordAt(x, o + 3) = WordAt(y, 3)
  <2>1. /\ x[o + 1] = y[1] /\ x[o + (1 + 1)] = y[1 + 1]
        /\ x[o + 3] = y[3] /\ x[o + (3 + 1)] = y[3 + 1]
    BY <1>3
  <2> QED BY <2>1, SameWord
<1>5. (o + 1) + 2 = o + 3 /\ 1 + 2 = 3
  OBVIOUS
<1> QED BY <1>2, <1>4, <1>5, SMT DEF Uint32BE

LEMMA Read64 ==
    ASSUME NEW x, NEW o \in Nat, NEW v \in Word64, Holds(x, o, PutUint64BE(v))
    PROVE  Uint64BE(x, o + 1) = v
<1>1. PICK y : y = PutUint64BE(v)
  OBVIOUS
<1>2. Len(y) = 8 /\ Uint64BE(y, 1) = v
  BY <1>1, BigEndian64
<1>3. \A d \in 1..8 : x[o + d] = y[d]
  BY <1>1, <1>2 DEF Holds
<1>4. /\ WordAt(x, o + 1) = WordAt(y, 1) /\ WordAt(x, o + 3) = WordAt(y, 3)
      /\ WordAt(x, o + 5) = WordAt(y, 5) /\ WordAt(x, o + 7) = WordAt(y, 7)
  <2>1. /\ x[o + 1] = y[1] /\ x[o + (1 + 1)] = y[1 + 1]
        /\ x[o + 3] = y[3] /\ x[o + (3 + 1)] = y[3 + 1]
        /\ x[o + 5] = y[5] /\ x[o + (5 + 1)] = y[5 + 1]
        /\ x[o + 7] = y[7] /\ x[o + (7 + 1)] = y[7 + 1]
    BY <1>3
  <2> QED BY <2>1, SameWord
<1>5. /\ (o + 1) + 2 = o + 3 /\ (o + 1) + 4 = o + 5 /\ (o + 1) + 6 = o + 7
      /\ 1 + 2 = 3 /\ 1 + 4 = 5 /\ 1 + 6 = 7
  OBVIOUS
<1> QED BY <1>2, <1>4, <1>5, SMT DEF Uint64BE

LEMMA FlagsRead ==
    ASSUME NEW f, f.start \in BOOLEAN, f.end \in BOOLEAN
    PROVE  /\ Flags(f) \in Byte
           /\ (Flags(f) % 2 = 1) <=> f.start
           /\ ((Flags(f) \div 2) % 2 = 1) <=> f.end
<1>1. CASE f.start /\ f.end
  <2>1. Flags(f) = 3
    BY <1>1 DEF Flags
  <2>2. 3 % 2 = 1 /\ 3 \div 2 = 1 /\ 1 % 2 = 1 /\ 3 \in Byte
    BY DEF Byte
  <2> QED BY <1>1, <2>1, <2>2
<1>2. CASE f.start /\ ~f.end
  <2>1. Flags(f) = 1
    BY <1>2 DEF Flags
  <2>2. 1 % 2 = 1 /\ 1 \div 2 = 0 /\ 0 % 2 = 0 /\ 1 \in Byte
    BY DEF Byte
  <2> QED BY <1>2, <2>1, <2>2
<1>3. CASE ~f.start /\ f.end
  <2>1. Flags(f) = 2
    BY <1>3 DEF Flags
  <2>2. 2 % 2 = 0 /\ 2 \div 2 = 1 /\ 1 % 2 = 1 /\ 2 \in Byte
    BY DEF Byte
  <2> QED BY <1>3, <2>1, <2>2
<1>4. CASE ~f.start /\ ~f.end
  <2>1. Flags(f) = 0
    BY <1>4 DEF Flags
  <2>2. 0 % 2 = 0 /\ 0 \div 2 = 0 /\ 0 \in Byte
    BY DEF Byte
  <2> QED BY <1>4, <2>1, <2>2
<1> QED BY <1>1, <1>2, <1>3, <1>4

LEMMA LengthFits ==
    ASSUME NEW n \in Nat, n <= maxFragmentBlobLen
    PROVE  n \in Word32
<1>1. n \div 65536 <= n
  OBVIOUS
<1>2. \A k \in Nat : k <= 10485760 => k \div 65536 <= 65535
  BY SMT
<1> QED BY <1>2, SMT DEF Word32, maxFragmentBlobLen

\* What stands in a stream that begins with an encoded fragment.
LEMMA FragmentLaid ==
    ASSUME NEW V, Byte \subseteq V, NEW f \in StreamFragments(V)
    PROVE  LET x == EncodeFragment(f)
           IN /\ x \in Seq(V) /\ Len(x) = 21 + Len(f.data)
              /\ Holds(x, 0, PutUint64BE(f.object)) /\ Holds(x, 8, PutUint64BE(f.id))
              /\ Holds(x, 16, <<Flags(f)>>)
              /\ Holds(x, 17, PutUint32BE(Len(f.data))) /\ Holds(x, 21, f.data)
<1>1. /\ f.object \in Word64 /\ f.id \in Word64 /\ f.start \in BOOLEAN /\ f.end \in BOOLEAN
      /\ f.data \in Seq(V) /\ Len(f.data) <= maxFragmentBlobLen
  BY DEF StreamFragments
<1>2. PICK a \in Seq(V) : a = PutUint64BE(f.object) /\ Len(a) = 8
  BY <1>1, BigEndian64, Wider
<1>3. PICK b \in Seq(V) : b = PutUint64BE(f.id) /\ Len(b) = 8
  BY <1>1, BigEndian64, Wider
<1>4. PICK c \in Seq(V) : c = <<Flags(f)>> /\ Len(c) = 1
  <2>1. Flags(f) \in V
    BY <1>1, FlagsRead
  <2>2. <<Flags(f)>> \in Seq(V) /\ Len(<<Flags(f)>>) = 1
    BY <2>1
  <2> QED BY <2>2, Zenon
<1>5. PICK e \in Seq(V) : e = f.data
  BY <1>1
<1>6. PICK n \in Nat : n = Len(e)
  OBVIOUS
<1>7. PICK d \in Seq(V) : d = PutUint32BE(n) /\ Len(d) = 4
  <2>1. n \in Word32
    BY <1>1, <1>5, <1>6, LengthFits, Zenon
  <2> QED BY <2>1, BigEndian32, Wider
<1>8. PICK x : x = EncodeFragment(f)
  OBVIOUS
<1>9. x = a \o b \o c \o d \o e
  BY <1>2, <1>3, <1>4, <1>5, <1>6, <1>7, <1>8, Zenon DEF EncodeFragment
<1>10. Laid(V, x, a, b, c, d, e)
  BY <1>9, Parts, Zenon
<1>11. x \in Seq(V) /\ Len(x) = Len(a) + Len(b) + Len(c) + Len(d) + Len(e)
  BY <1>10 DEF Laid
<1>12. /\ Holds(x, 0, a) /\ Holds(x, Len(a), b) /\ Holds(x, Len(a) + Len(b), c)
       /\ Holds(x, Len(a) + Len(b) + Len(c), d)
       /\ Holds(x, Len(a) + Len(b) + Len(c) + Len(d), e)
  BY <1>10 DEF Laid
<1>13. /\ Len(a) = 8 /\ Len(a) + Len(b) = 16 /\ Len(a) + Len(b) + Len(c) = 17
       /\ Len(a) + Len(b) + Len(c) + Len(d) = 21
  BY <1>2, <1>3, <1>4, <1>7
<1>14. /\ Holds(x, 0, a) /\ Holds(x, 8, b) /\ Holds(x, 16, c) /\ Holds(x, 17, d)
       /\ Holds(x, 21, e)
  BY <1>12, <1>13
<1>15. Len(x) = 21 + n
  BY <1>6, <1>11, <1>13
<1> QED BY <1>2, <1>3, <1>4, <1>5, <1>6, <1>7, <1>8, <1>11, <1>14, <1>15, Zenon

\* The reader cuts from the stream exactly the fragment that the writer put
\* there, whatever follows it, and reads its fields and its data back.
THEOREM FragmentsInverted ==
    ASSUME NEW V, Byte \subseteq V, NEW f \in StreamFragments(V), NEW rest \in Seq(V)
    PROVE  LET stream == EncodeFragment(f) \o rest
           IN /\ Readable(stream) /\ Left(stream) = rest
              /\ FragmentDecodable(Taken(stream)) /\ DecodeFragment(Taken(stream)) = f
<1>1. /\ f.object \in Word64 /\ f.id \in Word64 /\ f.start \in BOOLEAN /\ f.end \in BOOLEAN
      /\ f.data \in Seq(V) /\ Len(f.data) <= maxFragmentBlobLen
  BY DEF StreamFragments
<1>2. PICK x : x = EncodeFragment(f)
  OBVIOUS
<1>3. PICK e \in Seq(V) : e = f.data
  BY <1>1
<1>4. PICK n \in Nat : n = Len(e)
  OBVIOUS
<1>5. n \in Word32 /\ n <= maxFragmentBlobLen
  BY <1>1, <1>3, <1>4, LengthFits, Zenon
<1>6. /\ x \in Seq(V) /\ Len(x) = 21 + n
      /\ Holds(x, 0, PutUint64BE(f.object)) /\ Holds(x, 8, PutUint64BE(f.id))
      /\ Holds(x, 16, <<Flags(f)>>) /\ Holds(x, 17, PutUint32BE(n)) /\ Holds(x, 21, e)
  BY <1>2, <1>3, <1>4, FragmentLaid, Zenon
<1>7. BlobLength(x) = n
  <2>1. Uint32BE(x, 17 + 1) = n
    BY <1>5, <1>6, Read32
  <2> QED BY <2>1 DEF BlobLength
<1>8. FragmentDecodable(x)
  BY <1>6, <1>7 DEF FragmentDecodable, FragmentHeaderSize
<1>9. DecodeFragment(x) = f
  <2>1. Uint64BE(x, 1) = f.object
    <3>1. Uint64BE(x, 0 + 1) = f.object
      BY <1>1, <1>6, Read64
    <3> QED BY <3>1
  <2>2. Uint64BE(x, 9) = f.id
    <3>1. Uint64BE(x, 8 + 1) = f.id
      BY <1>1, <1>6, Read64
    <3> QED BY <3>1
  <2>3. x[17] = Flags(f)
    <3>1. Holds(x, 16, <<Flags(f)>>) /\ Len(<<Flags(f)>>) = 1
      BY <1>6
    <3> QED BY <3>1 DEF Holds
  <2>4. (x[17] % 2 = 1) = f.start
    <3>1. (x[17] % 2 = 1) <=> f.start
      BY <1>1, <2>3, FlagsRead
    <3> QED BY <1>1, <3>1, Zenon
  <2>5. ((x[17] \div 2) % 2 = 1) = f.end
    <3>1. ((x[17] \div 2) % 2 = 1) <=> f.end
      BY <1>1, <2>3, FlagsRead
    <3> QED BY <1>1, <3>1, Zenon
  <2>6. SubSeq(x, 22, 21 + n) = e
    <3>1. SubSeq(x, 21 + 1, 21 + Len(e)) = e
      BY <1>6, HeldSlice
    <3>2. 21 + 1 = 22
      OBVIOUS
    <3> QED BY <1>4, <3>1, <3>2, Zenon
  <2>7. DecodeFragment(x) =
        [object |-> f.object, id |-> f.id, start |-> f.start, end |-> f.end, data |-> e]
    BY <1>7, <2>1, <2>2, <2>4, <2>5, <2>6, Zenon DEF DecodeFragment
  <2> QED BY <1>3, <2>7 DEF StreamFragments
<1>10. PICK s : s = x \o rest
  OBVIOUS
<1>11. /\ s \in Seq(V) /\ Len(s) = Len(x) + Len(rest)
       /\ Holds(s, 0, x) /\ Holds(s, Len(x), rest)
  BY <1>6, <1>10, Concat, HoldsItself, HoldsBefore, HoldsAfter
<1>12. BlobLength(s) = n
  <2>1. Holds(s, 17, PutUint32BE(n))
    <3>1. PutUint32BE(n) \in Seq(V)
      BY <1>5, BigEndian32, Wider
    <3> QED BY <1>6, <1>10, <3>1, HoldsBefore
  <2>2. Uint32BE(s, 17 + 1) = n
    BY <1>5, <2>1, Read32
  <2> QED BY <2>2 DEF BlobLength
<1>13. Readable(s)
  BY <1>5, <1>6, <1>11, <1>12 DEF Readable, FragmentHeaderSize
<1>14. Taken(s) = x
  <2>1. SubSeq(s, 0 + 1, 0 + Len(x)) = x
    BY <1>6, <1>11, HeldSlice
  <2>2. 0 + 1 = 1 /\ 0 + Len(x) = FragmentHeaderSize + n
    BY <1>6 DEF FragmentHeaderSize
  <2> QED BY <1>12, <2>1, <2>2, Zenon DEF Taken
<1>15. Left(s) = rest
  <2>1. SubSeq(s, Len(x) + 1, Len(x) + Len(rest)) = rest
    BY <1>6, <1>11, HeldSlice
  <2>2. Len(x) = FragmentHeaderSize + n
    BY <1>6 DEF FragmentHeaderSize
  <2> QED BY <1>11, <1>12, <2>1, <2>2, Zenon DEF Left
<1> QED BY <1>2, <1>8, <1>9, <1>10, <1>13, <1>14, <1>15, Zenon

-----------------------------------------------------------------------------
(* The stream.                                                              *)

LEMMA Associative ==
    ASSUME NEW V, NEW a \in Seq(V), NEW b \in Seq(V), NEW c \in Seq(V)
    PROVE  (a \o b) \o c = a \o (b \o c)
OBVIOUS

LEMMA Neutral ==
    ASSUME NEW V, NEW a \in Seq(V)
    PROVE  a \o <<>> = a /\ <<>> \o a = a /\ <<>> \in Seq(V)
OBVIOUS

\* h[k] is what is left of the stream t where the k-th fragment of q begins.
Chain(V, q, t, h) ==
    /\ h[1] = t /\ h[Len(q) + 1] = <<>>
    /\ \A k \in 1..(Len(q) + 1) : h[k] \in Seq(V)
    /\ \A k \in 1..Len(q) : h[k] = EncodeFragment(q[k]) \o h[k + 1]

LEMMA ChainStarts ==
    ASSUME NEW V
    PROVE  \E h : Chain(V, <<>>, <<>>, h)
<1>1. PICK h : h = [k \in 1..1 |-> <<>>]
  OBVIOUS
<1>2. h[1] = <<>>
  BY <1>1
<1>3. Chain(V, <<>>, <<>>, h)
  <2>1. PICK z : z = <<>>
    OBVIOUS
  <2>2. Len(z) = 0 /\ z \in Seq(V)
    BY <2>1
  <2>3. h[Len(z) + 1] = z /\ \A k \in 1..(Len(z) + 1) : h[k] \in Seq(V)
    <3>1. Len(z) + 1 = 1 /\ \A k \in 1..(Len(z) + 1) : k = 1
      BY <2>2
    <3> QED BY <1>2, <2>1, <2>2, <3>1, Zenon
  <2>4. \A k \in 1..Len(z) : h[k] = EncodeFragment(z[k]) \o h[k + 1]
    BY <2>2
  <2> QED BY <1>2, <2>1, <2>3, <2>4, Zenon DEF Chain
<1> QED BY <1>3, Zenon

\* A fragment more at the end of the stream ...
LEMMA ChainGrows ==
    ASSUME NEW V, Byte \subseteq V, NEW q \in Seq(StreamFragments(V)), NEW t \in Seq(V),
           NEW h, Chain(V, q, t, h), NEW f \in StreamFragments(V)
    PROVE  \E g : Chain(V, Append(q, f), t \o EncodeFragment(f), g)
<1>1. PICK n \in Nat : n = Len(q)
  OBVIOUS
<1>2. /\ h[1] = t /\ h[n + 1] = <<>>
      /\ \A k \in 1..(n + 1) : h[k] \in Seq(V)
      /\ \A k \in 1..n : h[k] = EncodeFragment(q[k]) \o h[k + 1]
  BY <1>1, Zenon DEF Chain
<1>3. PICK e \in Seq(V) : e = EncodeFragment(f)
  <2>1. EncodeFragment(f) \in Seq(V)
    BY FragmentLaid, Zenon
  <2> QED BY <2>1, Zenon
<1>4. PICK r : r = Append(q, f)
  OBVIOUS
<1>5. Len(r) = n + 1 /\ r[n + 1] = f /\ \A k \in 1..n : r[k] = q[k]
  BY <1>1, <1>4
<1>6. PICK g : g = [k \in 1..(n + 2) |-> IF k <= n + 1 THEN h[k] \o e ELSE <<>>]
  OBVIOUS
<1>7. g[n + 2] = <<>> /\ \A k \in 1..(n + 1) : g[k] = h[k] \o e
  <2>1. n + 2 \in 1..(n + 2) /\ ~ (n + 2 <= n + 1)
    OBVIOUS
  <2>2. \A k \in 1..(n + 1) : k \in 1..(n + 2) /\ k <= n + 1
    OBVIOUS
  <2> QED BY <1>6, <2>1, <2>2, Zenon
<1>8. g[1] = t \o e
  <2>1. 1 \in 1..(n + 1)
    OBVIOUS
  <2> QED BY <1>2, <1>7, <2>1, Zenon
<1>9. ASSUME NEW k \in 1..(n + 2) PROVE g[k] \in Seq(V)
  <2>1. CASE k = n + 2
    BY <1>7, <2>1, Neutral, Zenon
  <2>2. CASE k # n + 2
    <3>1. k \in 1..(n + 1)
      BY <2>2
    <3>2. h[k] \o e \in Seq(V)
      BY <1>2, <3>1, Concat, Zenon
    <3> QED BY <1>7, <3>1, <3>2, Zenon
  <2> QED BY <2>1, <2>2
<1>10. ASSUME NEW k \in 1..(n + 1) PROVE g[k] = EncodeFragment(r[k]) \o g[k + 1]
  <2>1. CASE k = n + 1
    <3>1. g[k] = <<>> \o e /\ r[k] = f
      BY <1>2, <1>5, <1>7, <2>1, Zenon
    <3>2. k + 1 = n + 2
      BY <2>1
    <3>3. g[k + 1] = <<>>
      BY <1>7, <3>2, Zenon
    <3> QED BY <1>3, <3>1, <3>3, Neutral, Zenon
  <2>2. CASE k # n + 1
    <3>1. k \in 1..n /\ k + 1 \in 1..(n + 1)
      BY <2>2
    <3>2. g[k] = h[k] \o e /\ g[k + 1] = h[k + 1] \o e /\ r[k] = q[k]
      BY <1>5, <1>7, <3>1, Zenon
    <3>3. h[k] = EncodeFragment(q[k]) \o h[k + 1] /\ h[k + 1] \in Seq(V)
      BY <1>2, <3>1, Zenon
    <3>4. EncodeFragment(q[k]) \in Seq(V)
      <4>1. q[k] \in StreamFragments(V)
        BY <1>1, <3>1
      <4> QED BY <4>1, FragmentLaid, Zenon
    <3>5. (EncodeFragment(q[k]) \o h[k + 1]) \o e = EncodeFragment(q[k]) \o (h[k + 1] \o e)
      <4>1. PICK x, y \in Seq(V) : x = EncodeFragment(q[k]) /\ y = h[k + 1]
        BY <3>3, <3>4, ZenonT(30)
      <4>2. (x \o y) \o e = x \o (y \o e)
        BY Associative
      <4> QED BY <4>1, <4>2, Zenon
    <3> QED BY <3>2, <3>3, <3>5, Zenon
  <2> QED BY <2>1, <2>2
<1>11. Chain(V, r, t \o e, g)
  <2>1. Len(r) + 1 = n + 2
    BY <1>5
  <2> QED BY <1>5, <1>7, <1>8, <1>9, <1>10, <2>1, Zenon DEF Chain
<1> QED BY <1>3, <1>4, <1>11, Zenon

\* ... and the one at its beginning.
LEMMA ChainFront ==
    ASSUME NEW V, Byte \subseteq V, NEW q \in Seq(StreamFragments(V)), q # <<>>,
           NEW t, NEW h, Chain(V, q, t, h)
    PROVE  /\ Readable(t) /\ FragmentDecodable(Taken(t)) /\ DecodeFragment(Taken(t)) = Head(q)
           /\ Left(t) \in Seq(V) /\ Tail(q) \in Seq(StreamFragments(V))
           /\ \E g : Chain(V, Tail(q), Left(t), g)
<1>1. PICK n \in Nat : n = Len(q) /\ n >= 1
  OBVIOUS
<1>2. /\ h[1] = t /\ h[n + 1] = <<>>
      /\ \A k \in 1..(n + 1) : h[k] \in Seq(V)
      /\ \A k \in 1..n : h[k] = EncodeFragment(q[k]) \o h[k + 1]
  BY <1>1, Zenon DEF Chain
<1>3. PICK f \in StreamFragments(V) : f = q[1] /\ f = Head(q)
  <2>1. q[1] \in StreamFragments(V)
    BY <1>1
  <2>2. Head(q) = q[1]
    BY <1>1
  <2> QED BY <2>1, <2>2, Zenon
<1>4. PICK rest \in Seq(V) : rest = h[1 + 1]
  <2>1. 1 + 1 \in 1..(n + 1)
    BY <1>1
  <2> QED BY <1>2, <2>1, Zenon
<1>5. t = EncodeFragment(f) \o rest
  <2>1. 1 \in 1..n
    BY <1>1
  <2> QED BY <1>2, <1>3, <1>4, <2>1, Zenon
<1>6. /\ Readable(t) /\ Left(t) = rest
      /\ FragmentDecodable(Taken(t)) /\ DecodeFragment(Taken(t)) = f
  BY <1>5, FragmentsInverted, Zenon
<1>7. PICK r \in Seq(StreamFragments(V)) : r = Tail(q)
  <2>1. Tail(q) \in Seq(StreamFragments(V))
    OBVIOUS
  <2> QED BY <2>1, Zenon
<1>8. Len(r) = n - 1 /\ \A k \in 1..(n - 1) : r[k] = q[k + 1]
  BY <1>1, <1>7
<1>9. PICK g : g = [k \in 1..n |-> h[k + 1]]
  OBVIOUS
<1>10. \A k \in 1..n : g[k] = h[k + 1]
  BY <1>9, Zenon
<1>11. Chain(V, r, rest, g)
  <2>1. g[1] = rest /\ g[Len(r) + 1] = <<>>
    <3>1. 1 \in 1..n /\ n \in 1..n /\ Len(r) + 1 = n
      BY <1>1, <1>8
    <3> QED BY <1>2, <1>4, <1>10, <3>1, Zenon
  <2>2. ASSUME NEW k \in 1..(Len(r) + 1) PROVE g[k] \in Seq(V)
    <3>1. k \in 1..n /\ k + 1 \in 1..(n + 1)
      BY <1>1, <1>8
    <3> QED BY <1>2, <1>10, <3>1, Zenon
  <2>3. ASSUME NEW k \in 1..Len(r) PROVE g[k] = EncodeFragment(r[k]) \o g[k + 1]
    <3>1. k \in 1..(n - 1) /\ k \in 1..n /\ k + 1 \in 1..n
      BY <1>1, <1>8
    <3> QED BY <1>2, <1>8, <1>10, <3>1, Zenon
  <2> QED BY <2>1, <2>2, <2>3, Zenon DEF Chain
<1> QED BY <1>3, <1>6, <1>7, <1>11, Zenon

\* The inductive invariant: the stream is the encoded fragments, one after the
\* other, and nothing else.
StreamInv(V) ==
    /\ framed \in Seq(StreamFragments(V)) /\ wire \in Seq(V)
    /\ \E h : Chain(V, framed, wire, h)

LEMMA InvInTurn ==
    ASSUME NEW V, Byte \subseteq V, StreamInv(V)
    PROVE  FragmentsInTurn
<1>1. /\ framed \in Seq(StreamFragments(V)) /\ wire \in Seq(V)
      /\ \E h : Chain(V, framed, wire, h)
  BY DEF StreamInv
<1>2. PICK h : Chain(V, framed, wire, h)
  BY <1>1, Zenon
<1>3. framed = <<>> => wire = <<>>
  <2>1. SUFFICES ASSUME framed = <<>> PROVE wire = <<>>
    OBVIOUS
  <2>2. Len(framed) + 1 = 1
    BY <2>1
  <2> QED BY <1>2, <2>2, Zenon DEF Chain
<1> QED BY <1>1, <1>2, <1>3, ChainFront, Zenon DEF FragmentsInTurn

LEMMA StepStream ==
    ASSUME NEW V, Byte \subseteq V, StreamInv(V), [StreamNext(V)]_<<wire, framed>>
    PROVE  StreamInv(V)'
<1>1. framed \in Seq(StreamFragments(V)) /\ wire \in Seq(V)
  BY DEF StreamInv
<1>2. PICK h : Chain(V, framed, wire, h)
  BY Zenon DEF StreamInv
<1>3. ASSUME NEW f \in StreamFragments(V), Put(f) PROVE StreamInv(V)'
  <2>1. wire' = wire \o EncodeFragment(f) /\ framed' = Append(framed, f)
    BY <1>3 DEF Put
  <2>2. \E g : Chain(V, framed', wire', g)
    BY <1>1, <1>2, <2>1, ChainGrows, Zenon
  <2>3. framed' \in Seq(StreamFragments(V))
    BY <1>1, <2>1
  <2>4. wire' \in Seq(V)
    <3>1. EncodeFragment(f) \in Seq(V)
      BY FragmentLaid, Zenon
    <3> QED BY <1>1, <2>1, <3>1, Concat, Zenon
  <2> QED BY <2>2, <2>3, <2>4 DEF StreamInv
<1>4. CASE Get
  <2>1. Readable(wire) /\ wire' = Left(wire) /\ framed' = Tail(framed)
    BY <1>4 DEF Get
  <2>2. framed # <<>>
    <3>1. SUFFICES ASSUME framed = <<>> PROVE FALSE
      OBVIOUS
    <3>2. wire = <<>>
      BY <3>1, InvInTurn DEF FragmentsInTurn
    <3>3. Len(wire) = 0
      BY <3>2
    <3> QED BY <2>1, <3>3 DEF Readable, FragmentHeaderSize
  <2>3. /\ wire' \in Seq(V) /\ framed' \in Seq(StreamFragments(V))
        /\ \E g : Chain(V, framed', wire', g)
    BY <1>1, <1>2, <2>1, <2>2, ChainFront, Zenon
  <2> QED BY <2>3 DEF StreamInv
<1>5. CASE UNCHANGED <<wire, framed>>
  BY <1>1, <1>2, <1>5 DEF StreamInv
<1> QED BY <1>3, <1>4, <1>5 DEF StreamNext

\* Whatever senders write, and however many fragments are on their way, the
\* reader takes them one by one, in turn and unchanged (sendMessage and
\* receiveMessage on a connection that loses nothing).
THEOREM StreamInStep ==
    ASSUME NEW V, Byte \subseteq V
    PROVE  StreamSpec(V) => []FragmentsInTurn
<1>1. wire = <<>> /\ framed = <<>> => StreamInv(V)
  <2>1. SUFFICES ASSUME wire = <<>>, framed = <<>> PROVE StreamInv(V)
    OBVIOUS
  <2>2. framed \in Seq(StreamFragments(V)) /\ wire \in Seq(V)
    BY <2>1
  <2> QED BY <2>1, <2>2, ChainStarts, Zenon DEF StreamInv
<1>2. StreamInv(V) /\ [StreamNext(V)]_<<wire, framed>> => StreamInv(V)'
  BY StepStream
<1>3. StreamInv(V) => FragmentsInTurn
  BY InvInTurn
<1> QED BY <1>1, <1>2, <1>3, PTL DEF StreamSpec

=============================================================================
