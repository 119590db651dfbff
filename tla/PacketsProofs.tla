---------------------------- MODULE PacketsProofs ----------------------------
(***************************************************************************)
(* Theorems about Packets, for hostnames, answers and option fields of any *)
(* length.                                                                 *)
(***************************************************************************)
EXTENDS Packets, SequenceTheorems, WellFoundedInduction, TLAPS

-----------------------------------------------------------------------------
(* Induction, in a form that speaks of sets.                               *)

LEMMA Least ==
  ASSUME NEW T, T \subseteq Nat, T # {}
  PROVE  \E x \in T : \A y \in T : ~ (y < x)
<1> DEFINE R == OpToRel(<, Nat)
<1>1. IsWellFoundedOn(R, Nat)
  BY NatLessThanWellFounded
<1>2. \E x \in T : \A y \in T : ~ (<<y, x>> \in R)
  <2> HIDE DEF R
  <2> QED
    BY <1>1, WFMin, Zenon
<1>3. \A x, y \in Nat : y < x => <<y, x>> \in R
  BY DEF OpToRel
<1> HIDE DEF R
<1> QED
  BY <1>2, <1>3

LEMMA StrongInduction ==
  ASSUME NEW S, \A n \in Nat : (\A m \in Nat : m < n => m \in S) => n \in S
  PROVE  Nat \subseteq S
<1> SUFFICES ASSUME ~ (Nat \subseteq S) PROVE FALSE
  OBVIOUS
<1> DEFINE T == Nat \ S
<1>1. T \subseteq Nat /\ T # {}
  OBVIOUS
<1>2. PICK x \in T : \A y \in T : ~ (y < x)
  <2> HIDE DEF T
  <2> QED
    BY <1>1, Least
<1> QED
  BY <1>2

LEMMA Induction ==
  ASSUME NEW S, 0 \in S, \A n \in Nat : n \in S => n + 1 \in S
  PROVE  Nat \subseteq S
<1> SUFFICES ASSUME ~ (Nat \subseteq S) PROVE FALSE
  OBVIOUS
<1> DEFINE T == Nat \ S
<1>1. T \subseteq Nat /\ T # {}
  OBVIOUS
<1>2. PICK x \in T : \A y \in T : ~ (y < x)
  <2> HIDE DEF T
  <2> QED
    BY <1>1, Least
<1>3. x # 0 /\ x \in Nat
  OBVIOUS
<1>4. x - 1 \in Nat /\ x - 1 < x /\ (x - 1) + 1 = x
  BY <1>3
<1>5. x - 1 \in S
  BY <1>2, <1>4
<1>6. x \in S
  BY <1>4, <1>5
<1> QED
  BY <1>6

(* Functions on 0 .. n that are defined by recursion.                      *)
Recursive(f, n, V, base, step) ==
  /\ f \in [0 .. n -> V] /\ f[0] = base
  /\ \A i \in 1 .. n : f[i] = step[i][f[i - 1]]

LEMMA Recursion ==
  ASSUME NEW n \in Nat, NEW V, NEW base \in V,
         NEW step \in [1 .. n -> [V -> V]]
  PROVE  \E f : Recursive(f, n, V, base, step)
<1> DEFINE Good(m, f) == Recursive(f, m, V, base, step)
           S == {m \in Nat : m <= n => \E f : Good(m, f)}
<1> USE DEF Recursive
<1>1. 0 \in S
  <2> DEFINE f == [i \in 0 .. 0 |-> base]
  <2>1. Good(0, f)
    OBVIOUS
  <2> QED
    BY <2>1
<1>2. ASSUME NEW m \in Nat, m \in S PROVE m + 1 \in S
  <2> SUFFICES ASSUME m + 1 <= n PROVE \E f : Good(m + 1, f)
    OBVIOUS
  <2>1. PICK f : Good(m, f)
    BY <1>2
  <2> DEFINE g == [i \in 0 .. m + 1 |->
                     IF i = m + 1 THEN step[m + 1][f[m]] ELSE f[i]]
  <2>2. f[m] \in V /\ m + 1 \in 1 .. n
    BY <2>1
  <2>3. step[m + 1][f[m]] \in V
    BY <2>2
  <2>4. g \in [0 .. m + 1 -> V] /\ g[0] = base
    BY <2>1, <2>3
  <2>5. ASSUME NEW i \in 1 .. m + 1 PROVE g[i] = step[i][g[i - 1]]
    <3>1. CASE i = m + 1
      BY <3>1
    <3>2. CASE i # m + 1
      <4>1. i \in 1 .. m /\ i - 1 \in 0 .. m /\ i - 1 # m + 1
        BY <3>2
      <4>2. g[i] = f[i] /\ g[i - 1] = f[i - 1]
        BY <4>1
      <4>3. f[i] = step[i][f[i - 1]]
        BY <2>1, <4>1
      <4> QED
        BY <4>2, <4>3
    <3> QED
      BY <3>1, <3>2
  <2>6. Good(m + 1, g)
    <3> HIDE DEF g
    <3> QED
      BY <2>4, <2>5
  <2> QED
    BY <2>6
<1>3. n \in S
  <2> HIDE DEF S
  <2> QED
    BY <1>1, <1>2, Induction
<1> QED
  BY <1>3

(* Induction up to a bound.                                                *)
LEMMA UpTo ==
  ASSUME NEW n \in Nat, NEW S, 0 \in S, \A i \in 1 .. n : i - 1 \in S => i \in S
  PROVE  0 .. n \subseteq S
<1> DEFINE T == {m \in Nat : m <= n => m \in S}
<1>1. 0 \in T
  OBVIOUS
<1>2. ASSUME NEW m \in Nat, m \in T PROVE m + 1 \in T
  <2>1. CASE m + 1 <= n
    <3>1. m + 1 \in 1 .. n /\ (m + 1) - 1 = m /\ m \in S
      BY <1>2, <2>1
    <3>2. m + 1 \in S
      BY <3>1
    <3> QED
      BY <3>2
  <2>2. CASE ~ (m + 1 <= n)
    BY <2>2
  <2> QED
    BY <2>1, <2>2
<1>3. Nat \subseteq T
  <2> HIDE DEF T
  <2> QED
    BY <1>1, <1>2, Induction
<1> QED
  BY <1>3

-----------------------------------------------------------------------------
(* Sums of words.                                                          *)

Weight(i, odd, even) == IF i % 2 = 1 THEN odd ELSE even

Sums(f, data, odd, even) ==
  /\ f \in [0 .. Len(data) -> Nat] /\ f[0] = 0
  /\ \A i \in 1 .. Len(data) : f[i] = f[i - 1] + Weight(i, odd, even) * data[i]
  /\ WordSum(data, odd, even) = f[Len(data)]

LEMMA BytesAreNaturals == Byte \subseteq Nat
BY DEF Byte

LEMMA Terms ==
  ASSUME NEW odd \in Nat, NEW even \in Nat, NEW data \in Seq(Byte)
  PROVE  \A i \in 1 .. Len(data) : Weight(i, odd, even) * data[i] \in Nat
<1> TAKE i \in 1 .. Len(data)
<1>1. data[i] \in Nat
  <2>1. data[i] \in Byte
    BY ElementOfSeq
  <2> QED
    BY <2>1, BytesAreNaturals
<1>2. Weight(i, odd, even) \in Nat
  BY DEF Weight
<1>3. \A a, b \in Nat : a * b \in Nat
  OBVIOUS
<1> QED
  BY <1>1, <1>2, <1>3

LEMMA WordSumIs ==
  ASSUME NEW odd \in Nat, NEW even \in Nat, NEW data \in Seq(Byte)
  PROVE  \E f : Sums(f, data, odd, even)
<1> DEFINE n == Len(data)
           term(i) == Weight(i, odd, even) * data[i]
           F(f) == f = [i \in 0 .. n |->
                          IF i = 0 THEN 0
                          ELSE f[i - 1] + (IF i % 2 = 1 THEN odd ELSE even) * data[i]]
           sum == CHOOSE f : F(f)
           step == [i \in 1 .. n |-> [v \in Nat |-> v + term(i)]]
<1>a. n \in Nat
  OBVIOUS
<1>b. \A i \in 1 .. n : term(i) \in Nat
  BY Terms, Zenon
<1>1. n \in Nat /\ \A i \in 1 .. n : term(i) \in Nat
  BY <1>a, <1>b
<1>2. \A f : F(f) <=> f = [i \in 0 .. n |->
                             IF i = 0 THEN 0 ELSE f[i - 1] + term(i)]
  BY DEF Weight
<1>3. step \in [1 .. n -> [Nat -> Nat]]
  <2> HIDE DEF n, term
  <2> QED
    BY <1>1
<1>4. PICK f : Recursive(f, n, Nat, 0, step)
  <2> HIDE DEF n, term, step
  <2> QED
    BY <1>1, <1>3, Recursion, 0 \in Nat
<1>5. \A i \in 1 .. n : f[i] = f[i - 1] + term(i)
  <2> HIDE DEF n, term
  <2> TAKE i \in 1 .. n
  <2>1. i - 1 \in 0 .. n
    BY <1>1
  <2> QED
    BY <1>1, <1>4, <2>1 DEF Recursive
<1>6. F(sum)
  <2> HIDE DEF n, term, sum, F
  <2>1. f = [i \in 0 .. n |-> IF i = 0 THEN 0 ELSE f[i - 1] + term(i)]
    BY <1>4, <1>5 DEF Recursive
  <2>2. F(f)
    BY <1>2, <2>1
  <2> QED
    BY <2>2 DEF sum
<1>7. sum = [i \in 0 .. n |-> IF i = 0 THEN 0 ELSE sum[i - 1] + term(i)]
  <2> HIDE DEF n, term, sum, F
  <2> QED
    BY <1>2, <1>6
<1>8. sum[0] = 0 /\ \A i \in 1 .. n : sum[i] = sum[i - 1] + term(i)
  <2> HIDE DEF n, term, sum, F
  <2> QED
    BY <1>1, <1>7
<1>9. \A i \in 0 .. n : sum[i] \in Nat
  <2> HIDE DEF n, term, sum, F
  <2> DEFINE S == {i \in 0 .. n : sum[i] \in Nat}
  <2>1. 0 \in S
    BY <1>1, <1>8
  <2>2. \A i \in 1 .. n : i - 1 \in S => i \in S
    BY <1>1, <1>8
  <2>3. 0 .. n \subseteq S
    <3> HIDE DEF S
    <3> QED
      BY <1>1, <2>1, <2>2, UpTo
  <2> QED
    BY <2>3
<1>10. WordSum(data, odd, even) = sum[n]
  BY DEF WordSum
<1>11. sum \in [0 .. n -> Nat]
  <2> HIDE DEF n, term, sum, F
  <2> QED
    BY <1>7, <1>9
<1>12. Sums(sum, data, odd, even)
  <2> HIDE DEF sum, F
  <2> QED
    BY <1>8, <1>10, <1>11 DEF Sums
<1> QED
  BY <1>12

LEMMA WordSumType ==
  ASSUME NEW odd \in Nat, NEW even \in Nat, NEW data \in Seq(Byte)
  PROVE  WordSum(data, odd, even) \in Nat
<1>1. PICK f : Sums(f, data, odd, even)
  BY WordSumIs
<1>2. Len(data) \in 0 .. Len(data)
  OBVIOUS
<1> QED
  BY <1>1, <1>2 DEF Sums

(* A piece of even length does not shift the weights of what follows it.   *)
LEMMA WeightShift ==
  ASSUME NEW odd, NEW even, NEW n \in Nat, n % 2 = 0, NEW i \in Nat
  PROVE  Weight(n + i, odd, even) = Weight(i, odd, even)
<1>1. (n + i) % 2 = i % 2
  OBVIOUS
<1> QED
  BY <1>1 DEF Weight

LEMMA WordSumConcat ==
  ASSUME NEW odd \in Nat, NEW even \in Nat,
         NEW a \in Seq(Byte), NEW b \in Seq(Byte), Len(a) % 2 = 0
  PROVE  WordSum(a \o b, odd, even) = WordSum(a, odd, even) + WordSum(b, odd, even)
<1> DEFINE m == Len(a)
           n == Len(b)
           c == a \o b
           W(i) == Weight(i, odd, even)
<1>1. /\ m \in Nat /\ n \in Nat /\ c \in Seq(Byte) /\ Len(c) = m + n
      /\ \A i \in 1 .. m : c[i] = a[i]
      /\ \A i \in 1 .. n : c[m + i] = b[i]
  BY ConcatProperties
<1>2. PICK f : Sums(f, a, odd, even)
  BY WordSumIs
<1>3. PICK g : Sums(g, b, odd, even)
  BY WordSumIs
<1>4. PICK h : Sums(h, c, odd, even)
  <2> HIDE DEF c, m, n
  <2> QED
    BY <1>1, WordSumIs
<1>5. /\ f[0] = 0 /\ \A i \in 1 .. m : f[i] = f[i - 1] + W(i) * a[i]
      /\ \A i \in 0 .. m : f[i] \in Nat
  BY <1>2 DEF Sums
<1>6. /\ g[0] = 0 /\ \A i \in 1 .. n : g[i] = g[i - 1] + W(i) * b[i]
      /\ \A i \in 0 .. n : g[i] \in Nat
  BY <1>3 DEF Sums
<1>7. /\ h[0] = 0 /\ \A i \in 1 .. m + n : h[i] = h[i - 1] + W(i) * c[i]
      /\ \A i \in 0 .. m + n : h[i] \in Nat
  BY <1>1, <1>4 DEF Sums
<1>8. ASSUME NEW i \in 1 .. n PROVE W(m + i) = W(i)
  <2>1. i \in Nat /\ m % 2 = 0
    OBVIOUS
  <2> QED
    BY <1>1, <2>1, WeightShift, Zenon
<1> HIDE DEF m, n, c, W
<1>9. h[m] = f[m]
  <2> DEFINE S == {i \in 0 .. m : h[i] = f[i]}
  <2>1. 0 \in S
    BY <1>1, <1>5, <1>7
  <2>2. ASSUME NEW i \in 1 .. m, i - 1 \in S PROVE i \in S
    <3>1. h[i] = h[i - 1] + W(i) * c[i]
      BY <1>1, <1>7
    <3>2. f[i] = f[i - 1] + W(i) * a[i]
      BY <1>5
    <3>3. c[i] = a[i] /\ h[i - 1] = f[i - 1]
      BY <1>1, <2>2
    <3> QED
      BY <3>1, <3>2, <3>3
  <2>3. 0 .. m \subseteq S
    <3> HIDE DEF S
    <3> QED
      BY <1>1, <2>1, <2>2, UpTo
  <2>4. m \in 0 .. m
    BY <1>1
  <2> QED
    BY <2>3, <2>4
<1>10. h[m + n] = f[m] + g[n]
  <2> DEFINE S == {i \in 0 .. n : h[m + i] = f[m] + g[i]}
  <2>0. f[m] \in Nat
    BY <1>1, <1>5
  <2>1. 0 \in S
    <3>1. m + 0 = m
      BY <1>1
    <3> QED
      BY <1>1, <1>6, <1>9, <2>0, <3>1
  <2>2. ASSUME NEW i \in 1 .. n, i - 1 \in S PROVE i \in S
    <3>1. /\ m + i \in 1 .. m + n /\ (m + i) - 1 = m + (i - 1)
          /\ m + (i - 1) \in 0 .. m + n /\ i - 1 \in 0 .. n
      BY <1>1
    <3>2. h[m + i] = h[m + (i - 1)] + W(m + i) * c[m + i]
      BY <1>7, <3>1
    <3>3. g[i] = g[i - 1] + W(i) * b[i]
      BY <1>6
    <3>4. W(m + i) = W(i) /\ c[m + i] = b[i]
      BY <1>1, <1>8
    <3>5. h[m + i] = h[m + (i - 1)] + W(i) * b[i]
      BY <3>2, <3>4
    <3>6. h[m + (i - 1)] = f[m] + g[i - 1]
      BY <2>2
    <3>7. g[i - 1] \in Nat /\ W(i) * b[i] \in Nat
      BY <1>6, <3>1, Terms DEF n, W
    <3>8. h[m + i] = f[m] + g[i]
      BY <2>0, <3>3, <3>5, <3>6, <3>7
    <3> QED
      BY <3>8
  <2>3. 0 .. n \subseteq S
    <3> HIDE DEF S
    <3> QED
      BY <1>1, <2>1, <2>2, UpTo
  <2>4. n \in 0 .. n
    BY <1>1
  <2> QED
    BY <2>3, <2>4
<1> QED
  BY <1>1, <1>2, <1>3, <1>4, <1>10 DEF c, m, n, Sums

LEMMA WordSumPair ==
  ASSUME NEW odd \in Nat, NEW even \in Nat, NEW x \in Byte, NEW y \in Byte
  PROVE  WordSum(<<x, y>>, odd, even) = odd * x + even * y
<1> DEFINE d == <<x, y>>
<1>1. d \in Seq(Byte) /\ Len(d) = 2 /\ d[1] = x /\ d[2] = y
  OBVIOUS
<1> HIDE DEF d
<1>2. PICK f : Sums(f, d, odd, even)
  BY <1>1, WordSumIs
<1>3. f[1] = f[0] + Weight(1, odd, even) * x
  BY <1>1, <1>2 DEF Sums
<1>4. f[2] = f[1] + Weight(2, odd, even) * y
  BY <1>1, <1>2 DEF Sums
<1>5. f[0] = 0
  BY <1>2 DEF Sums
<1>6. Weight(1, odd, even) = odd /\ Weight(2, odd, even) = even
  BY DEF Weight
<1>7. x \in Nat /\ y \in Nat
  BY BytesAreNaturals
<1>8. odd * x \in Nat /\ even * y \in Nat
  BY <1>7
<1>9. WordSum(d, odd, even) = f[2]
  BY <1>1, <1>2 DEF Sums
<1> QED
  BY <1>3, <1>4, <1>5, <1>6, <1>8, <1>9 DEF d

(* The sums in the two byte orders: the one is 256 times the other, except *)
(* for carries, and one is zero only if the other is.                      *)
LEMMA ByteOrders ==
  ASSUME NEW data \in Seq(Byte)
  PROVE  /\ \E q \in Nat : 256 * Sum(data) = NetworkSum(data) + 65535 * q
         /\ Sum(data) <= 256 * NetworkSum(data)
<1> DEFINE n == Len(data)
<1>1. PICK f : Sums(f, data, 1, 256)
  BY WordSumIs
<1>2. PICK g : Sums(g, data, 256, 1)
  BY WordSumIs
<1>3. n \in Nat /\ \A i \in 1 .. n : data[i] \in Nat
  <2>0. n \in Nat
    OBVIOUS
  <2>1. \A i \in 1 .. n : data[i] \in Byte
    BY ElementOfSeq, Zenon
  <2> QED
    BY <2>0, <2>1, BytesAreNaturals
<1>4. /\ f[0] = 0 /\ \A i \in 1 .. n : f[i] = f[i - 1] + Weight(i, 1, 256) * data[i]
      /\ \A i \in 0 .. n : f[i] \in Nat
  BY <1>1 DEF Sums
<1>5. /\ g[0] = 0 /\ \A i \in 1 .. n : g[i] = g[i - 1] + Weight(i, 256, 1) * data[i]
      /\ \A i \in 0 .. n : g[i] \in Nat
  BY <1>2 DEF Sums
<1> HIDE DEF n
<1> DEFINE S == {i \in 0 .. n : /\ \E q \in Nat : 256 * f[i] = g[i] + 65535 * q
                               /\ f[i] <= 256 * g[i]}
<1>6. 0 \in S
  <2>1. 256 * f[0] = g[0] + 65535 * 0 /\ f[0] <= 256 * g[0]
    BY <1>4, <1>5
  <2> QED
    BY <1>3, <2>1
<1>7. ASSUME NEW i \in 1 .. n, i - 1 \in S PROVE i \in S
  <2>1. PICK q \in Nat : 256 * f[i - 1] = g[i - 1] + 65535 * q
    BY <1>7
  <2>2. f[i - 1] <= 256 * g[i - 1]
    BY <1>7
  <2>3. f[i - 1] \in Nat /\ g[i - 1] \in Nat /\ data[i] \in Nat
    BY <1>3, <1>4, <1>5
  <2> DEFINE u == f[i - 1]
             v == g[i - 1]
             x == data[i]
  <2>4. CASE i % 2 = 1
    <3>1. f[i] = u + x /\ g[i] = v + 256 * x
      BY <1>4, <1>5, <2>3, <2>4 DEF Weight
    <3>2. 256 * f[i] = g[i] + 65535 * q /\ f[i] <= 256 * g[i]
      <4>1. u \in Nat /\ v \in Nat /\ x \in Nat /\ q \in Nat
        BY <2>3
      <4> HIDE DEF u, v, x
      <4>2. 256 * u = v + 65535 * q /\ u <= 256 * v
        BY <2>1, <2>2 DEF u, v
      <4> QED
        BY <3>1, <4>1, <4>2
    <3> QED
      BY <3>2
  <2>5. CASE i % 2 # 1
    <3>1. f[i] = u + 256 * x /\ g[i] = v + x
      BY <1>4, <1>5, <2>3, <2>5 DEF Weight
    <3>2. 256 * f[i] = g[i] + 65535 * (q + x) /\ f[i] <= 256 * g[i] /\ q + x \in Nat
      <4>1. u \in Nat /\ v \in Nat /\ x \in Nat /\ q \in Nat
        BY <2>3
      <4> HIDE DEF u, v, x
      <4>2. 256 * u = v + 65535 * q /\ u <= 256 * v
        BY <2>1, <2>2 DEF u, v
      <4> QED
        BY <3>1, <4>1, <4>2
    <3> QED
      BY <3>2
  <2> QED
    BY <2>4, <2>5
<1>8. 0 .. n \subseteq S
  <2> HIDE DEF S
  <2> QED
    BY <1>3, <1>6, <1>7, UpTo
<1>9. n \in S
  BY <1>3, <1>8
<1>10. Sum(data) = f[n] /\ NetworkSum(data) = g[n]
  BY <1>1, <1>2 DEF n, Sums, Sum, NetworkSum
<1> QED
  BY <1>9, <1>10

(* Folding ends, and takes multiples of 65535 away.                        *)
Folded(n, r) ==
  r \in Nat /\ r < 65536 /\ \E q \in Nat : n = r + 65535 * q

LEMMA FoldIs ==
  ASSUME NEW n \in Nat
  PROVE  Folded(n, Fold(n))
<1> DEFINE next(s) == (s % 65536) + (s \div 65536)
           F(f) == f = [s \in Nat |-> IF s < 65536 THEN s ELSE f[next(s)]]
           fold == CHOOSE f : F(f)
           rest == [s \in Nat |-> IF s = 0 THEN 0 ELSE ((s - 1) % 65535) + 1]
<1>1. ASSUME NEW s \in Nat, ~ (s < 65536)
      PROVE  /\ next(s) \in Nat /\ next(s) < s /\ next(s) > 0
             /\ s = next(s) + 65535 * (s \div 65536) /\ s \div 65536 \in Nat
  <2> DEFINE a == s \div 65536
             b == s % 65536
  <2>1. a \in Nat /\ b \in Nat /\ b < 65536 /\ s = 65536 * a + b
    OBVIOUS
  <2> HIDE DEF a, b
  <2>2. a > 0
    BY <1>1, <2>1
  <2>3. a + b \in Nat /\ a + b < s /\ a + b > 0 /\ s = (a + b) + 65535 * a
    BY <2>1, <2>2
  <2> QED
    BY <2>1, <2>3 DEF a, b
<1>2. F(rest)
  <2>1. ASSUME NEW s \in Nat, s < 65536 PROVE rest[s] = s
    BY <2>1
  <2>2. ASSUME NEW s \in Nat, ~ (s < 65536) PROVE rest[s] = rest[next(s)]
    <3> DEFINE t == next(s)
               a == s \div 65536
    <3>1. t \in Nat /\ t > 0 /\ s = t + 65535 * a /\ a \in Nat
      BY <1>1, <2>2
    <3> HIDE DEF t, a
    <3>2. s - 1 = (t - 1) + 65535 * a /\ t - 1 \in Nat /\ s # 0
      BY <3>1
    <3>3. ((t - 1) + 65535 * a) % 65535 = (t - 1) % 65535
      BY <3>1, <3>2
    <3>4. rest[s] = rest[t]
      BY <3>1, <3>2, <3>3
    <3> QED
      BY <3>4 DEF t
  <2>3. rest = [s \in Nat |-> IF s < 65536 THEN s ELSE rest[next(s)]]
    <3> HIDE DEF next
    <3>1. \A s \in Nat : rest[s] = IF s < 65536 THEN s ELSE rest[next(s)]
      <4> HIDE DEF rest
      <4> QED
        BY <2>1, <2>2
    <3> DEFINE other == [s \in Nat |-> IF s < 65536 THEN s ELSE rest[next(s)]]
    <3>2. rest = [s \in Nat |-> rest[s]]
      OBVIOUS
    <3> HIDE DEF rest
    <3> QED
      BY <3>1, <3>2
  <2> QED
    BY <2>3
<1>3. fold = [s \in Nat |-> IF s < 65536 THEN s ELSE fold[next(s)]]
  <2> HIDE DEF rest, F
  <2>1. F(fold)
    BY <1>2
  <2> QED
    BY <2>1 DEF F
<1> DEFINE Good(s) == /\ fold[s] \in Nat /\ fold[s] < 65536
                      /\ \E q \in Nat : s = fold[s] + 65535 * q
<1>4. \A s \in Nat : fold[s] = IF s < 65536 THEN s ELSE fold[next(s)]
  <2> HIDE DEF fold, next
  <2> QED
    BY <1>3
<1> HIDE DEF fold, next
<1>5. ASSUME NEW s \in Nat, s < 65536 PROVE Good(s)
  <2>1. fold[s] = s
    BY <1>4, <1>5
  <2>2. s = s + 65535 * 0
    OBVIOUS
  <2> QED
    BY <1>5, <2>1, <2>2
<1>6. ASSUME NEW s \in Nat, ~ (s < 65536), Good(next(s)) PROVE Good(s)
  <2> DEFINE t == next(s)
             a == s \div 65536
  <2>1. t \in Nat /\ s = t + 65535 * a /\ a \in Nat
    BY <1>1, <1>6
  <2>2. fold[s] = fold[t]
    BY <1>4, <1>6
  <2>3. Good(t)
    BY <1>6
  <2> HIDE DEF t, a
  <2>4. fold[t] \in Nat /\ fold[t] < 65536
    BY <2>3
  <2>5. PICK q \in Nat : t = fold[t] + 65535 * q
    BY <2>3
  <2> DEFINE r == fold[t]
  <2>6. s = r + 65535 * (q + a) /\ q + a \in Nat
    <3>1. r \in Nat /\ r < 65536 /\ t = r + 65535 * q
      BY <2>4, <2>5
    <3> HIDE DEF r
    <3> QED
      BY <2>1, <3>1
  <2>7. fold[s] = r
    BY <2>2
  <2> QED
    BY <2>4, <2>6, <2>7
<1> DEFINE S == {s \in Nat : Good(s)}
<1>7. Nat \subseteq S
  <2> HIDE DEF Good
  <2>1. ASSUME NEW k \in Nat, \A m \in Nat : m < k => m \in S PROVE k \in S
    <3>1. CASE k < 65536
      BY <1>5, <3>1
    <3>2. CASE ~ (k < 65536)
      BY <1>1, <1>6, <2>1, <3>2
    <3> QED
      BY <3>1, <3>2
  <2> HIDE DEF S
  <2> QED
    BY <2>1, StrongInduction
<1>8. Good(n)
  <2> HIDE DEF Good
  <2> QED
    BY <1>7
<1>9. Fold(n) = fold[n]
  BY DEF Fold, fold, next
<1> QED
  BY <1>8, <1>9 DEF Folded

-----------------------------------------------------------------------------
(* Checksums.                                                              *)

LEMMA SumConcat ==
  ASSUME NEW a \in Seq(Byte), NEW b \in Seq(Byte), Len(a) % 2 = 0
  PROVE  Sum(a \o b) = Sum(a) + Sum(b)
<1>1. 1 \in Nat /\ 256 \in Nat
  OBVIOUS
<1> QED
  BY <1>1, WordSumConcat DEF Sum

LEMMA SumType ==
  ASSUME NEW data \in Seq(Byte)
  PROVE  Sum(data) \in Nat /\ NetworkSum(data) \in Nat
<1>1. 1 \in Nat /\ 256 \in Nat
  OBVIOUS
<1> QED
  BY <1>1, WordSumType DEF Sum, NetworkSum

LEMMA SumPair ==
  ASSUME NEW x \in Byte, NEW y \in Byte
  PROVE  /\ <<x, y>> \in Seq(Byte) /\ Len(<<x, y>>) = 2
         /\ Sum(<<x, y>>) = x + 256 * y
<1>1. 1 \in Nat /\ 256 \in Nat /\ x \in Nat /\ y \in Nat
  BY BytesAreNaturals
<1>2. Sum(<<x, y>>) = 1 * x + 256 * y
  BY <1>1, WordSumPair DEF Sum
<1> QED
  BY <1>1, <1>2

LEMMA IsByte == \A x \in Nat : x < 256 => x \in Byte
BY DEF Byte

LEMMA HtonsType ==
  ASSUME NEW n \in Nat
  PROVE  Htons(n) \in Seq(Byte) /\ Len(Htons(n)) = 2
<1>1. (n \div 256) % 256 \in Nat /\ (n \div 256) % 256 < 256
  <2> DEFINE m == n \div 256
  <2>1. m \in Nat
    OBVIOUS
  <2> HIDE DEF m
  <2>2. m % 256 \in Nat /\ m % 256 < 256
    BY <2>1
  <2> QED
    BY <2>2 DEF m
<1>2. n % 256 \in Nat /\ n % 256 < 256
  OBVIOUS
<1>3. (n \div 256) % 256 \in Byte /\ n % 256 \in Byte
  BY <1>1, <1>2, IsByte
<1> QED
  BY <1>3, SumPair DEF Htons

LEMMA StoreIs ==
  ASSUME NEW c \in Nat, c < 65536
  PROVE  /\ Store(c) \in Seq(Byte) /\ Len(Store(c)) = 2 /\ Sum(Store(c)) = c
         /\ Store(c)[1] = c % 256 /\ Store(c)[2] = c \div 256
<1>1. /\ c % 256 \in Nat /\ c % 256 < 256 /\ c \div 256 \in Nat /\ c \div 256 < 256
      /\ c = (c % 256) + 256 * (c \div 256)
  OBVIOUS
<1>2. c % 256 \in Byte /\ c \div 256 \in Byte
  BY <1>1, IsByte
<1> QED
  BY <1>1, <1>2, SumPair DEF Store

LEMMA NoCheck ==
  Zeros(2) \in Seq(Byte) /\ Len(Zeros(2)) = 2 /\ Sum(Zeros(2)) = 0
<1>1. Zeros(2) = <<0, 0>>
  BY DEF Zeros
<1>2. 0 \in Byte
  BY IsByte
<1>3. Sum(<<0, 0>>) = 0 + 256 * 0
  BY <1>2, SumPair, Zenon
<1>4. Sum(Zeros(2)) = 0
  <2> DEFINE n == Sum(<<0, 0>>)
  <2>1. n = 0 + 256 * 0
    BY <1>3
  <2> HIDE DEF n
  <2>2. n = 0
    BY <2>1
  <2> QED
    BY <1>1, <2>2 DEF n
<1>5. <<0, 0>> \in Seq(Byte) /\ Len(<<0, 0>>) = 2
  BY <1>2
<1> QED
  BY <1>1, <1>4, <1>5

LEMMA ChecksumType ==
  ASSUME NEW data \in Seq(Byte)
  PROVE  Checksum(data) \in Nat /\ Checksum(data) < 65536
<1> DEFINE s == Sum(data)
<1>1. s \in Nat
  BY SumType
<1> HIDE DEF s
<1>2. Folded(s, Fold(s))
  BY <1>1, FoldIs
<1>3. 65535 - Fold(s) \in Nat /\ 65535 - Fold(s) < 65536
  BY <1>2 DEF Folded
<1> QED
  BY <1>3 DEF Checksum, s

Completes(c, data) ==
  /\ c \in Nat
  /\ c = Checksum(data) \/ (Checksum(data) = 0 /\ c = 65535)

(* Data that sums up to what it did without its checksum, and the checksum *)
(* (or 65535 in place of a zero), verifies.                                *)
LEMMA SummedVerifies ==
  ASSUME NEW data \in Seq(Byte), NEW whole \in Seq(Byte), NEW c,
         Completes(c, data), Sum(whole) = Sum(data) + c
  PROVE  Verifies(whole)
<1> DEFINE s == Sum(data)
           t == Sum(whole)
           n == NetworkSum(whole)
           r == Fold(s)
<1>1. s \in Nat /\ t \in Nat /\ n \in Nat
  BY SumType
<1>b. c \in Nat /\ (c = Checksum(data) \/ (Checksum(data) = 0 /\ c = 65535))
  BY DEF Completes
<1>2. Checksum(data) = 65535 - r /\ t = s + c
  BY DEF Checksum
<1>3. (\E q \in Nat : 256 * t = n + 65535 * q) /\ t <= 256 * n
  BY ByteOrders
<1>4. Verifies(whole) <=> n # 0 /\ n % 65535 = 0
  BY DEF Verifies
<1> HIDE DEF s, t, n
<1>a. Folded(s, r)
  BY <1>1, FoldIs
<1>5. PICK q \in Nat : s = r + 65535 * q
  BY <1>a DEF Folded
<1>6. r \in Nat /\ r < 65536
  BY <1>a DEF Folded
<1>7. PICK p \in Nat : 256 * t = n + 65535 * p
  BY <1>3
<1> HIDE DEF r
<1>8. \E k \in Nat : k > 0 /\ t = 65535 * k
  <2>1. CASE c = Checksum(data)
    <3>1. t = 65535 * (q + 1) /\ q + 1 \in Nat /\ q + 1 > 0
      BY <1>1, <1>2, <1>5, <1>6, <1>b, <2>1
    <3> QED
      BY <3>1
  <2>2. CASE Checksum(data) = 0 /\ c = 65535
    <3>1. r = 65535
      BY <1>2, <1>6, <2>2
    <3>2. t = 65535 * (q + 2) /\ q + 2 \in Nat /\ q + 2 > 0
      BY <1>1, <1>2, <1>5, <1>b, <2>2, <3>1
    <3> QED
      BY <3>2
  <2> QED
    BY <1>b, <2>1, <2>2
<1>9. PICK k \in Nat : k > 0 /\ t = 65535 * k
  BY <1>8
<1>10. n # 0
  BY <1>1, <1>3, <1>9
<1>11. n = 65535 * (256 * k - p) /\ 256 * k - p \in Int
  BY <1>1, <1>7, <1>9
<1>12. n % 65535 = 0
  <2> DEFINE m == 256 * k - p
  <2>1. m \in Int /\ n = 65535 * m
    BY <1>11
  <2> HIDE DEF m
  <2> QED
    BY <1>1, <2>1
<1> QED
  BY <1>4, <1>10, <1>12

-----------------------------------------------------------------------------
(* The datagram of a query.                                                *)

Even(data) == data \in Seq(Byte) /\ Len(data) % 2 = 0

(* What concatenation does, by name.                                       *)
Joined(a, b, c) ==
  /\ c \in Seq(Byte) /\ Len(c) = Len(a) + Len(b)
  /\ \A i \in 1 .. Len(a) : c[i] = a[i]
  /\ \A i \in 1 .. Len(b) : c[Len(a) + i] = b[i]

LEMMA ConcatJoins ==
  ASSUME NEW a \in Seq(Byte), NEW b \in Seq(Byte)
  PROVE  Joined(a, b, a \o b)
<1> DEFINE c == a \o b
<1>1. /\ c \in Seq(Byte) /\ Len(c) = Len(a) + Len(b)
      /\ \A i \in 1 .. Len(a) : c[i] = a[i]
      /\ \A i \in 1 .. Len(b) : c[Len(a) + i] = b[i]
  BY ConcatProperties
<1> HIDE DEF c
<1>2. Joined(a, b, c)
  BY <1>1 DEF Joined
<1> QED
  BY <1>2 DEF c

LEMMA EvenConcat ==
  ASSUME NEW a, NEW b, Even(a), Even(b)
  PROVE  Even(a \o b) /\ Sum(a \o b) = Sum(a) + Sum(b)
<1>1. a \in Seq(Byte) /\ b \in Seq(Byte) /\ Len(a) % 2 = 0 /\ Len(b) % 2 = 0
  BY DEF Even
<1>2. Sum(a \o b) = Sum(a) + Sum(b)
  BY <1>1, SumConcat
<1>3. a \o b \in Seq(Byte) /\ Len(a \o b) = Len(a) + Len(b)
  BY <1>1, ConcatProperties
<1>4. (Len(a) + Len(b)) % 2 = 0
  <2> DEFINE m == Len(a)
             n == Len(b)
  <2>1. m \in Nat /\ n \in Nat /\ m % 2 = 0 /\ n % 2 = 0
    BY <1>1
  <2> HIDE DEF m, n
  <2>2. (m + n) % 2 = 0
    BY <2>1
  <2> QED
    BY <2>2 DEF m, n
<1> QED
  BY <1>2, <1>3, <1>4 DEF Even

LEMMA ShortIs == \A n \in Short : n \in Nat /\ n < 65536
BY DEF Short

LEMMA EvenPair ==
  ASSUME NEW x \in Byte, NEW y \in Byte PROVE Even(<<x, y>>)
<1>1. <<x, y>> \in Seq(Byte) /\ Len(<<x, y>>) = 2
  BY SumPair
<1> QED
  BY <1>1 DEF Even

LEMMA EvenHtons == ASSUME NEW n \in Nat PROVE Even(Htons(n))
<1>1. Htons(n) \in Seq(Byte) /\ Len(Htons(n)) = 2
  BY HtonsType
<1> QED
  BY <1>1 DEF Even

LEMMA EvenZeros == Even(Zeros(2))
<1> DEFINE z == Zeros(2)
<1>1. z \in Seq(Byte) /\ Len(z) = 2
  BY NoCheck
<1> HIDE DEF z
<1>2. Even(z)
  BY <1>1 DEF Even
<1> QED
  BY <1>2 DEF z

LEMMA EvenAddresses == Even(MyIp) /\ Even(DnsIp)
<1>1. MyIp \in Seq(Byte) /\ DnsIp \in Seq(Byte) /\ Len(MyIp) = 4 /\ Len(DnsIp) = 4
  BY PacketsAssumption
<1> QED
  BY <1>1 DEF Even

(* The checksum in the IP header adds what it stores.                      *)
LEMMA IpHeaderSum ==
  ASSUME NEW id \in Nat, NEW len \in Nat, NEW check, Even(check)
  PROVE  /\ IpHeader(id, check, len) \in Seq(Byte)
         /\ Sum(IpHeader(id, check, len)) =
              Sum(IpHeader(id, Zeros(2), len)) + Sum(check)
<1> DEFINE a == <<69, 0>> \o Htons(20 + len)
           b == a \o Htons(id)
           c == b \o <<0, 0, 64, 17>>
           d(x) == c \o x
           e(x) == d(x) \o MyIp
           f(x) == e(x) \o DnsIp
<1>1. {0, 69, 64, 17} \subseteq Byte
  BY IsByte
<1>2. Even(a)
  <2>1. Even(<<69, 0>>) /\ Even(Htons(20 + len))
    BY <1>1, EvenPair, EvenHtons
  <2> QED
    BY <2>1, EvenConcat
<1>3. Even(b)
  <2>1. Even(Htons(id))
    BY EvenHtons
  <2> HIDE DEF a
  <2> QED
    BY <1>2, <2>1, EvenConcat
<1>4. Even(c)
  <2>1. Even(<<0, 0, 64, 17>>)
    BY <1>1 DEF Even
  <2> HIDE DEF b
  <2> QED
    BY <1>3, <2>1, EvenConcat
<1>5. ASSUME NEW x, Even(x)
      PROVE  Even(f(x)) /\ Sum(f(x)) = ((Sum(c) + Sum(x)) + Sum(MyIp)) + Sum(DnsIp)
  <2> HIDE DEF c
  <2>1. Even(d(x)) /\ Sum(d(x)) = Sum(c) + Sum(x)
    BY <1>4, <1>5, EvenConcat
  <2> HIDE DEF d
  <2>2. Even(e(x)) /\ Sum(e(x)) = Sum(d(x)) + Sum(MyIp)
    BY <2>1, EvenAddresses, EvenConcat
  <2> HIDE DEF e
  <2>3. Even(f(x)) /\ Sum(f(x)) = Sum(e(x)) + Sum(DnsIp)
    BY <2>2, EvenAddresses, EvenConcat
  <2> QED
    BY <2>1, <2>2, <2>3
<1>6. \A x : IpHeader(id, x, len) = f(x)
  BY DEF IpHeader
<1>7. Even(Zeros(2)) /\ Sum(Zeros(2)) = 0
  BY EvenZeros, NoCheck
<1>8. {Sum(c), Sum(check), Sum(MyIp), Sum(DnsIp)} \subseteq Nat
  <2> HIDE DEF c
  <2> QED
    BY <1>4, EvenAddresses, SumType DEF Even
<1> HIDE DEF c, f
<1>9. Even(f(check)) /\ Sum(f(check)) = ((Sum(c) + Sum(check)) + Sum(MyIp)) + Sum(DnsIp)
  BY <1>5
<1>10. Sum(f(Zeros(2))) = ((Sum(c) + 0) + Sum(MyIp)) + Sum(DnsIp)
  BY <1>5, <1>7
<1>11. Sum(f(check)) = Sum(f(Zeros(2))) + Sum(check)
  BY <1>8, <1>9, <1>10
<1> QED
  BY <1>6, <1>9, <1>11 DEF Even

(* So does the checksum in the UDP header, with the pseudo header before.  *)
Pseudo(len) == MyIp \o DnsIp \o <<0, 17>> \o Htons(len)

LEMMA EvenPseudo == ASSUME NEW len \in Nat PROVE Even(Pseudo(len))
<1>1. {0, 17} \subseteq Byte
  BY IsByte
<1>2. Even(MyIp \o DnsIp)
  BY EvenAddresses, EvenConcat
<1>3. Even(MyIp \o DnsIp \o <<0, 17>>)
  <2>1. Even(<<0, 17>>)
    BY <1>1, EvenPair
  <2> QED
    BY <1>2, <2>1, EvenConcat
<1>4. Even(Htons(len))
  BY EvenHtons
<1> QED
  BY <1>3, <1>4, EvenConcat DEF Pseudo

UdpSums(port, check, payload, len) ==
  LET udp == UdpDatagram(port, check, payload)
  IN  /\ udp \in Seq(Byte) /\ Len(udp) = 6 + Len(check) + Len(payload)
      /\ Pseudo(len) \o udp \in Seq(Byte)
      /\ Sum(Pseudo(len) \o udp) =
           Sum(Pseudo(len) \o UdpDatagram(port, Zeros(2), payload)) + Sum(check)
      /\ \A i \in 1 .. Len(check) : udp[6 + i] = check[i]

LEMMA UdpSum ==
  ASSUME NEW port \in Nat, NEW payload \in Seq(Byte), NEW len \in Nat,
         NEW check, Even(check)
  PROVE  UdpSums(port, check, payload, len)
<1> DEFINE a == Htons(port) \o Htons(53)
           b == a \o Htons(8 + Len(payload))
           d(x) == b \o x
           e(x) == d(x) \o payload
           p == Pseudo(len)
           f(x) == p \o e(x)
<1>1. Even(a)
  <2>1. Even(Htons(port)) /\ Even(Htons(53))
    BY EvenHtons
  <2> QED
    BY <2>1, EvenConcat
<1>2. Even(b)
  <2>1. Even(Htons(8 + Len(payload)))
    BY EvenHtons
  <2> HIDE DEF a
  <2> QED
    BY <1>1, <2>1, EvenConcat
<1>3. Len(b) = 6
  <2> DEFINE h == Htons(8 + Len(payload))
             u == Htons(port)
             v == Htons(53)
  <2>1. /\ u \in Seq(Byte) /\ Len(u) = 2 /\ v \in Seq(Byte) /\ Len(v) = 2
        /\ h \in Seq(Byte) /\ Len(h) = 2
    BY HtonsType
  <2> HIDE DEF h, u, v
  <2>2. Joined(u, v, u \o v)
    BY <2>1, ConcatJoins
  <2>3. a = u \o v
    BY DEF u, v
  <2> HIDE DEF a
  <2>4. Len(a) = 4 /\ a \in Seq(Byte)
    BY <2>1, <2>2, <2>3 DEF Joined
  <2>5. Joined(a, h, a \o h)
    BY <2>1, <2>4, ConcatJoins
  <2>6. b = a \o h
    BY DEF h
  <2> HIDE DEF b
  <2> QED
    BY <2>1, <2>4, <2>5, <2>6 DEF Joined
<1>4. Even(p)
  BY EvenPseudo
<1>5. ASSUME NEW x, Even(x)
      PROVE  /\ e(x) \in Seq(Byte) /\ Len(e(x)) = 6 + Len(x) + Len(payload)
             /\ f(x) \in Seq(Byte)
             /\ Sum(f(x)) = Sum(p) + ((Sum(b) + Sum(x)) + Sum(payload))
  <2> HIDE DEF b, p
  <2>1. Even(d(x)) /\ Sum(d(x)) = Sum(b) + Sum(x)
    BY <1>2, <1>5, EvenConcat
  <2>2. Len(d(x)) = 6 + Len(x)
    <3>1. b \in Seq(Byte) /\ x \in Seq(Byte)
      BY <1>2, <1>5 DEF Even
    <3>2. Joined(b, x, d(x))
      BY <3>1, ConcatJoins
    <3> HIDE DEF d
    <3> QED
      BY <1>3, <3>2 DEF Joined
  <2> HIDE DEF d
  <2>3. d(x) \in Seq(Byte) /\ Len(d(x)) % 2 = 0
    BY <2>1 DEF Even
  <2>4. Sum(e(x)) = Sum(d(x)) + Sum(payload)
    BY <2>3, SumConcat
  <2>5. e(x) \in Seq(Byte) /\ Len(e(x)) = 6 + Len(x) + Len(payload)
    BY <2>2, <2>3, ConcatProperties
  <2> HIDE DEF e
  <2>6. p \in Seq(Byte) /\ Len(p) % 2 = 0
    BY <1>4 DEF Even
  <2>7. f(x) \in Seq(Byte) /\ Sum(f(x)) = Sum(p) + Sum(e(x))
    BY <2>5, <2>6, SumConcat, ConcatProperties
  <2> QED
    BY <2>1, <2>4, <2>5, <2>7
<1>6. ASSUME NEW i \in 1 .. Len(check) PROVE e(check)[6 + i] = check[i]
  <2> HIDE DEF b
  <2>1. b \in Seq(Byte) /\ check \in Seq(Byte)
    BY <1>2 DEF Even
  <2>2. /\ d(check) \in Seq(Byte) /\ Len(d(check)) = 6 + Len(check)
        /\ d(check)[6 + i] = check[i]
    <3>1. Joined(b, check, d(check))
      BY <2>1, ConcatJoins
    <3> HIDE DEF d
    <3> QED
      BY <1>3, <3>1 DEF Joined
  <2> HIDE DEF d
  <2>3. 6 + i \in 1 .. Len(d(check))
    BY <2>1, <2>2
  <2> QED
    BY <2>2, <2>3, ConcatProperties
<1>7. \A x : UdpDatagram(port, x, payload) = e(x)
  BY DEF UdpDatagram
<1>8. {Sum(p), Sum(b), Sum(check), Sum(payload)} \subseteq Nat
  <2> HIDE DEF p, b
  <2> QED
    BY <1>2, <1>4, SumType DEF Even
<1>9. Even(Zeros(2)) /\ Sum(Zeros(2)) = 0
  BY EvenZeros, NoCheck
<1> HIDE DEF p, b, e
<1>10. Sum(f(check)) = Sum(p) + ((Sum(b) + Sum(check)) + Sum(payload))
  BY <1>5
<1>11. Sum(f(Zeros(2))) = Sum(p) + ((Sum(b) + 0) + Sum(payload))
  BY <1>5, <1>9
<1>12. Sum(f(check)) = Sum(f(Zeros(2))) + Sum(check)
  BY <1>8, <1>10, <1>11
<1>13. /\ e(check) \in Seq(Byte) /\ Len(e(check)) = 6 + Len(check) + Len(payload)
       /\ f(check) \in Seq(Byte)
  BY <1>5
<1> QED
  BY <1>6, <1>7, <1>12, <1>13 DEF p, UdpSums

-----------------------------------------------------------------------------
(* Flattened sequences.                                                    *)

Flattens(f, seqs, S) ==
  /\ f \in [0 .. Len(seqs) -> Seq(S)] /\ f[0] = <<>>
  /\ \A i \in 1 .. Len(seqs) : f[i] = f[i - 1] \o seqs[i]
  /\ FlattenSeq(seqs) = f[Len(seqs)]

LEMMA FlattenIs ==
  ASSUME NEW S, NEW seqs \in Seq(Seq(S))
  PROVE  \E f : Flattens(f, seqs, S)
<1> DEFINE n == Len(seqs)
           V == Seq(S)
           step == [i \in 1 .. n |-> [v \in V |-> v \o seqs[i]]]
           F(g) == g = [i \in 1 .. n |->
                          IF i = 1 THEN seqs[i] ELSE g[i - 1] \o seqs[i]]
           flatten == CHOOSE g : F(g)
<1>1. n \in Nat /\ \A i \in 1 .. n : seqs[i] \in V
  OBVIOUS
<1>2. step \in [1 .. n -> [V -> V]]
  <2>1. \A v, w \in V : v \o w \in V
    BY ConcatProperties
  <2> HIDE DEF n, V
  <2> QED
    BY <1>1, <2>1
<1>3. <<>> \in V
  OBVIOUS
<1>4. PICK f : Recursive(f, n, V, <<>>, step)
  <2> HIDE DEF n, V, step
  <2> QED
    BY <1>1, <1>2, <1>3, Recursion
<1>5. /\ f \in [0 .. n -> V] /\ f[0] = <<>>
      /\ \A i \in 1 .. n : f[i] = f[i - 1] \o seqs[i]
  <2>1. \A i \in 1 .. n : i - 1 \in 0 .. n
    BY <1>1
  <2> HIDE DEF n, V
  <2> QED
    BY <1>4, <2>1 DEF Recursive
<1>6. ASSUME NEW i \in 1 .. n, i = 1 PROVE f[i] = seqs[i]
  <2>1. \A v \in V : <<>> \o v = v
    BY ConcatEmptySeq
  <2> HIDE DEF n, V
  <2>2. f[i] = f[i - 1] \o seqs[i]
    BY <1>5, Zenon
  <2>3. f[i - 1] = <<>>
    <3>1. i - 1 = 0
      BY <1>6
    <3> QED
      BY <1>5, <3>1, Zenon
  <2> QED
    BY <1>1, <2>1, <2>2, <2>3
<1>7. F([i \in 1 .. n |-> f[i]])
  <2> DEFINE g == [i \in 1 .. n |-> f[i]]
  <2>1. ASSUME NEW i \in 1 .. n
        PROVE  g[i] = IF i = 1 THEN seqs[i] ELSE g[i - 1] \o seqs[i]
    <3>1. CASE i = 1
      BY <1>6, <3>1
    <3>2. CASE i # 1
      <4>1. i - 1 \in 1 .. n
        BY <1>1, <3>2
      <4>2. g[i - 1] = f[i - 1] /\ g[i] = f[i] /\ f[i] = f[i - 1] \o seqs[i]
        BY <1>5, <4>1
      <4> HIDE DEF g
      <4> QED
        BY <3>2, <4>2
    <3> QED
      BY <3>1, <3>2
  <2>2. g = [i \in 1 .. n |-> g[i]]
    OBVIOUS
  <2> HIDE DEF g, n
  <2>3. g = [i \in 1 .. n |-> IF i = 1 THEN seqs[i] ELSE g[i - 1] \o seqs[i]]
    BY <2>1, <2>2
  <2>4. F(g)
    BY <2>3
  <2> QED
    BY <2>4 DEF g
<1>8. F(flatten)
  <2> HIDE DEF F, n
  <2> QED
    BY <1>7
<1>9. ASSUME n # 0 PROVE flatten[n] = f[n]
  <2>1. \A i \in 1 .. n :
          flatten[i] = IF i = 1 THEN seqs[i] ELSE flatten[i - 1] \o seqs[i]
    <3> HIDE DEF flatten, n
    <3> QED
      BY <1>8
  <2> HIDE DEF flatten, F, n, V
  <2> DEFINE T == {i \in 0 .. n : i = 0 \/ flatten[i] = f[i]}
  <2>2. 0 \in T
    BY <1>1
  <2>3. ASSUME NEW i \in 1 .. n, i - 1 \in T PROVE i \in T
    <3>1. CASE i = 1
      BY <1>6, <2>1, <3>1
    <3>2. CASE i # 1
      <4>1. i - 1 # 0
        BY <3>2
      <4>2. flatten[i - 1] = f[i - 1]
        BY <2>3, <4>1
      <4>3. flatten[i] = f[i]
        BY <1>5, <2>1, <3>2, <4>2
      <4> QED
        BY <1>1, <4>3
    <3> QED
      BY <3>1, <3>2
  <2>4. 0 .. n \subseteq T
    <3> HIDE DEF T
    <3> QED
      BY <1>1, <2>2, <2>3, UpTo
  <2> QED
    BY <1>1, <1>9, <2>4
<1>10. FlattenSeq(seqs) = f[n]
  <2>1. CASE n = 0
    <3>1. seqs = <<>> /\ FlattenSeq(seqs) = seqs
      BY <2>1 DEF FlattenSeq
    <3> QED
      BY <1>5, <2>1, <3>1
  <2>2. CASE n # 0
    <3>1. FlattenSeq(seqs) = flatten[n]
      BY <2>2 DEF FlattenSeq
    <3> QED
      BY <1>9, <2>2, <3>1
  <2> QED
    BY <2>1, <2>2
<1>11. Flattens(f, seqs, S)
  BY <1>5, <1>10 DEF Flattens
<1> QED
  BY <1>11

LEMMA FlattenType ==
  ASSUME NEW S, NEW seqs \in Seq(Seq(S))
  PROVE  FlattenSeq(seqs) \in Seq(S)
<1>1. PICK f : Flattens(f, seqs, S)
  BY FlattenIs
<1>2. Len(seqs) \in 0 .. Len(seqs)
  OBVIOUS
<1> QED
  BY <1>1, <1>2 DEF Flattens

-----------------------------------------------------------------------------
(* Names.                                                                  *)

LEMMA NamesAre == ASSUME NEW labels \in Names PROVE IsName(labels)
BY NamesAssumption

LEMMA Chars == Char \subseteq Byte /\ Dot \in Byte /\ Dot \notin Char
<1>1. Dot \in Byte
  BY IsByte DEF Dot
<1> QED
  BY <1>1 DEF Char

(* The text of a name, label by label.                                     *)
Piece(labels, i) == (IF i = 1 THEN <<>> ELSE <<Dot>>) \o labels[i]

LEMMA PiecesType ==
  ASSUME NEW labels, IsName(labels)
  PROVE  /\ [i \in DOMAIN labels |-> Piece(labels, i)] \in Seq(Seq(Byte))
         /\ Len([i \in DOMAIN labels |-> Piece(labels, i)]) = Len(labels)
<1> DEFINE n == Len(labels)
<1>1. n \in Nat /\ DOMAIN labels = 1 .. n
  BY DEF IsName
<1>2. ASSUME NEW i \in 1 .. n PROVE Piece(labels, i) \in Seq(Byte)
  <2>1. labels[i] \in Seq(Char)
    BY DEF IsName
  <2>2. labels[i] \in Seq(Byte)
    BY <2>1, Chars, SeqMonotonic
  <2>3. <<>> \in Seq(Byte) /\ <<Dot>> \in Seq(Byte)
    BY Chars
  <2>4. \A a \in Seq(Byte) : a \o labels[i] \in Seq(Byte)
    BY <2>2, ConcatProperties
  <2> QED
    BY <2>3, <2>4 DEF Piece
<1> HIDE DEF n
<1> DEFINE s == [i \in 1 .. n |-> Piece(labels, i)]
           V == Seq(Byte)
<1>3. s \in [1 .. n -> V]
  BY <1>2
<1>4. s \in Seq(V) /\ Len(s) = n
  <2> HIDE DEF V, s
  <2> QED
    BY <1>1, <1>3
<1> QED
  BY <1>1, <1>4 DEF n

LEMMA TextType == ASSUME NEW labels, IsName(labels) PROVE Text(labels) \in Seq(Byte)
<1> DEFINE s == [i \in DOMAIN labels |-> Piece(labels, i)]
<1>1. Text(labels) = FlattenSeq(s)
  BY DEF Text, Piece
<1>2. s \in Seq(Seq(Byte))
  BY PiecesType
<1> HIDE DEF s
<1> QED
  BY <1>1, <1>2, FlattenType

(* The states of dns_query's loop over a hostname.                         *)
ReadState == [name : Seq(Byte), label : Seq(Byte)]

Reads(f, hostname) ==
  /\ f \in [0 .. Len(hostname) -> ReadState]
  /\ f[0] = [name |-> <<>>, label |-> <<>>]
  /\ \A i \in 1 .. Len(hostname) : f[i] = ReadChar(f[i - 1], hostname[i])
  /\ Qname(hostname) = Closed(f[Len(hostname)]) \o <<0>>

LEMMA LengthByte == ASSUME NEW n \in Nat PROVE <<n % 256>> \in Seq(Byte)
<1>1. n % 256 \in Nat /\ n % 256 < 256
  OBVIOUS
<1>2. n % 256 \in Byte
  BY <1>1, IsByte
<1> QED
  BY <1>2

LEMMA ClosedType == ASSUME NEW r \in ReadState PROVE Closed(r) \in Seq(Byte)
<1> DEFINE a == r.name
           b == <<Len(r.label) % 256>>
           c == r.label
<1>1. a \in Seq(Byte) /\ c \in Seq(Byte)
  BY DEF ReadState
<1>2. b \in Seq(Byte)
  <2>1. Len(c) \in Nat
    BY <1>1
  <2> HIDE DEF c
  <2>2. <<Len(c) % 256>> \in Seq(Byte)
    BY <2>1, LengthByte
  <2> QED
    BY <2>2 DEF c
<1>3. Closed(r) = (a \o b) \o c
  BY DEF Closed
<1> HIDE DEF a, b, c
<1>4. a \o b \in Seq(Byte)
  BY <1>1, <1>2, ConcatProperties
<1>5. (a \o b) \o c \in Seq(Byte)
  BY <1>1, <1>4, ConcatProperties
<1> QED
  BY <1>3, <1>5

LEMMA ReadType ==
  ASSUME NEW r \in ReadState, NEW c \in Byte PROVE ReadChar(r, c) \in ReadState
<1>1. Closed(r) \in Seq(Byte) /\ <<>> \in Seq(Byte)
  BY ClosedType
<1>2. r.name \in Seq(Byte) /\ r.label \in Seq(Byte)
  BY DEF ReadState
<1>3. Append(r.label, c) \in Seq(Byte)
  BY <1>2
<1>4. CASE c = Dot
  <2>1. ReadChar(r, c) = [name |-> Closed(r), label |-> <<>>]
    BY <1>4 DEF ReadChar
  <2> QED
    BY <1>1, <2>1 DEF ReadState
<1>5. CASE c # Dot
  <2>1. ReadChar(r, c) = [name |-> r.name, label |-> Append(r.label, c)]
    BY <1>5 DEF ReadChar
  <2> QED
    BY <1>2, <1>3, <2>1 DEF ReadState
<1> QED
  BY <1>4, <1>5

LEMMA QnameIs ==
  ASSUME NEW hostname \in Seq(Byte)
  PROVE  \E f : Reads(f, hostname)
<1> DEFINE n == Len(hostname)
           base == [name |-> <<>>, label |-> <<>>]
           step == [i \in 1 .. n |-> [r \in ReadState |-> ReadChar(r, hostname[i])]]
           F(f) == f = [i \in 0 .. n |->
                          IF i = 0 THEN base ELSE ReadChar(f[i - 1], hostname[i])]
           read == CHOOSE f : F(f)
<1>1. n \in Nat /\ \A i \in 1 .. n : hostname[i] \in Byte
  <2>1. \A i \in 1 .. n : hostname[i] \in Byte
    BY ElementOfSeq, Zenon
  <2> QED
    BY <2>1
<1>2. base \in ReadState
  BY DEF ReadState
<1>3. step \in [1 .. n -> [ReadState -> ReadState]]
  <2> HIDE DEF n
  <2> QED
    BY <1>1, ReadType
<1>4. PICK f : Recursive(f, n, ReadState, base, step)
  <2> HIDE DEF n, base, step
  <2> QED
    BY <1>1, <1>2, <1>3, Recursion
<1>5. /\ f \in [0 .. n -> ReadState] /\ f[0] = base
      /\ \A i \in 1 .. n : f[i] = ReadChar(f[i - 1], hostname[i])
  <2>1. \A i \in 1 .. n : i - 1 \in 0 .. n
    BY <1>1
  <2> HIDE DEF n, base
  <2> QED
    BY <1>4, <2>1 DEF Recursive
<1>6. F(read)
  <2> HIDE DEF n, base, F
  <2>1. f = [i \in 0 .. n |-> IF i = 0 THEN base ELSE ReadChar(f[i - 1], hostname[i])]
    BY <1>1, <1>5
  <2>2. F(f)
    BY <2>1 DEF F
  <2> QED
    BY <2>2
<1>7. /\ read = [i \in 0 .. n |-> read[i]] /\ read[0] = base
      /\ \A i \in 1 .. n : read[i] = ReadChar(read[i - 1], hostname[i])
  <2> HIDE DEF n, base, read, F
  <2>1. read = [i \in 0 .. n |->
                  IF i = 0 THEN base ELSE ReadChar(read[i - 1], hostname[i])]
    BY <1>6 DEF F
  <2>2. read[0] = base
    BY <1>1, <2>1
  <2>3. \A i \in 1 .. n : read[i] = ReadChar(read[i - 1], hostname[i])
    BY <1>1, <2>1
  <2> QED
    BY <2>1, <2>2, <2>3
<1>8. Qname(hostname) = Closed(read[n]) \o <<0>>
  BY DEF Qname
<1> HIDE DEF F, read, n, base
<1> DEFINE S == {i \in 0 .. n : read[i] \in ReadState}
<1>9. 0 .. n \subseteq S
  <2>1. 0 \in S
    BY <1>1, <1>2, <1>7
  <2>2. ASSUME NEW i \in 1 .. n, i - 1 \in S PROVE i \in S
    <3>1. read[i] = ReadChar(read[i - 1], hostname[i])
      BY <1>7
    <3>2. read[i - 1] \in ReadState /\ hostname[i] \in Byte
      BY <1>1, <2>2
    <3>3. read[i] \in ReadState
      BY <3>1, <3>2, ReadType
    <3> QED
      BY <1>1, <3>3
  <2> HIDE DEF S
  <2> QED
    BY <1>1, <2>1, <2>2, UpTo
<1>10. read \in [0 .. n -> ReadState]
  BY <1>7, <1>9
<1>11. Reads(read, hostname)
  BY <1>7, <1>8, <1>10 DEF Reads, n, base
<1> QED
  BY <1>11

LEMMA QnameType ==
  ASSUME NEW hostname \in Seq(Byte) PROVE Qname(hostname) \in Seq(Byte)
<1>1. PICK f : Reads(f, hostname)
  BY QnameIs
<1> DEFINE c == Closed(f[Len(hostname)])
<1>2. c \in Seq(Byte)
  <2>1. Len(hostname) \in 0 .. Len(hostname)
    OBVIOUS
  <2>2. f[Len(hostname)] \in ReadState
    BY <1>1, <2>1 DEF Reads
  <2> QED
    BY <2>2, ClosedType
<1>3. <<0>> \in Seq(Byte)
  <2>1. 0 \in Byte
    BY IsByte
  <2> QED
    BY <2>1
<1>4. Qname(hostname) = c \o <<0>>
  BY <1>1 DEF Reads
<1> HIDE DEF c
<1>5. c \o <<0>> \in Seq(Byte)
  BY <1>2, <1>3, ConcatProperties
<1> QED
  BY <1>4, <1>5

-----------------------------------------------------------------------------
(* Pieces of a sequence.                                                   *)

(* The sequence d stands in the sequence whole, behind its first off bytes.*)
Placed(d, off, whole) ==
  /\ off + Len(d) <= Len(whole)
  /\ \A j \in 1 .. Len(d) : whole[off + j] = d[j]

LEMMA PlacedPieces ==
  ASSUME NEW a \in Seq(Byte), NEW b \in Seq(Byte), NEW off \in Nat,
         NEW whole \in Seq(Byte), Placed(a \o b, off, whole)
  PROVE  Placed(a, off, whole) /\ Placed(b, off + Len(a), whole)
<1> DEFINE c == a \o b
<1>1. Joined(a, b, c) /\ Placed(c, off, whole)
  BY ConcatJoins
<1> HIDE DEF c
<1>2. Len(a) \in Nat /\ Len(b) \in Nat /\ Len(c) = Len(a) + Len(b) /\ Len(whole) \in Nat
  BY <1>1 DEF Joined
<1>3. Placed(a, off, whole)
  <2>1. ASSUME NEW j \in 1 .. Len(a) PROVE whole[off + j] = a[j]
    <3>1. j \in 1 .. Len(c) /\ c[j] = a[j]
      BY <1>1, <1>2 DEF Joined
    <3> QED
      BY <1>1, <3>1 DEF Placed
  <2> QED
    BY <1>1, <1>2, <2>1 DEF Placed
<1>4. Placed(b, off + Len(a), whole)
  <2>1. ASSUME NEW j \in 1 .. Len(b) PROVE whole[(off + Len(a)) + j] = b[j]
    <3>1. Len(a) + j \in 1 .. Len(c) /\ c[Len(a) + j] = b[j]
      BY <1>1, <1>2 DEF Joined
    <3>2. whole[off + (Len(a) + j)] = c[Len(a) + j]
      BY <1>1, <3>1 DEF Placed
    <3>3. off + (Len(a) + j) = (off + Len(a)) + j
      BY <1>2
    <3> QED
      BY <3>1, <3>2, <3>3
  <2> QED
    BY <1>1, <1>2, <2>1 DEF Placed
<1> QED
  BY <1>3, <1>4

LEMMA PlacedWhole ==
  ASSUME NEW whole \in Seq(Byte) PROVE Placed(whole, 0, whole)
BY DEF Placed

(* The flattened pieces, one behind the other.                             *)
LEMMA FlattenPlaces ==
  ASSUME NEW seqs \in Seq(Seq(Byte)), NEW f, Flattens(f, seqs, Byte),
         NEW off \in Nat, NEW whole \in Seq(Byte),
         Placed(FlattenSeq(seqs), off, whole), NEW k \in 1 .. Len(seqs)
  PROVE  /\ Len(f[k]) = Len(f[k - 1]) + Len(seqs[k])
         /\ Len(f[k - 1]) \in Nat /\ Len(seqs[k]) \in Nat
         /\ Placed(seqs[k], off + Len(f[k - 1]), whole)
<1> DEFINE n == Len(seqs)
<1>1. /\ n \in Nat /\ \A i \in 1 .. n : seqs[i] \in Seq(Byte)
      /\ \A i \in 0 .. n : f[i] \in Seq(Byte)
      /\ \A i \in 1 .. n : f[i] = f[i - 1] \o seqs[i]
      /\ Placed(f[n], off, whole)
  <2>1. n \in Nat /\ \A i \in 1 .. n : seqs[i] \in Seq(Byte)
    OBVIOUS
  <2>2. \A i \in 0 .. n : f[i] \in Seq(Byte)
    BY DEF Flattens
  <2>3. \A i \in 1 .. n : f[i] = f[i - 1] \o seqs[i]
    BY Zenon DEF Flattens
  <2>4. Placed(f[n], off, whole)
    BY Zenon DEF Flattens
  <2> QED
    BY <2>1, <2>2, <2>3, <2>4
<1> HIDE DEF n
<1> DEFINE S == {i \in 0 .. n : Placed(f[n - i], off, whole)}
<1>2. 0 .. n \subseteq S
  <2>1. 0 \in S
    BY <1>1
  <2>2. ASSUME NEW i \in 1 .. n, i - 1 \in S PROVE i \in S
    <3> DEFINE m == n - i
    <3>1. m + 1 \in 1 .. n /\ m \in 0 .. n /\ (m + 1) - 1 = m /\ n - (i - 1) = m + 1
      BY <1>1
    <3>2. Placed(f[m + 1], off, whole)
      BY <2>2, <3>1
    <3>3. f[m + 1] = f[m] \o seqs[m + 1]
      BY <1>1, <3>1
    <3> HIDE DEF m
    <3>4. f[m] \in Seq(Byte) /\ seqs[m + 1] \in Seq(Byte)
      BY <1>1, <3>1
    <3>5. Placed(f[m], off, whole)
      BY <3>2, <3>3, <3>4, PlacedPieces
    <3> QED
      BY <3>5 DEF m
  <2> HIDE DEF S
  <2> QED
    BY <1>1, <2>1, <2>2, UpTo
<1>3. k \in 1 .. n
  BY DEF n
<1>4. Placed(f[k], off, whole)
  <2>1. n - k \in 0 .. n /\ n - (n - k) = k
    BY <1>1, <1>3
  <2> QED
    BY <1>2, <2>1
<1> DEFINE a == f[k - 1]
           b == seqs[k]
<1>5. a \in Seq(Byte) /\ b \in Seq(Byte) /\ f[k] = a \o b
  <2>1. k - 1 \in 0 .. n
    BY <1>1, <1>3
  <2>2. a \in Seq(Byte)
    BY <1>1, <2>1
  <2>3. b \in Seq(Byte)
    BY <1>1, <1>3
  <2>4. f[k] = a \o b
    BY <1>1, <1>3, Zenon
  <2> QED
    BY <2>2, <2>3, <2>4
<1> HIDE DEF a, b
<1>6. Placed(b, off + Len(a), whole)
  BY <1>4, <1>5, PlacedPieces
<1>7. Len(f[k]) = Len(a) + Len(b) /\ Len(a) \in Nat /\ Len(b) \in Nat
  BY <1>5, ConcatProperties
<1> QED
  BY <1>6, <1>7 DEF a, b

-----------------------------------------------------------------------------
(* The question: a hostname is written as its labels.                      *)

LEMMA LabelIs ==
  ASSUME NEW labels, IsName(labels), NEW i \in 1 .. Len(labels)
  PROVE  /\ labels[i] \in Seq(Char) /\ labels[i] \in Seq(Byte)
         /\ Len(labels[i]) \in Nat /\ Len(labels[i]) < 64 /\ Len(labels[i]) # 0
         /\ WireLabel(labels[i]) \in Seq(Byte)
         /\ Len(WireLabel(labels[i])) = Len(labels[i]) + 1
         /\ WireLabel(labels[i])[1] = Len(labels[i])
<1> DEFINE a == labels[i]
           b == <<Len(a)>>
<1>1. a \in Seq(Char) /\ Len(a) \in 1 .. 63
  BY DEF IsName
<1> HIDE DEF a
<1>2. a \in Seq(Byte)
  BY <1>1, Chars, SeqMonotonic
<1>3. Len(a) \in Nat /\ Len(a) < 64 /\ Len(a) # 0 /\ Len(a) \in Byte
  <2> DEFINE m == Len(a)
  <2>1. m \in 1 .. 63
    BY <1>1
  <2> HIDE DEF m
  <2>2. m \in Nat /\ m < 64 /\ m # 0 /\ m < 256
    BY <2>1
  <2>3. m \in Byte
    BY <2>2, IsByte, Zenon
  <2> QED
    BY <2>2, <2>3 DEF m
<1>4. b \in Seq(Byte) /\ Len(b) = 1 /\ b[1] = Len(a)
  BY <1>3
<1>5. WireLabel(a) = b \o a
  BY DEF WireLabel
<1> HIDE DEF b
<1>6. Joined(b, a, WireLabel(a))
  BY <1>2, <1>4, <1>5, ConcatJoins
<1>7. WireLabel(a) \in Seq(Byte) /\ Len(WireLabel(a)) = Len(a) + 1
  BY <1>3, <1>4, <1>6 DEF Joined
<1>8. WireLabel(a)[1] = Len(a)
  BY <1>4, <1>6 DEF Joined
<1> QED
  BY <1>1, <1>2, <1>3, <1>7, <1>8 DEF a

LEMMA WirePiecesType ==
  ASSUME NEW labels, IsName(labels)
  PROVE  LET s == [i \in DOMAIN labels |-> WireLabel(labels[i])]
         IN  /\ s \in Seq(Seq(Byte)) /\ Len(s) = Len(labels)
             /\ \A i \in 1 .. Len(labels) : s[i] = WireLabel(labels[i])
<1> DEFINE n == Len(labels)
           V == Seq(Byte)
           s == [i \in 1 .. n |-> WireLabel(labels[i])]
<1>1. n \in Nat /\ DOMAIN labels = 1 .. n
  BY DEF IsName
<1>2. \A i \in 1 .. n : WireLabel(labels[i]) \in V
  BY LabelIs
<1>3. \A i \in 1 .. n : s[i] = WireLabel(labels[i])
  OBVIOUS
<1>4. s \in Seq(V) /\ Len(s) = n
  <2> HIDE DEF n, V
  <2>1. s \in [1 .. n -> V]
    BY <1>2
  <2> HIDE DEF s
  <2> QED
    BY <1>1, <2>1
<1>5. s = [i \in DOMAIN labels |-> WireLabel(labels[i])]
  BY <1>1
<1> HIDE DEF s, n
<1> QED
  BY <1>3, <1>4, <1>5 DEF n

(* The loop takes the characters of a label one by one.                    *)
LEMMA LabelRead ==
  ASSUME NEW hostname \in Seq(Byte), NEW g, Reads(g, hostname), NEW off \in Nat,
         NEW label \in Seq(Char), Placed(label, off, hostname),
         NEW name, g[off] = [name |-> name, label |-> <<>>]
  PROVE  g[off + Len(label)] = [name |-> name, label |-> label]
<1> DEFINE n == Len(label)
           S == {j \in 0 .. n : g[off + j] = [name |-> name,
                                             label |-> SubSeq(label, 1, j)]}
<1>1. n \in Nat /\ off + n <= Len(hostname) /\ Len(hostname) \in Nat
  BY DEF Placed
<1>2. \A j \in 1 .. n : hostname[off + j] = label[j] /\ label[j] \in Char
  <2>1. \A j \in 1 .. n : hostname[off + j] = label[j]
    BY DEF Placed
  <2>2. \A j \in 1 .. n : label[j] \in Char
    BY ElementOfSeq, Zenon
  <2> QED
    BY <2>1, <2>2
<1>3. \A i \in 1 .. Len(hostname) : g[i] = ReadChar(g[i - 1], hostname[i])
  BY DEF Reads
<1>4. SubSeq(label, 1, 0) = <<>> /\ SubSeq(label, 1, n) = label
  BY SubSeqFull
<1>5. \A j \in 1 .. n :
        Append(SubSeq(label, 1, j - 1), label[j]) = SubSeq(label, 1, j)
  <2> TAKE j \in 1 .. n
  <2> DEFINE a == Append(SubSeq(label, 1, j - 1), label[j])
             b == SubSeq(label, 1, j)
  <2>1. SubSeq(label, 1, j - 1) \in Seq(Char) /\ Len(SubSeq(label, 1, j - 1)) = j - 1
    BY <1>1
  <2>2. \A i \in 1 .. j - 1 : SubSeq(label, 1, j - 1)[i] = label[i]
    BY <1>1
  <2>3. label[j] \in Char
    BY <1>2
  <2>4. a \in Seq(Char) /\ Len(a) = j /\ \A i \in 1 .. j : a[i] = label[i]
    <3> DEFINE c == SubSeq(label, 1, j - 1)
    <3> HIDE DEF c
    <3>1. c \in Seq(Char) /\ Len(c) = j - 1 /\ \A i \in 1 .. j - 1 : c[i] = label[i]
      BY <2>1, <2>2 DEF c
    <3>2. /\ Append(c, label[j]) \in Seq(Char) /\ Len(Append(c, label[j])) = j
          /\ \A i \in 1 .. j : Append(c, label[j])[i] = label[i]
      BY <2>3, <3>1, AppendProperties
    <3> QED
      BY <3>2 DEF c
  <2>5. b \in Seq(Char) /\ Len(b) = j /\ \A i \in 1 .. j : b[i] = label[i]
    BY <1>1
  <2> HIDE DEF a, b
  <2>6. a = b
    BY <2>4, <2>5, SeqEqual
  <2> QED
    BY <2>6 DEF a, b
<1> HIDE DEF n
<1>6. 0 \in S
  <2>1. off + 0 = off
    OBVIOUS
  <2> QED
    BY <1>1, <1>4, <2>1
<1>7. ASSUME NEW j \in 1 .. n, j - 1 \in S PROVE j \in S
  <2> DEFINE r == [name |-> name, label |-> SubSeq(label, 1, j - 1)]
  <2>1. off + j \in 1 .. Len(hostname) /\ (off + j) - 1 = off + (j - 1)
    BY <1>1
  <2>2. g[off + (j - 1)] = r
    BY <1>7
  <2>3. g[off + j] = ReadChar(r, label[j])
    BY <1>2, <1>3, <2>1, <2>2
  <2>4. label[j] # Dot
    BY <1>2, Chars
  <2>5. ReadChar(r, label[j]) = [name |-> name, label |-> SubSeq(label, 1, j)]
    BY <1>5, <2>4 DEF ReadChar
  <2> QED
    BY <1>1, <2>3, <2>5
<1>8. 0 .. n \subseteq S
  <2> HIDE DEF S
  <2> QED
    BY <1>1, <1>6, <1>7, UpTo
<1>9. g[off + n] = [name |-> name, label |-> SubSeq(label, 1, n)]
  BY <1>1, <1>8
<1> QED
  BY <1>4, <1>9 DEF n

LEMMA QnameIsWireName ==
  ASSUME NEW labels, IsName(labels)
  PROVE  Qname(Text(labels)) = WireName(labels)
<1> DEFINE n == Len(labels)
           pieces == [i \in DOMAIN labels |-> Piece(labels, i)]
           wires == [i \in DOMAIN labels |-> WireLabel(labels[i])]
           text == Text(labels)
<1>1. n \in Nat /\ n > 0 /\ DOMAIN labels = 1 .. n
  BY DEF IsName
<1>2. /\ pieces \in Seq(Seq(Byte)) /\ Len(pieces) = n
      /\ \A i \in 1 .. n : pieces[i] = Piece(labels, i)
  <2>1. pieces \in Seq(Seq(Byte)) /\ Len(pieces) = n
    BY PiecesType
  <2> QED
    BY <1>1, <2>1
<1>3. /\ wires \in Seq(Seq(Byte)) /\ Len(wires) = n
      /\ \A i \in 1 .. n : wires[i] = WireLabel(labels[i])
  BY WirePiecesType
<1>4. text = FlattenSeq(pieces) /\ WireName(labels) = FlattenSeq(wires) \o <<0>>
  BY DEF Text, Piece, WireName, WireLabels
<1> HIDE DEF pieces, wires
<1>5. text \in Seq(Byte)
  BY TextType
<1>6. PICK f : Flattens(f, pieces, Byte)
  BY <1>2, FlattenIs
<1>7. PICK w : Flattens(w, wires, Byte)
  BY <1>3, FlattenIs
<1>8. PICK g : Reads(g, text)
  <2> HIDE DEF text
  <2> QED
    BY <1>5, QnameIs
<1> HIDE DEF n, text
<1>9. /\ f[0] = <<>> /\ f[n] = text
      /\ \A k \in 1 .. n : /\ Len(f[k]) = Len(f[k - 1]) + Len(Piece(labels, k))
                           /\ Len(f[k - 1]) \in Nat
                           /\ Placed(Piece(labels, k), Len(f[k - 1]), text)
  <2>1. f[0] = <<>> /\ f[n] = text
    BY <1>2, <1>4, <1>6 DEF Flattens
  <2>2. Placed(FlattenSeq(pieces), 0, text)
    BY <1>4, <1>5, PlacedWhole
  <2>3. ASSUME NEW k \in 1 .. n
        PROVE  /\ Len(f[k]) = Len(f[k - 1]) + Len(Piece(labels, k))
               /\ Len(f[k - 1]) \in Nat
               /\ Placed(Piece(labels, k), Len(f[k - 1]), text)
    <3>1. 0 \in Nat /\ k \in 1 .. Len(pieces)
      BY <1>2
    <3>2. /\ Len(f[k]) = Len(f[k - 1]) + Len(pieces[k])
          /\ Len(f[k - 1]) \in Nat
          /\ Placed(pieces[k], 0 + Len(f[k - 1]), text)
      BY <1>2, <1>5, <1>6, <2>2, <3>1, FlattenPlaces
    <3>3. 0 + Len(f[k - 1]) = Len(f[k - 1])
      BY <3>2
    <3> QED
      BY <1>2, <3>2, <3>3
  <2> QED
    BY <2>1, <2>3
<1>10. /\ w[0] = <<>> /\ FlattenSeq(wires) = w[n]
       /\ \A k \in 0 .. n : w[k] \in Seq(Byte)
       /\ \A k \in 1 .. n : w[k] = w[k - 1] \o WireLabel(labels[k])
  <2>1. w[0] = <<>> /\ FlattenSeq(wires) = w[n]
    BY <1>3, <1>7 DEF Flattens
  <2>2. \A k \in 0 .. n : w[k] \in Seq(Byte)
    BY <1>3, <1>7 DEF Flattens
  <2>3. \A k \in 1 .. n : w[k] = w[k - 1] \o wires[k]
    BY <1>3, <1>7, Zenon DEF Flattens
  <2> QED
    BY <1>3, <2>1, <2>2, <2>3
(* Behind the k-th label it is the one in progress.                        *)
<1> DEFINE At_k(k) == g[Len(f[k])] = [name |-> w[k - 1], label |-> labels[k]]
           S == {k \in 0 .. n : k # 0 => At_k(k)}
(* A label in progress is closed behind its length.                        *)
<1>11. ASSUME NEW k \in 1 .. n
       PROVE  Closed([name |-> w[k - 1], label |-> labels[k]]) = w[k]
  <2> DEFINE a == w[k - 1]
             b == labels[k]
             c == <<Len(b)>>
  <2>1. b \in Seq(Byte) /\ Len(b) \in Nat /\ Len(b) < 64
    BY LabelIs DEF n
  <2>2. a \in Seq(Byte)
    <3>1. k - 1 \in 0 .. n
      BY <1>1
    <3> QED
      BY <1>10, <3>1
  <2> HIDE DEF a, b
  <2>3. Len(b) % 256 = Len(b)
    BY <2>1
  <2>4. Closed([name |-> a, label |-> b]) = (a \o c) \o b
    BY <2>3 DEF Closed
  <2>5. WireLabel(b) = c \o b
    BY DEF WireLabel
  <2>6. c \in Seq(Byte)
    BY <2>1, <2>3, LengthByte
  <2> HIDE DEF c
  <2>7. (a \o c) \o b = a \o (c \o b)
    BY <2>1, <2>2, <2>6, ConcatAssociative
  <2>8. w[k] = a \o WireLabel(b)
    BY <1>10, Zenon DEF a, b
  <2> QED
    BY <2>4, <2>5, <2>7, <2>8 DEF a, b
<1>12. ASSUME NEW k \in 1 .. n, k - 1 \in S PROVE k \in S
  <2> DEFINE p == Len(f[k - 1])
             a == labels[k]
  <2>1. /\ Len(f[k]) = p + Len(Piece(labels, k)) /\ p \in Nat
        /\ Placed(Piece(labels, k), p, text)
    BY <1>9
  <2>2. a \in Seq(Char) /\ a \in Seq(Byte) /\ Len(a) \in Nat
    BY LabelIs DEF n
  <2> HIDE DEF p, a
  <2>3. CASE k = 1
    <3>1. Piece(labels, k) = a
      <4>1. Piece(labels, k) = <<>> \o a
        BY <2>3 DEF Piece, a
      <4> QED
        BY <2>2, <4>1, ConcatEmptySeq
    <3>2. p = 0
      <4>1. k - 1 = 0
        BY <2>3
      <4> QED
        BY <1>9, <4>1 DEF p
    <3>3. g[p] = [name |-> <<>>, label |-> <<>>]
      BY <1>8, <3>2 DEF Reads
    <3>4. g[p + Len(a)] = [name |-> <<>>, label |-> a]
      BY <1>5, <1>8, <2>1, <2>2, <3>1, <3>3, LabelRead
    <3>5. w[k - 1] = <<>>
      <4>1. k - 1 = 0
        BY <2>3
      <4> QED
        BY <1>10, <4>1
    <3>6. At_k(k)
      BY <2>1, <3>1, <3>4, <3>5 DEF a
    <3> QED
      BY <1>1, <3>6
  <2>4. CASE k # 1
    <3> DEFINE m == k - 1
    <3>1. m \in 1 .. n /\ m # 0
      BY <1>1, <2>4
    <3>2. g[p] = [name |-> w[m - 1], label |-> labels[m]]
      BY <1>12, <3>1 DEF p
    <3>3. Closed(g[p]) = w[m]
      <4> HIDE DEF m
      <4> QED
        BY <1>11, <3>1, <3>2
    <3>4. Piece(labels, k) = <<Dot>> \o a
      BY <2>4 DEF Piece, a
    <3>5. Placed(<<Dot>>, p, text) /\ Placed(a, p + Len(<<Dot>>), text)
      <4>1. <<Dot>> \in Seq(Byte)
        BY Chars
      <4> DEFINE d == <<Dot>>
      <4> HIDE DEF d
      <4> QED
        BY <1>5, <2>1, <2>2, <3>4, <4>1, PlacedPieces DEF d
    <3>6. p + 1 <= Len(text) /\ text[p + 1] = Dot
      BY <3>5 DEF Placed
    <3>7. Placed(a, p + 1, text)
      BY <3>5
    <3>8. Len(Piece(labels, k)) = Len(a) + 1
      <4>1. <<Dot>> \in Seq(Byte) /\ Len(<<Dot>>) = 1
        BY Chars
      <4>2. Len(<<Dot>> \o a) = Len(<<Dot>>) + Len(a)
        BY <2>2, <4>1, ConcatProperties
      <4> QED
        BY <2>2, <3>4, <4>1, <4>2
    <3>9. g[p + 1] = [name |-> w[m], label |-> <<>>]
      <4>1. p + 1 \in 1 .. Len(text) /\ (p + 1) - 1 = p
        BY <1>5, <2>1, <3>6
      <4>2. g[p + 1] = ReadChar(g[p], Dot)
        BY <1>8, <3>6, <4>1 DEF Reads
      <4> QED
        BY <3>3, <4>2 DEF ReadChar
    <3>10. p + 1 \in Nat
      BY <2>1
    <3>11. g[(p + 1) + Len(a)] = [name |-> w[m], label |-> a]
      <4> DEFINE v == w[m]
      <4>1. g[p + 1] = [name |-> v, label |-> <<>>]
        BY <3>9
      <4> HIDE DEF v, m
      <4>2. g[(p + 1) + Len(a)] = [name |-> v, label |-> a]
        BY <1>5, <1>8, <2>2, <3>7, <3>10, <4>1, LabelRead
      <4> QED
        BY <4>2 DEF v
    <3>12. (p + 1) + Len(a) = Len(f[k])
      BY <2>1, <2>2, <3>8
    <3>13. At_k(k)
      BY <3>11, <3>12 DEF a
    <3> QED
      BY <1>1, <3>13
  <2> QED
    BY <2>3, <2>4
<1>13. n \in S
  <2>1. 0 \in S
    BY <1>1
  <2>2. 0 .. n \subseteq S
    <3> HIDE DEF S
    <3> QED
      BY <1>1, <1>12, <2>1, UpTo
  <2> QED
    BY <1>1, <2>2
<1>14. g[Len(text)] = [name |-> w[n - 1], label |-> labels[n]]
  BY <1>1, <1>9, <1>13
<1>15. Closed(g[Len(text)]) = w[n]
  <2>1. n \in 1 .. n
    BY <1>1
  <2> QED
    BY <1>11, <1>14, <2>1
<1>16. Qname(text) = Closed(g[Len(text)]) \o <<0>>
  BY <1>8 DEF Reads
<1> QED
  BY <1>4, <1>10, <1>15, <1>16 DEF text

-----------------------------------------------------------------------------
(* The queries dns_query sends.                                            *)

LEMMA DrawIs ==
  ASSUME NEW d \in Draws
  PROVE  IsName(d.host) /\ d.ipid \in Nat /\ d.port \in Nat /\ d.id \in Nat
<1>1. d.host \in Names /\ {d.ipid, d.port, d.id} \subseteq Short
  BY PacketsAssumption
<1>2. d.ipid \in Short /\ d.port \in Short /\ d.id \in Short
  BY <1>1
<1> QED
  BY <1>1, <1>2, NamesAre, ShortIs

LEMMA MessageType ==
  ASSUME NEW hostname \in Seq(Byte), NEW id \in Nat
  PROVE  DnsMessage(hostname, id) \in Seq(Byte)
<1> DEFINE a == Htons(id) \o Htons(256)
           b == a \o Htons(1)
           c == b \o Zeros(6)
           d == c \o Qname(hostname)
           e == d \o <<0, 1, 0, 1>>
<1>1. \A n \in Nat : Htons(n) \in Seq(Byte)
  BY HtonsType
<1>2. Zeros(6) \in Seq(Byte)
  <2>1. Zeros(6) = <<0, 0, 0, 0, 0, 0>>
    BY DEF Zeros
  <2>2. 0 \in Byte
    BY IsByte
  <2>3. <<0, 0, 0, 0, 0, 0>> \in Seq(Byte)
    BY <2>2
  <2> QED
    BY <2>1, <2>3, Zenon
<1>3. <<0, 1, 0, 1>> \in Seq(Byte)
  <2>1. 0 \in Byte /\ 1 \in Byte
    BY IsByte
  <2> QED
    BY <2>1
<1>4. Qname(hostname) \in Seq(Byte)
  BY QnameType
<1>5. a \in Seq(Byte)
  BY <1>1, ConcatProperties
<1>6. b \in Seq(Byte)
  <2> HIDE DEF a
  <2> QED
    BY <1>1, <1>5, ConcatProperties
<1>7. c \in Seq(Byte)
  <2> HIDE DEF b
  <2> QED
    BY <1>2, <1>6, ConcatProperties
<1>8. d \in Seq(Byte)
  <2> HIDE DEF c
  <2> QED
    BY <1>4, <1>7, ConcatProperties
<1>9. e \in Seq(Byte)
  <2> HIDE DEF d
  <2> QED
    BY <1>3, <1>8, ConcatProperties
<1> QED
  BY <1>9 DEF DnsMessage

LEMMA IpVerifies ==
  ASSUME NEW id \in Nat, NEW len \in Nat
  PROVE  Verifies(IpHeader(id, Store(Checksum(IpHeader(id, Zeros(2), len))), len))
<1> DEFINE data == IpHeader(id, Zeros(2), len)
           c == Checksum(data)
           whole == IpHeader(id, Store(c), len)
<1>1. data \in Seq(Byte)
  BY EvenZeros, IpHeaderSum
<1>2. c \in Nat /\ c < 65536
  <2> HIDE DEF data
  <2> QED
    BY <1>1, ChecksumType
<1>3. Even(Store(c)) /\ Sum(Store(c)) = c
  <2> HIDE DEF c
  <2>1. Store(c) \in Seq(Byte) /\ Len(Store(c)) = 2 /\ Sum(Store(c)) = c
    BY <1>2, StoreIs
  <2> QED
    BY <2>1 DEF Even
<1>4. whole \in Seq(Byte) /\ Sum(whole) = Sum(data) + Sum(Store(c))
  <2> DEFINE s == Store(c)
  <2>1. Even(s)
    BY <1>3
  <2> HIDE DEF s
  <2>2. /\ IpHeader(id, s, len) \in Seq(Byte)
        /\ Sum(IpHeader(id, s, len)) = Sum(IpHeader(id, Zeros(2), len)) + Sum(s)
    BY <2>1, IpHeaderSum
  <2> QED
    BY <2>2 DEF s
<1>5. Completes(c, data)
  BY <1>2 DEF Completes
<1>6. Verifies(whole)
  <2> HIDE DEF data, c, whole
  <2>1. Sum(whole) = Sum(data) + c
    BY <1>3, <1>4
  <2> QED
    BY <1>1, <1>4, <1>5, <2>1, SummedVerifies
<1> QED
  BY <1>6

(* The UDP checksum as dns_query leaves it.                                *)
LEMMA UdpVerifies ==
  ASSUME NEW port \in Nat, NEW payload \in Seq(Byte)
  PROVE  LET empty == UdpDatagram(port, Zeros(2), payload)
             udp == UdpDatagram(port, Store(UdpCheck(empty)), payload)
         IN  /\ Len(udp) = 8 + Len(payload) /\ Len(empty) = Len(udp)
             /\ udp \in Seq(Byte)
             /\ udp[7] # 0 \/ udp[8] # 0
             /\ Verifies(Pseudo(Len(udp)) \o udp)
<1> DEFINE empty == UdpDatagram(port, Zeros(2), payload)
           check == UdpCheck(empty)
           udp == UdpDatagram(port, Store(check), payload)
           n == 8 + Len(payload)
           data == Pseudo(n) \o empty
           whole == Pseudo(n) \o udp
<1>1. n \in Nat
  OBVIOUS
<1>2. empty \in Seq(Byte) /\ Len(empty) = n /\ data \in Seq(Byte)
  <2> HIDE DEF n
  <2>1. /\ empty \in Seq(Byte) /\ Len(empty) = 6 + Len(Zeros(2)) + Len(payload)
        /\ data \in Seq(Byte)
    BY <1>1, EvenZeros, UdpSum DEF UdpSums
  <2>2. Len(Zeros(2)) = 2
    BY NoCheck
  <2>3. 6 + 2 + Len(payload) = n
    BY DEF n
  <2> HIDE DEF empty
  <2> QED
    BY <2>1, <2>2, <2>3
<1>3. PseudoChecksum(MyIp, DnsIp, 17, empty) = Checksum(data)
  BY <1>2 DEF PseudoChecksum, Pseudo
<1>4. /\ check \in Nat /\ check < 65536 /\ check # 0
      /\ Completes(check, data)
  <2>1. Checksum(data) \in Nat /\ Checksum(data) < 65536
    <3> HIDE DEF data
    <3> QED
      BY <1>2, ChecksumType
  <2>2. check = IF Checksum(data) = 0 THEN 65535 ELSE Checksum(data)
    BY <1>3 DEF UdpCheck
  <2> DEFINE c == Checksum(data)
  <2> HIDE DEF check, c
  <2>3. c \in Nat /\ c < 65536 /\ check = IF c = 0 THEN 65535 ELSE c
    BY <2>1, <2>2 DEF c
  <2>4. /\ check \in Nat /\ check < 65536 /\ check # 0
        /\ check = c \/ (c = 0 /\ check = 65535)
    BY <2>3
  <2> QED
    BY <2>4 DEF c, Completes
<1> HIDE DEF check
<1> DEFINE s == Store(check)
<1>5. /\ s \in Seq(Byte) /\ Len(s) = 2 /\ Sum(s) = check
      /\ s[1] = check % 256 /\ s[2] = check \div 256
  BY <1>4, StoreIs
<1>6. s[1] # 0 \/ s[2] # 0
  BY <1>4, <1>5
<1> HIDE DEF s
<1>7. Even(s)
  BY <1>5 DEF Even
<1>8. udp = UdpDatagram(port, s, payload)
  BY DEF s
<1> HIDE DEF n
<1>9. /\ udp \in Seq(Byte) /\ Len(udp) = 6 + Len(s) + Len(payload)
      /\ whole \in Seq(Byte) /\ Sum(whole) = Sum(data) + Sum(s)
      /\ \A i \in 1 .. Len(s) : udp[6 + i] = s[i]
  <2> DEFINE u == UdpDatagram(port, s, payload)
  <2>a. UdpSums(port, s, payload, n)
    BY <1>1, <1>7, UdpSum
  <2>1. /\ u \in Seq(Byte) /\ Len(u) = 6 + Len(s) + Len(payload)
        /\ Pseudo(n) \o u \in Seq(Byte)
        /\ Sum(Pseudo(n) \o u) = Sum(Pseudo(n) \o empty) + Sum(s)
        /\ \A i \in 1 .. Len(s) : u[6 + i] = s[i]
    BY <2>a DEF UdpSums
  <2>2. udp = u
    BY <1>8
  <2> HIDE DEF u, udp, empty
  <2> QED
    BY <2>1, <2>2
<1> HIDE DEF empty, udp, data, whole
<1>10. Verifies(whole)
  BY <1>2, <1>4, <1>5, <1>9, SummedVerifies
<1>11. Len(udp) = n
  BY <1>5, <1>9 DEF n
<1>12. udp[7] = s[1] /\ udp[8] = s[2]
  <2>1. udp[6 + 1] = s[1] /\ udp[6 + 2] = s[2]
    BY <1>5, <1>9
  <2> QED
    BY <2>1
<1>13. Verifies(Pseudo(Len(udp)) \o udp)
  BY <1>10, <1>11 DEF whole
<1>14. Len(udp) = 8 + Len(payload)
  BY <1>11 DEF n
<1>15. Len(empty) = Len(udp)
  BY <1>2, <1>11
<1>16. udp[7] # 0 \/ udp[8] # 0
  BY <1>6, <1>12
<1> QED
  BY <1>9, <1>13, <1>14, <1>15, <1>16 DEF udp, empty, check

Asked == stage \in {"asked", "answered", "resolved"}

QueryInv == Asked => \E d \in Draws : query = Query(d)

LEMMA QueryInvariant == Spec => []QueryInv
<1>1. Init => QueryInv
  BY DEF Init, QueryInv, Asked
<1>2. QueryInv /\ [Next]_vars => QueryInv'
  <2> SUFFICES ASSUME QueryInv, [Next]_vars PROVE QueryInv'
    OBVIOUS
  <2>1. CASE DnsQuery
    BY <2>1 DEF DnsQuery, QueryInv
  <2>2. CASE DnsServer
    BY <2>2 DEF DnsServer, QueryInv, Asked
  <2>3. CASE HandleDns
    BY <2>3 DEF HandleDns, QueryInv, Asked
  <2>4. CASE DhcpServer
    BY <2>4 DEF DhcpServer, QueryInv, Asked
  <2>5. CASE ScanOptions
    BY <2>5 DEF ScanOptions, QueryInv, Asked
  <2>6. CASE UNCHANGED vars
    BY <2>6 DEF vars, QueryInv, Asked
  <2> QED
    BY <2>1, <2>2, <2>3, <2>4, <2>5, <2>6 DEF Next
<1> QED
  BY <1>1, <1>2, PTL DEF Spec

LEMMA QueryVerifies == QueryInv => DatagramVerifies
<1> SUFFICES ASSUME Asked, NEW d \in Draws, query = Query(d)
             PROVE  /\ Verifies(query.ip)
                    /\ SubSeq(query.udp, 7, 8) # <<0, 0>>
                    /\ Verifies(MyIp \o DnsIp \o <<0, 17>> \o Htons(Len(query.udp))
                                  \o query.udp)
  BY DEF QueryInv, DatagramVerifies, Asked
<1> DEFINE payload == DnsMessage(Text(d.host), d.id)
           empty == UdpDatagram(d.port, Zeros(2), payload)
           udp == UdpDatagram(d.port, Store(UdpCheck(empty)), payload)
           len == Len(empty)
           ip == IpHeader(d.ipid, Store(Checksum(IpHeader(d.ipid, Zeros(2), len))), len)
<1>1. query.udp = udp /\ query.ip = ip
  BY DEF Query
<1>2. d.port \in Nat /\ d.ipid \in Nat /\ payload \in Seq(Byte)
  BY DrawIs, TextType, MessageType
<1> HIDE DEF payload
<1>3. /\ udp \in Seq(Byte) /\ Len(udp) = 8 + Len(payload) /\ len = Len(udp)
      /\ udp[7] # 0 \/ udp[8] # 0
      /\ Verifies(Pseudo(Len(udp)) \o udp)
  BY <1>2, UdpVerifies
<1>4. Verifies(ip)
  <2> HIDE DEF empty
  <2>1. len \in Nat
    <3> HIDE DEF len, udp
    <3> QED
      BY <1>2, <1>3
  <2> HIDE DEF len
  <2> QED
    BY <1>2, <2>1, IpVerifies
<1> HIDE DEF udp
<1>5. SubSeq(udp, 7, 8)[1] = udp[7] /\ SubSeq(udp, 7, 8)[2] = udp[8]
  <2>1. Len(udp) >= 8
    BY <1>2, <1>3
  <2> QED
    BY <1>3, <2>1
<1>6. SubSeq(udp, 7, 8) # <<0, 0>>
  <2> DEFINE v == SubSeq(udp, 7, 8)
  <2>1. v[1] # 0 \/ v[2] # 0
    BY <1>3, <1>5
  <2> HIDE DEF v
  <2>2. v # <<0, 0>>
    BY <2>1
  <2> QED
    BY <2>2 DEF v
<1> QED
  BY <1>1, <1>3, <1>4, <1>6 DEF Pseudo

(* Every query passes the checks of a receiver, for hostnames of any form  *)
(* and length, any addresses, ports and IDs: summing little-endian words,  *)
(* folding carries as they come and storing without htons (net_math.hpp)   *)
(* gives the checksum of RFC 1071, at odd lengths too, and zero is         *)
(* replaced (protocols.hpp:198).                                           *)
THEOREM DatagramsVerify == Spec => []DatagramVerifies
BY QueryInvariant, QueryVerifies, PTL

-----------------------------------------------------------------------------
(* Walks.                                                                  *)

(* Functions on the naturals that follow next until a place of stop is     *)
(* reached, and compute on the way back.                                   *)
Walks(g, V, stop, base, next, step) ==
  /\ g \in [Nat -> V]
  /\ \A q \in Nat : g[q] = IF q \in stop THEN base[q] ELSE step[q][g[next[q]]]

LEMMA Walk ==
  ASSUME NEW max \in Nat, NEW V, NEW stop, NEW base \in [Nat -> V],
         NEW next \in [Nat -> Nat], NEW step \in [Nat -> [V -> V]],
         \A q \in Nat : q \notin stop => q < next[q] /\ q < max
  PROVE  \E g : Walks(g, V, stop, base, next, step)
<1> DEFINE Here(g, q) == g[q] = IF q \in stop THEN base[q] ELSE step[q][g[next[q]]]
           Good(g, m) == /\ g \in [Nat -> V]
                         /\ \A q \in Nat : q + m >= max => Here(g, q)
           S == {m \in 0 .. max : \E g : Good(g, m)}
<1>1. 0 \in S
  <2>1. ASSUME NEW q \in Nat, q + 0 >= max PROVE Here(base, q)
    BY <2>1
  <2>2. Good(base, 0)
    BY <2>1
  <2> QED
    BY <2>2
<1>2. ASSUME NEW m \in 1 .. max, m - 1 \in S PROVE m \in S
  <2>1. PICK g : Good(g, m - 1)
    BY <1>2
  <2> DEFINE p == max - m
             v == IF p \in stop THEN base[p] ELSE step[p][g[next[p]]]
             h == [q \in Nat |-> IF q = p THEN v ELSE g[q]]
  <2>2. p \in Nat
    OBVIOUS
  <2>3. v \in V
    <3>1. g[next[p]] \in V /\ base[p] \in V
      BY <2>1, <2>2
    <3> QED
      BY <2>2, <3>1
  <2>4. h \in [Nat -> V]
    <3> HIDE DEF v, p
    <3> QED
      BY <2>1, <2>3
  <2>5. \A q \in Nat : q > p => h[q] = g[q]
    BY <2>2
  <2>6. h[p] = v
    BY <2>2
  <2>7. Here(h, p)
    <3>1. p \notin stop => h[next[p]] = g[next[p]]
      BY <2>2, <2>5
    <3> HIDE DEF h
    <3> QED
      BY <2>6, <3>1
  <2>8. ASSUME NEW q \in Nat, q > p PROVE Here(h, q)
    <3>1. Here(g, q)
      <4>1. q + (m - 1) >= max
        BY <2>8
      <4> QED
        BY <2>1, <4>1
    <3>2. h[q] = g[q]
      BY <2>5, <2>8
    <3>3. q \notin stop => h[next[q]] = g[next[q]]
      <4>1. q \notin stop => next[q] \in Nat /\ next[q] > p
        BY <2>2, <2>8
      <4> QED
        BY <2>5, <4>1
    <3> HIDE DEF h
    <3> QED
      BY <3>1, <3>2, <3>3
  <2>9. Good(h, m)
    <3>1. \A q \in Nat : q + m >= max => q = p \/ q > p
      BY <2>2
    <3> HIDE DEF h
    <3> QED
      BY <2>4, <2>7, <2>8, <3>1
  <2> HIDE DEF h, Good
  <2> QED
    BY <2>9
<1>3. max \in S
  <2> HIDE DEF S
  <2>1. 0 .. max \subseteq S
    BY <1>1, <1>2, UpTo
  <2> QED
    BY <2>1
<1>4. PICK g : Good(g, max)
  BY <1>3
<1>5. Walks(g, V, stop, base, next, step)
  BY <1>4 DEF Walks
<1> QED
  BY <1>5

(* A sequence of n bytes.                                                  *)
Sized(s, n) == s \in Seq(Byte) /\ Len(s) = n

LEMMA SizedConcat ==
  ASSUME NEW a, NEW b, NEW m, NEW n, Sized(a, m), Sized(b, n)
  PROVE  Sized(a \o b, m + n)
<1>1. a \in Seq(Byte) /\ b \in Seq(Byte) /\ Len(a) = m /\ Len(b) = n
  BY DEF Sized
<1>2. a \o b \in Seq(Byte) /\ Len(a \o b) = Len(a) + Len(b)
  BY <1>1, ConcatProperties
<1> QED
  BY <1>1, <1>2 DEF Sized

LEMMA SizedHtons == \A n \in Nat : Sized(Htons(n), 2)
BY HtonsType DEF Sized

LEMMA SizedZeros == ASSUME NEW n \in Nat PROVE Sized(Zeros(n), n)
<1> DEFINE z == Zeros(n)
<1>1. z \in [1 .. n -> Byte]
  <2>1. 0 \in Byte
    BY IsByte
  <2> QED
    BY <2>1 DEF Zeros
<1>2. z \in Seq(Byte) /\ Len(z) = n
  <2> HIDE DEF z
  <2> QED
    BY <1>1
<1> QED
  BY <1>2 DEF Sized

LEMMA PlacedSubSeq ==
  ASSUME NEW d \in Seq(Byte), NEW whole \in Seq(Byte), NEW off \in Nat,
         Placed(d, off, whole)
  PROVE  SubSeq(whole, off + 1, off + Len(d)) = d
<1> DEFINE s == SubSeq(whole, off + 1, off + Len(d))
<1>1. Len(d) \in Nat /\ off + Len(d) <= Len(whole)
  BY DEF Placed
<1>2. /\ s \in Seq(Byte) /\ Len(s) = Len(d)
      /\ \A j \in 1 .. Len(d) : s[j] = whole[off + j]
  <2>1. off + 1 \in Nat /\ off + Len(d) \in Nat
    BY <1>1
  <2>2. s \in Seq(Byte)
    BY <1>1, <2>1
  <2>3. Len(s) = Len(d)
    BY <1>1
  <2>4. ASSUME NEW j \in 1 .. Len(d) PROVE s[j] = whole[off + j]
    BY <1>1
  <2> QED
    BY <2>2, <2>3, <2>4
<1> HIDE DEF s
<1>3. \A j \in 1 .. Len(d) : s[j] = d[j]
  BY <1>2 DEF Placed
<1>4. s = d
  BY <1>2, <1>3, SeqEqual
<1> QED
  BY <1>4 DEF s

(* The bytes handle_udp and init_network read.                             *)
LEMMA AtPlaced ==
  ASSUME NEW d \in Seq(Byte), NEW off \in Nat, rx_pkt \in Seq(Byte),
         Placed(d, off, rx_pkt), NEW j \in Nat, j < Len(d)
  PROVE  At(off + j) = d[j + 1]
<1>1. j + 1 \in 1 .. Len(d) /\ off + (j + 1) = (off + j) + 1
  OBVIOUS
<1>2. off + j < Len(rx_pkt)
  BY DEF Placed
<1>3. rx_pkt[off + (j + 1)] = d[j + 1]
  BY <1>1 DEF Placed
<1> QED
  BY <1>1, <1>2, <1>3 DEF At

LEMMA AtStart ==
  ASSUME NEW d \in Seq(Byte), NEW off \in Nat, rx_pkt \in Seq(Byte),
         Placed(d, off, rx_pkt), 0 < Len(d)
  PROVE  At(off) = d[1]
<1>1. 0 \in Nat /\ off + 0 = off /\ 0 + 1 = 1
  OBVIOUS
<1>2. At(off + 0) = d[0 + 1]
  BY <1>1, AtPlaced
<1> QED
  BY <1>1, <1>2

LEMMA AtType == rx_pkt \in Seq(Byte) => \A p \in Nat : At(p) \in Byte
<1> SUFFICES ASSUME rx_pkt \in Seq(Byte), NEW p \in Nat PROVE At(p) \in Byte
  OBVIOUS
<1>1. CASE p < Len(rx_pkt)
  <2>1. p + 1 \in 1 .. Len(rx_pkt)
    BY <1>1
  <2>2. rx_pkt[p + 1] \in Byte
    BY <2>1, ElementOfSeq
  <2> QED
    BY <1>1, <2>2 DEF At
<1>2. CASE ~ (p < Len(rx_pkt))
  BY <1>2, IsByte DEF At
<1> QED
  BY <1>1, <1>2

LEMMA NtohsIs ==
  ASSUME NEW n \in Short, NEW off \in Nat, rx_pkt \in Seq(Byte),
         Placed(Htons(n), off, rx_pkt)
  PROVE  Ntohs(off) = n
<1>1. n \in Nat /\ n < 65536
  BY ShortIs
<1> DEFINE h == Htons(n)
<1>2. h \in Seq(Byte) /\ Len(h) = 2
  BY <1>1, HtonsType
<1>3. h[1] = (n \div 256) % 256 /\ h[2] = n % 256
  BY DEF Htons
<1> HIDE DEF h
<1>4. Placed(h, off, rx_pkt)
  BY DEF h
<1>5. At(off + 0) = h[0 + 1] /\ At(off + 1) = h[1 + 1]
  BY <1>2, <1>4, AtPlaced
<1>6. At(off) = h[1] /\ At(off + 1) = h[2]
  BY <1>5
<1>7. 256 * ((n \div 256) % 256) + (n % 256) = n
  BY <1>1
<1> QED
  BY <1>3, <1>6, <1>7 DEF Ntohs

-----------------------------------------------------------------------------
(* The walk over a name.                                                   *)

Ends(e, p) ==
  /\ e[p] = EndOfLabels(p)
  /\ \A q \in Nat : e[q] = IF At(q) = 0 THEN q ELSE e[q + At(q) + 1]

LEMMA EndOfLabelsIs ==
  ASSUME rx_pkt \in Seq(Byte), NEW p
  PROVE  \E e : Ends(e, p)
<1> DEFINE F(e) == e = [q \in Nat |-> IF At(q) = 0 THEN q ELSE e[q + At(q) + 1]]
           end == CHOOSE e : F(e)
           stop == {q \in Nat : At(q) = 0}
           base == [q \in Nat |-> q]
           next == [q \in Nat |-> q + At(q) + 1]
           step == [q \in Nat |-> base]
           max == Len(rx_pkt)
<1>1. \A q \in Nat : At(q) \in Nat
  BY AtType, BytesAreNaturals
<1>2. max \in Nat /\ base \in [Nat -> Nat] /\ step \in [Nat -> [Nat -> Nat]]
  OBVIOUS
<1>3. next \in [Nat -> Nat]
  BY <1>1
<1>4. ASSUME NEW q \in Nat, q \notin stop PROVE q < next[q] /\ q < max
  <2>1. q < max
    BY <1>2, <1>4 DEF At
  <2> QED
    BY <1>1, <2>1
<1>5. PICK g : Walks(g, Nat, stop, base, next, step)
  <2> HIDE DEF max, base, next, step, stop
  <2> QED
    BY <1>2, <1>3, <1>4, Walk
<1>6. \A q \in Nat : g[q] = IF At(q) = 0 THEN q ELSE g[q + At(q) + 1]
  <2> SUFFICES ASSUME NEW q \in Nat
               PROVE  g[q] = IF At(q) = 0 THEN q ELSE g[q + At(q) + 1]
    OBVIOUS
  <2>1. g[q] = IF q \in stop THEN base[q] ELSE step[q][g[next[q]]]
    BY <1>5, Zenon DEF Walks
  <2>2. g[next[q]] \in Nat /\ next[q] = q + At(q) + 1
    BY <1>3, <1>5 DEF Walks
  <2>3. step[q][g[next[q]]] = g[next[q]]
    <3> HIDE DEF next
    <3> QED
      BY <2>2
  <2>4. q \in stop <=> At(q) = 0
    OBVIOUS
  <2>5. base[q] = q
    OBVIOUS
  <2> HIDE DEF stop, base, step, next
  <2> QED
    BY <2>1, <2>2, <2>3, <2>4, <2>5
<1>7. F(g)
  <2>1. g = [q \in Nat |-> g[q]]
    BY <1>5 DEF Walks
  <2> QED
    BY <1>6, <2>1
<1>8. F(end)
  <2> HIDE DEF F
  <2> QED
    BY <1>7
<1>9. \A q \in Nat : end[q] = IF At(q) = 0 THEN q ELSE end[q + At(q) + 1]
  <2> HIDE DEF end
  <2> QED
    BY <1>8
<1>10. EndOfLabels(p) = end[p]
  BY DEF EndOfLabels
<1> HIDE DEF end
<1> QED
  BY <1>9, <1>10 DEF Ends

LEMMA WireNameType ==
  ASSUME NEW labels, IsName(labels)
  PROVE  WireName(labels) \in Seq(Byte)
<1>1. Text(labels) \in Seq(Byte)
  BY TextType
<1>2. Qname(Text(labels)) \in Seq(Byte)
  BY <1>1, QnameType
<1> QED
  BY <1>2, QnameIsWireName

(* Where a name is written, the walk ends at its last byte.                *)
LEMMA NameEnds ==
  ASSUME rx_pkt \in Seq(Byte), NEW labels, IsName(labels), NEW p \in Nat,
         Placed(WireName(labels), p, rx_pkt)
  PROVE  /\ EndOfLabels(p) = p + Len(WireName(labels)) - 1
         /\ At(p) < 64
<1> DEFINE n == Len(labels)
           wires == [i \in DOMAIN labels |-> WireLabel(labels[i])]
           flat == FlattenSeq(wires)
           zero == <<0>>
<1>1. n \in Nat /\ n > 0
  BY DEF IsName
<1>2. /\ wires \in Seq(Seq(Byte)) /\ Len(wires) = n
      /\ \A i \in 1 .. n : wires[i] = WireLabel(labels[i])
  BY WirePiecesType
<1>3. WireName(labels) = flat \o zero
  BY DEF WireName, WireLabels
<1> HIDE DEF wires
<1>4. flat \in Seq(Byte)
  BY <1>2, FlattenType
<1>5. zero \in Seq(Byte) /\ Len(zero) = 1 /\ zero[1] = 0 /\ 0 < Len(zero)
  BY IsByte
<1>6. PICK w : Flattens(w, wires, Byte)
  BY <1>2, FlattenIs
<1>7. w[0] = <<>> /\ flat = w[n]
  BY <1>2, <1>6 DEF Flattens
<1> HIDE DEF flat, zero, n
<1>8. Placed(flat, p, rx_pkt) /\ Placed(zero, p + Len(flat), rx_pkt)
  BY <1>3, <1>4, <1>5, PlacedPieces
<1>9. Len(flat) \in Nat /\ Len(WireName(labels)) = Len(flat) + 1
  <2>1. Len(flat \o zero) = Len(flat) + Len(zero)
    BY <1>4, <1>5, ConcatProperties
  <2> QED
    BY <1>3, <1>4, <1>5, <2>1
<1>10. At(p + Len(flat)) = 0
  <2> DEFINE o == p + Len(flat)
  <2>1. o \in Nat
    BY <1>9
  <2> HIDE DEF o
  <2>2. Placed(zero, o, rx_pkt)
    BY <1>8 DEF o
  <2>3. At(o) = zero[1]
    BY <1>5, <2>1, <2>2, AtStart
  <2> QED
    BY <1>5, <2>3 DEF o
<1>11. ASSUME NEW k \in 1 .. n
       PROVE  LET o == p + Len(w[k - 1])
              IN  /\ o \in Nat /\ At(o) # 0 /\ At(o) < 64
                  /\ o + At(o) + 1 = p + Len(w[k])
  <2> DEFINE o == p + Len(w[k - 1])
             m == Len(labels[k])
             s == WireLabel(labels[k])
  <2>1. k \in 1 .. Len(labels) /\ k \in 1 .. Len(wires)
    BY <1>2 DEF n
  <2>2. /\ s \in Seq(Byte) /\ Len(s) = m + 1 /\ s[1] = m
        /\ m \in Nat /\ m < 64 /\ m # 0
    BY <2>1, LabelIs
  <2>3. /\ Len(w[k]) = Len(w[k - 1]) + Len(wires[k])
        /\ Len(w[k - 1]) \in Nat
        /\ Placed(wires[k], p + Len(w[k - 1]), rx_pkt)
    BY <1>2, <1>6, <1>8, <2>1, FlattenPlaces DEF flat
  <2>4. wires[k] = s
    BY <1>2
  <2>5. o \in Nat
    BY <2>3
  <2>6. Placed(s, o, rx_pkt)
    BY <2>3, <2>4
  <2> HIDE DEF s, m
  <2>7. Len(w[k]) = Len(w[k - 1]) + (m + 1)
    BY <2>2, <2>3, <2>4
  <2>8. At(o) = s[1]
    <3>1. 0 < Len(s)
      BY <2>2
    <3> HIDE DEF o
    <3> QED
      BY <2>2, <2>5, <2>6, <3>1, AtStart
  <2>9. At(o) = m
    BY <2>2, <2>8
  <2>10. o + m + 1 = p + Len(w[k])
    <3> DEFINE l == Len(w[k - 1])
    <3>1. l \in Nat /\ o = p + l
      BY <2>3
    <3>2. Len(w[k]) = l + (m + 1)
      BY <2>7
    <3> HIDE DEF l, o
    <3> QED
      BY <2>2, <3>1, <3>2
  <2> QED
    BY <2>2, <2>5, <2>9, <2>10
<1>12. PICK e : Ends(e, p)
  BY EndOfLabelsIs
<1> DEFINE S == {i \in 0 .. n : e[p + Len(w[n - i])] = p + Len(flat)}
<1>13. 0 \in S
  <2> DEFINE o == p + Len(flat)
  <2>1. o \in Nat
    BY <1>9
  <2>2. e[o] = o
    BY <1>10, <1>12, <2>1 DEF Ends
  <2>3. n - 0 = n
    BY <1>1
  <2> QED
    BY <1>1, <1>7, <2>2, <2>3
<1>14. ASSUME NEW i \in 1 .. n, i - 1 \in S PROVE i \in S
  <2> DEFINE k == n - i + 1
             o == p + Len(w[k - 1])
  <2>1. k \in 1 .. n /\ k - 1 = n - i /\ n - (i - 1) = k
    BY <1>1
  <2>2. /\ o \in Nat /\ At(o) # 0
        /\ o + At(o) + 1 = p + Len(w[k])
    <3> HIDE DEF k
    <3> QED
      BY <1>11, <2>1
  <2>3. e[o] = e[o + At(o) + 1]
    <3> HIDE DEF o
    <3> QED
      BY <1>12, <2>2 DEF Ends
  <2>4. e[p + Len(w[k])] = p + Len(flat)
    BY <1>14, <2>1
  <2>5. e[o] = p + Len(flat)
    BY <2>2, <2>3, <2>4
  <2>6. e[p + Len(w[n - i])] = p + Len(flat)
    BY <2>1, <2>5
  <2> QED
    BY <1>1, <2>6
<1>15. e[p] = p + Len(flat)
  <2>1. 0 .. n \subseteq S
    <3> HIDE DEF S
    <3> QED
      BY <1>1, <1>13, <1>14, UpTo
  <2>2. e[p + Len(w[n - n])] = p + Len(flat)
    BY <1>1, <2>1
  <2>3. n - n = 0 /\ Len(w[0]) = 0
    BY <1>1, <1>7
  <2>4. p + Len(w[n - n]) = p
    BY <2>3
  <2> QED
    BY <2>2, <2>4
<1>16. At(p) < 64
  <2>1. 1 \in 1 .. n /\ 1 - 1 = 0
    BY <1>1
  <2>2. At(p + Len(w[1 - 1])) < 64
    BY <1>11, <2>1
  <2>3. p + Len(w[1 - 1]) = p
    BY <1>7, <2>1
  <2> QED
    BY <2>2, <2>3
<1> QED
  BY <1>9, <1>12, <1>15, <1>16 DEF Ends

-----------------------------------------------------------------------------
(* The walk over the records.                                              *)

LEMMA PlacedSized ==
  ASSUME NEW a, NEW b, NEW m, NEW n, Sized(a, m), Sized(b, n),
         NEW off \in Nat, NEW whole \in Seq(Byte), Placed(a \o b, off, whole)
  PROVE  Placed(a, off, whole) /\ Placed(b, off + m, whole)
<1>1. a \in Seq(Byte) /\ b \in Seq(Byte) /\ Len(a) = m
  BY DEF Sized
<1> QED
  BY <1>1, PlacedPieces

LEMMA NoLabels == WireLabels(<<>>) = <<>>
<1> DEFINE s == [i \in DOMAIN <<>> |-> WireLabel(<<>>[i])]
<1>1. s = <<>>
  OBVIOUS
<1>2. s \in Seq(Seq(Byte)) /\ Len(s) = 0
  BY <1>1
<1>3. WireLabels(<<>>) = FlattenSeq(s)
  BY DEF WireLabels
<1> HIDE DEF s
<1>4. PICK f : Flattens(f, s, Byte)
  BY <1>2, FlattenIs
<1> QED
  BY <1>2, <1>3, <1>4 DEF Flattens

LEMMA WireLabelsType ==
  ASSUME NEW labels, IsName(labels) \/ labels = <<>>
  PROVE  WireLabels(labels) \in Seq(Byte)
<1>1. CASE IsName(labels)
  <2> DEFINE s == [i \in DOMAIN labels |-> WireLabel(labels[i])]
  <2>1. s \in Seq(Seq(Byte))
    BY <1>1, WirePiecesType
  <2>2. FlattenSeq(s) \in Seq(Byte)
    <3> HIDE DEF s
    <3> QED
      BY <2>1, FlattenType
  <2> QED
    BY <2>2 DEF WireLabels
<1>2. CASE labels = <<>>
  <2>1. WireLabels(labels) = <<>>
    BY <1>2, NoLabels, Zenon
  <2> QED
    BY <2>1
<1> QED
  BY <1>1, <1>2

LEMMA OwnerType ==
  ASSUME NEW r, IsRecord(r)
  PROVE  WireOwner(r) \in Seq(Byte)
<1>1. WireLabels(r.labels) \in Seq(Byte)
  BY WireLabelsType DEF IsRecord
<1>2. <<0>> \in Seq(Byte)
  BY IsByte
<1>3. 49152 + r.pointer \in Nat
  BY ShortIs DEF IsRecord, Record
<1>4. Htons(49152 + r.pointer) \in Seq(Byte)
  BY <1>3, HtonsType
<1>5. /\ WireLabels(r.labels) \o <<0>> \in Seq(Byte)
      /\ WireLabels(r.labels) \o Htons(49152 + r.pointer) \in Seq(Byte)
  BY <1>1, <1>2, <1>4, ConcatProperties
<1> QED
  BY <1>5 DEF WireOwner, WireName

LEMMA RecordType ==
  ASSUME NEW r, IsRecord(r)
  PROVE  Sized(WireRecord(r), Len(WireOwner(r)) + 10 + Len(r.data))
<1> DEFINE a == WireOwner(r)
           b == a \o Htons(r.type)
           c == b \o Htons(1)
           d == c \o Zeros(4)
           e == d \o Htons(Len(r.data))
           f == e \o r.data
           n == Len(a)
           m == Len(r.data)
<1>1. r.type \in Nat /\ r.data \in Seq(Byte) /\ m \in Nat
  BY ShortIs DEF IsRecord, Record
<1>2. Sized(a, n) /\ n \in Nat
  BY OwnerType DEF Sized
<1>3. Sized(r.data, m)
  BY <1>1 DEF Sized
<1> HIDE DEF n, m
<1>4. Sized(b, n + 2)
  <2> HIDE DEF a
  <2> QED
    BY <1>1, <1>2, SizedHtons, SizedConcat
<1>5. Sized(c, n + 2 + 2)
  <2> HIDE DEF b
  <2>1. Sized(Htons(1), 2)
    BY SizedHtons
  <2> QED
    BY <1>4, <2>1, SizedConcat
<1>6. Sized(d, n + 2 + 2 + 4)
  <2> HIDE DEF c
  <2>1. Sized(Zeros(4), 4)
    BY SizedZeros
  <2> QED
    BY <1>5, <2>1, SizedConcat
<1>7. Sized(e, n + 2 + 2 + 4 + 2)
  <2> HIDE DEF d
  <2>1. Sized(Htons(Len(r.data)), 2)
    BY <1>1, SizedHtons DEF m
  <2> QED
    BY <1>6, <2>1, SizedConcat
<1>8. Sized(f, n + 2 + 2 + 4 + 2 + m)
  <2> HIDE DEF e
  <2> QED
    BY <1>3, <1>7, SizedConcat
<1>9. n + 2 + 2 + 4 + 2 + m = n + 10 + m
  BY <1>1, <1>2
<1>10. f = WireRecord(r)
  BY DEF WireRecord
<1> HIDE DEF f
<1> QED
  BY <1>8, <1>9, <1>10 DEF n, m

(* The fields of a record, behind its owner.                               *)
LEMMA RecordFields ==
  ASSUME rx_pkt \in Seq(Byte), NEW r, IsRecord(r),
         NEW o \in Nat, Placed(WireRecord(r), o, rx_pkt)
  PROVE  LET s == o + Len(WireOwner(r))
         IN  /\ s \in Nat
             /\ Placed(WireOwner(r), o, rx_pkt)
             /\ Placed(Htons(r.type), s, rx_pkt)
             /\ Placed(Htons(Len(r.data)), s + 8, rx_pkt)
             /\ Placed(r.data, s + 10, rx_pkt)
<1> DEFINE a == WireOwner(r)
           b == a \o Htons(r.type)
           c == b \o Htons(1)
           d == c \o Zeros(4)
           e == d \o Htons(Len(r.data))
           f == e \o r.data
           n == Len(a)
           m == Len(r.data)
<1>1. r.type \in Nat /\ r.data \in Seq(Byte) /\ m \in Nat
  BY ShortIs DEF IsRecord, Record
<1>2. Sized(a, n) /\ n \in Nat
  BY OwnerType DEF Sized
<1>3. Sized(r.data, m)
  BY <1>1 DEF Sized
<1>4. Sized(Htons(m), 2) /\ Sized(Htons(1), 2) /\ Sized(Htons(r.type), 2)
  BY <1>1, SizedHtons
<1>5. Sized(Zeros(4), 4)
  BY SizedZeros
<1>6. Placed(f, o, rx_pkt)
  BY DEF WireRecord
<1> HIDE DEF n
<1>7. Sized(b, n + 2)
  <2> HIDE DEF a, m
  <2> QED
    BY <1>2, <1>4, SizedConcat
<1>8. Sized(c, n + 2 + 2)
  <2> HIDE DEF b, m
  <2> QED
    BY <1>4, <1>7, SizedConcat
<1>9. Sized(d, n + 2 + 2 + 4)
  <2> HIDE DEF c
  <2> QED
    BY <1>5, <1>8, SizedConcat
<1>10. Sized(e, n + 2 + 2 + 4 + 2)
  <2> HIDE DEF d
  <2> QED
    BY <1>4, <1>9, SizedConcat DEF m
<1>11. Placed(e, o, rx_pkt) /\ Placed(r.data, o + (n + 2 + 2 + 4 + 2), rx_pkt)
  <2> HIDE DEF e, m
  <2> QED
    BY <1>3, <1>6, <1>10, PlacedSized
<1>12. Placed(d, o, rx_pkt) /\ Placed(Htons(m), o + (n + 2 + 2 + 4), rx_pkt)
  <2> HIDE DEF d
  <2> QED
    BY <1>4, <1>9, <1>11, PlacedSized DEF m
<1>13. Placed(c, o, rx_pkt)
  <2> HIDE DEF c
  <2> QED
    BY <1>5, <1>8, <1>12, PlacedSized
<1>14. Placed(b, o, rx_pkt)
  <2> HIDE DEF b, m
  <2> QED
    BY <1>4, <1>7, <1>13, PlacedSized
<1>15. Placed(a, o, rx_pkt) /\ Placed(Htons(r.type), o + n, rx_pkt)
  <2> HIDE DEF a, m
  <2> QED
    BY <1>2, <1>4, <1>14, PlacedSized
<1>16. /\ o + (n + 2 + 2 + 4) = (o + n) + 8
       /\ o + (n + 2 + 2 + 4 + 2) = (o + n) + 10 /\ o + n \in Nat
  BY <1>2
<1> QED
  BY <1>11, <1>12, <1>15, <1>16 DEF n

(* What handle_udp makes of a record: its type, its data and where the     *)
(* next one begins, its owner in full, or a bare pointer, or the root.     *)
LEMMA RecordRead ==
  ASSUME rx_pkt \in Seq(Byte), NEW r, IsRecord(r), Unmixed(r),
         NEW o \in Nat, Placed(WireRecord(r), o, rx_pkt)
  PROVE  /\ NextRecord(o) = o + Len(WireRecord(r))
         /\ IsAddress(o) <=> r.type = 1 /\ Len(r.data) = 4
         /\ Len(r.data) = 4 => Address(o) = r.data
<1> DEFINE a == WireOwner(r)
           n == Len(a)
           s == o + n
           m == Len(r.data)
<1>1. a \in Seq(Byte) /\ n \in Nat
  BY OwnerType
<1>2. /\ s \in Nat /\ Placed(a, o, rx_pkt)
      /\ Placed(Htons(r.type), s, rx_pkt)
      /\ Placed(Htons(m), s + 8, rx_pkt)
      /\ Placed(r.data, s + 10, rx_pkt)
  BY RecordFields
<1>3. r.type \in Short /\ r.data \in Seq(Byte) /\ m \in Nat
      /\ m \in Short
  BY DEF IsRecord, Record
<1>4. SkipOwner(o) = s
  <2>1. CASE r.pointer # 0
    <3> DEFINE v == 49152 + r.pointer
               ptr == Htons(v)
    <3>1. v \in Nat /\ v \div 256 < 256 /\ v \div 256 >= 192
      BY <2>1, ShortIs DEF IsRecord, Record
    <3>2. /\ ptr \in Seq(Byte) /\ Len(ptr) = 2 /\ 0 < Len(ptr)
          /\ ptr[1] = (v \div 256) % 256
      <4>1. ptr \in Seq(Byte) /\ Len(ptr) = 2
        <5> HIDE DEF v
        <5> QED
          BY <3>1, HtonsType
      <4>2. ptr[1] = (v \div 256) % 256
        BY DEF Htons
      <4> HIDE DEF ptr
      <4> QED
        BY <4>1, <4>2
    <3>3. a = ptr
      <4>1. WireLabels(r.labels) = <<>>
        <5>1. r.labels = <<>>
          BY <2>1 DEF Unmixed
        <5> QED
          BY <5>1, NoLabels, Zenon
      <4>2. a = <<>> \o ptr
        BY <2>1, <4>1 DEF WireOwner
      <4> HIDE DEF ptr
      <4> QED
        BY <3>2, <4>2
    <3> HIDE DEF ptr
    <3>4. At(o) = ptr[1]
      <4>1. Placed(ptr, o, rx_pkt)
        BY <1>2, <3>3
      <4> QED
        BY <3>2, <4>1, AtStart
    <3> HIDE DEF v
    <3>5. At(o) >= 192
      BY <3>1, <3>2, <3>4
    <3> QED
      BY <3>2, <3>3, <3>5 DEF SkipOwner
  <2>2. CASE r.pointer = 0 /\ IsName(r.labels)
    <3>1. a = WireName(r.labels)
      BY <2>2 DEF WireOwner
    <3>2. EndOfLabels(o) = o + n - 1 /\ At(o) < 64
      BY <1>2, <2>2, <3>1, NameEnds
    <3>3. At(o) \in Nat
      BY AtType, BytesAreNaturals
    <3>4. ~ (At(o) >= 192) /\ (o + n - 1) + 1 = s
      BY <1>1, <3>2, <3>3
    <3> QED
      BY <3>2, <3>4 DEF SkipOwner
  <2>3. CASE r.pointer = 0 /\ r.labels = <<>>
    <3> DEFINE zero == <<0>>
    <3>1. a = WireLabels(r.labels) \o zero
      BY <2>3 DEF WireOwner, WireName
    <3>1a. WireLabels(r.labels) = <<>>
      BY <2>3, NoLabels, Zenon
    <3>2. zero \in Seq(Byte) /\ Len(zero) = 1 /\ zero[1] = 0 /\ 0 < Len(zero)
      BY IsByte
    <3> HIDE DEF zero
    <3>2a. a = zero
      BY <3>1, <3>1a, <3>2
    <3>3. At(o) = zero[1]
      <4>1. Placed(zero, o, rx_pkt)
        BY <1>2, <3>2a
      <4> QED
        BY <3>2, <4>1, AtStart
    <3>4. At(o) = 0
      BY <3>2, <3>3
    <3>5. PICK e : Ends(e, o)
      BY EndOfLabelsIs
    <3>6. EndOfLabels(o) = o
      BY <3>4, <3>5 DEF Ends
    <3> QED
      <4>1. s = o + 1
        BY <3>2, <3>2a
      <4>2. SkipOwner(o) = o + 1
        BY <3>4, <3>6 DEF SkipOwner
      <4> QED
        BY <4>1, <4>2
  <2> QED
    BY <2>1, <2>2, <2>3 DEF IsRecord
<1> HIDE DEF s
<1>5. Ntohs(s) = r.type
  BY <1>2, <1>3, NtohsIs
<1>6. Rdlen(o) = m
  <2>1. s + 8 \in Nat
    BY <1>2
  <2>2. Ntohs(s + 8) = m
    <3> HIDE DEF m
    <3> QED
      BY <1>2, <1>3, <2>1, NtohsIs, Zenon
  <2> QED
    BY <1>4, <2>2 DEF Rdlen
<1>7. NextRecord(o) = o + Len(WireRecord(r))
  <2>1. Len(WireRecord(r)) = n + 10 + m
    BY RecordType DEF Sized
  <2>2. NextRecord(o) = s + 10 + m
    BY <1>4, <1>6 DEF NextRecord
  <2> HIDE DEF n, m
  <2>3. o + (n + 10 + m) = (o + n) + 10 + m
    BY <1>1, <1>3
  <2> QED
    BY <2>1, <2>2, <2>3 DEF s
<1>8. ASSUME m = 4 PROVE Address(o) = r.data
  <2> DEFINE d == r.data
             w == [k \in 1 .. 4 |-> At(s + 9 + k)]
  <2>1. d \in Seq(Byte) /\ Len(d) = 4
    BY <1>3, <1>8
  <2> HIDE DEF d
  <2>2. ASSUME NEW k \in 1 .. 4 PROVE At(s + 9 + k) = d[k]
    <3>1. k - 1 \in Nat /\ k - 1 < Len(d) /\ (k - 1) + 1 = k
      BY <2>1
    <3>2. s + 10 \in Nat /\ (s + 10) + (k - 1) = s + 9 + k
      BY <1>2
    <3>3. Placed(d, s + 10, rx_pkt)
      BY <1>2 DEF d
    <3> DEFINE q == s + 10
               i == k - 1
    <3>4. q \in Nat /\ i \in Nat /\ i < Len(d) /\ Placed(d, q, rx_pkt)
      BY <3>1, <3>2, <3>3
    <3> HIDE DEF q, i
    <3>5. At(q + i) = d[i + 1]
      BY <2>1, <3>4, AtPlaced
    <3> QED
      BY <3>1, <3>2, <3>5 DEF q, i
  <2>3. w \in Seq(Byte) /\ Len(w) = 4 /\ \A k \in 1 .. 4 : w[k] = d[k]
    <3>1. \A k \in 1 .. 4 : d[k] \in Byte
      BY <2>1, ElementOfSeq
    <3>2. \A k \in 1 .. 4 : w[k] = d[k]
      BY <2>2
    <3>3. w \in [1 .. 4 -> Byte]
      BY <2>2, <3>1
    <3>4. w \in Seq(Byte) /\ Len(w) = 4
      <4> DEFINE l == 4
      <4>1. w \in [1 .. l -> Byte] /\ l \in Nat
        BY <3>3
      <4> HIDE DEF w, l
      <4>2. w \in Seq(Byte) /\ Len(w) = l
        BY <4>1
      <4> QED
        BY <4>2 DEF l
    <3> QED
      BY <3>2, <3>4
  <2> HIDE DEF w
  <2>4. w = d
    BY <2>1, <2>3, SeqEqual
  <2>5. Address(o) = w
    BY <1>4 DEF Address, w
  <2> QED
    BY <2>4, <2>5 DEF d
<1>9. IsAddress(o) <=> r.type = 1 /\ m = 4
  BY <1>4, <1>5, <1>6 DEF IsAddress
<1> QED
  BY <1>7, <1>8, <1>9

Records(a) == [i \in DOMAIN a |-> WireRecord(a[i])]

AllUnmixed(a) == \A i \in 1 .. Len(a) : Unmixed(a[i])

LEMMA AnswersAre == ASSUME NEW a \in Answers PROVE IsAnswer(a)
BY AnswersAssumption

LEMMA RecordsType ==
  ASSUME NEW a, IsAnswer(a)
  PROVE  /\ Records(a) \in Seq(Seq(Byte))
         /\ Len(Records(a)) = Len(a)
         /\ \A i \in 1 .. Len(a) :
              /\ IsRecord(a[i])
              /\ Records(a)[i] = WireRecord(a[i])
<1> DEFINE n == Len(a)
           V == Seq(Byte)
           s == [i \in 1 .. n |-> WireRecord(a[i])]
<1>1. a \in Seq(Record) /\ n \in Nat /\ DOMAIN a = 1 .. n
  BY DEF IsAnswer
<1>2. \A i \in 1 .. n : IsRecord(a[i])
  BY DEF IsAnswer
<1>3. \A i \in 1 .. n : WireRecord(a[i]) \in V
  BY <1>2, RecordType DEF Sized
<1>4. \A i \in 1 .. n : s[i] = WireRecord(a[i])
  OBVIOUS
<1>5. s \in Seq(V) /\ Len(s) = n
  <2> HIDE DEF n, V
  <2>1. s \in [1 .. n -> V]
    BY <1>3
  <2> HIDE DEF s
  <2> QED
    BY <1>1, <2>1
<1>6. s = Records(a)
  BY <1>1 DEF Records
<1> HIDE DEF s, n
<1> QED
  BY <1>2, <1>4, <1>5, <1>6 DEF n

(* Where the parts of a response are.                                      *)
Parts(a, labels) ==
  /\ rx_pkt \in Seq(Byte)
  /\ Ntohs(4) = 1 /\ Ntohs(6) = Len(a)
  /\ Placed(WireName(labels), 12, rx_pkt)
  /\ Placed(FlattenSeq(Records(a)), Len(WireName(labels)) + 16, rx_pkt)

Received(d, a, stale) == rx_pkt = Response(d, a) \o stale

LEMMA ResponseParts ==
  ASSUME NEW d \in Draws, NEW a, IsAnswer(a),
         NEW stale \in Seq(Byte), Received(d, a, stale)
  PROVE  Parts(a, d.host)
<1> DEFINE h1 == Htons(d.id) \o Htons(33152)
           h2 == h1 \o Htons(1)
           h3 == h2 \o Htons(Len(a))
           h4 == h3 \o Zeros(4)
           name == WireName(d.host)
           h5 == h4 \o name
           tail == <<0, 1, 0, 1>>
           h6 == h5 \o tail
           flat == FlattenSeq(Records(a))
           h7 == h6 \o flat
           whole == h7 \o stale
           n == Len(name)
           m == Len(flat)
           l == Len(stale)
<1>1. rx_pkt = whole
  BY DEF Received, Response, Records
<1>2. IsName(d.host) /\ d.id \in Nat
  BY DrawIs
<1>3. Len(a) \in Short /\ Len(a) \in Nat
  BY ShortIs DEF IsAnswer
<1>4. /\ Sized(Htons(d.id), 2) /\ Sized(Htons(33152), 2) /\ Sized(Htons(1), 2)
      /\ Sized(Htons(Len(a)), 2)
  BY <1>2, <1>3, SizedHtons
<1>5. Sized(Zeros(4), 4)
  BY SizedZeros
<1>6. Sized(tail, 4)
  <2>1. 0 \in Byte /\ 1 \in Byte
    BY IsByte
  <2>2. tail \in Seq(Byte) /\ Len(tail) = 4
    BY <2>1
  <2> HIDE DEF tail
  <2> QED
    BY <2>2 DEF Sized
<1>7. Sized(name, n) /\ n \in Nat
  BY <1>2, WireNameType DEF Sized
<1>8. Sized(flat, m) /\ m \in Nat
  <2>1. flat \in Seq(Byte)
    <3>1. Records(a) \in Seq(Seq(Byte))
      BY <1>2, RecordsType
    <3> QED
      BY <3>1, FlattenType
  <2> HIDE DEF flat
  <2> QED
    BY <2>1 DEF Sized
<1> HIDE DEF n, m, name, tail, flat
<1>8a. Sized(stale, l) /\ l \in Nat
  BY DEF Sized
<1> HIDE DEF l
<1>9. Sized(h1, 2 + 2)
  BY <1>4, SizedConcat
<1>10. Sized(h2, 2 + 2 + 2)
  <2> HIDE DEF h1
  <2> QED
    BY <1>4, <1>9, SizedConcat
<1>11. Sized(h3, 2 + 2 + 2 + 2)
  <2> DEFINE x == Htons(Len(a))
  <2>1. Sized(x, 2)
    BY <1>4
  <2> HIDE DEF h2, x
  <2>2. Sized(h2 \o x, 2 + 2 + 2 + 2)
    BY <1>10, <2>1, SizedConcat
  <2> QED
    BY <2>2 DEF x
<1>12. Sized(h4, 2 + 2 + 2 + 2 + 4)
  <2> HIDE DEF h3
  <2> QED
    BY <1>5, <1>11, SizedConcat
<1>13. Sized(h5, 2 + 2 + 2 + 2 + 4 + n)
  <2> HIDE DEF h4
  <2> QED
    BY <1>7, <1>12, SizedConcat
<1>14. Sized(h6, 2 + 2 + 2 + 2 + 4 + n + 4)
  <2> HIDE DEF h5
  <2> QED
    BY <1>6, <1>13, SizedConcat
<1>14a. Sized(h7, 2 + 2 + 2 + 2 + 4 + n + 4 + m)
  <2> HIDE DEF h6
  <2> QED
    BY <1>8, <1>14, SizedConcat
<1>15. rx_pkt \in Seq(Byte)
  <2>1. Sized(whole, 2 + 2 + 2 + 2 + 4 + n + 4 + m + l)
    <3> HIDE DEF h7
    <3> QED
      BY <1>8a, <1>14a, SizedConcat
  <2> HIDE DEF whole
  <2> QED
    BY <1>1, <2>1 DEF Sized
<1>16. Placed(whole, 0, rx_pkt)
  <2> HIDE DEF whole
  <2> QED
    BY <1>1, <1>15, PlacedWhole
<1>16a. Placed(h7, 0, rx_pkt)
  <2> HIDE DEF h7
  <2> QED
    BY <1>8a, <1>14a, <1>15, <1>16, PlacedSized
<1>17. Placed(h6, 0, rx_pkt) /\ Placed(flat, 0 + (2 + 2 + 2 + 2 + 4 + n + 4), rx_pkt)
  <2> HIDE DEF h6
  <2> QED
    BY <1>8, <1>14, <1>15, <1>16a, PlacedSized
<1>18. Placed(h5, 0, rx_pkt)
  <2> HIDE DEF h5
  <2> QED
    BY <1>6, <1>13, <1>15, <1>17, PlacedSized
<1>19. Placed(h4, 0, rx_pkt) /\ Placed(name, 0 + (2 + 2 + 2 + 2 + 4), rx_pkt)
  <2> HIDE DEF h4
  <2> QED
    BY <1>7, <1>12, <1>15, <1>18, PlacedSized
<1>20. Placed(h3, 0, rx_pkt)
  <2> HIDE DEF h3
  <2> QED
    BY <1>5, <1>11, <1>15, <1>19, PlacedSized
<1>21. Placed(h2, 0, rx_pkt) /\ Placed(Htons(Len(a)), 0 + (2 + 2 + 2), rx_pkt)
  <2> HIDE DEF h2
  <2> QED
    BY <1>4, <1>10, <1>15, <1>20, PlacedSized
<1>22. Placed(Htons(1), 0 + (2 + 2), rx_pkt)
  <2> HIDE DEF h1
  <2> QED
    BY <1>4, <1>9, <1>15, <1>21, PlacedSized
<1>23. /\ 0 + (2 + 2) = 4 /\ 0 + (2 + 2 + 2) = 6
       /\ 0 + (2 + 2 + 2 + 2 + 4) = 12
       /\ 0 + (2 + 2 + 2 + 2 + 4 + n + 4) = n + 16
  BY <1>7
<1>24. Ntohs(4) = 1
  <2>1. 1 \in Short
    BY DEF Short
  <2>2. Placed(Htons(1), 4, rx_pkt)
    BY <1>22, <1>23
  <2> QED
    BY <1>15, <2>1, <2>2, NtohsIs
<1>25. Ntohs(6) = Len(a)
  <2>1. Placed(Htons(Len(a)), 6, rx_pkt)
    BY <1>21, <1>23
  <2> QED
    BY <1>3, <1>15, <2>1, NtohsIs
<1>26. Placed(name, 12, rx_pkt) /\ Placed(flat, n + 16, rx_pkt)
  BY <1>17, <1>19, <1>23
<1> QED
  BY <1>15, <1>24, <1>25, <1>26 DEF Parts, name, flat, n

LEMMA FirstAnswerIs ==
  ASSUME NEW a, NEW labels, IsName(labels), Parts(a, labels)
  PROVE  FirstAnswer = Len(WireName(labels)) + 16
<1> DEFINE F(f) == f = [i \in 0 .. 1 |->
                          IF i = 0 THEN 12 ELSE SkipQuestion(f[i - 1])]
           skip == CHOOSE f : F(f)
           first == [i \in 0 .. 1 |-> IF i = 0 THEN 12 ELSE SkipQuestion(12)]
<1>1. F(first)
  <2>1. \A i \in 0 .. 1 :
          first[i] = IF i = 0 THEN 12 ELSE SkipQuestion(first[i - 1])
    <3>1. first[0] = 12 /\ first[1] = SkipQuestion(12)
      OBVIOUS
    <3>2. \A i \in 0 .. 1 : i = 0 \/ (i # 0 /\ i = 1 /\ i - 1 = 0)
      OBVIOUS
    <3> HIDE DEF first
    <3> QED
      BY <3>1, <3>2
  <2>2. first = [i \in 0 .. 1 |-> first[i]]
    OBVIOUS
  <2> HIDE DEF first
  <2> QED
    BY <2>1, <2>2
<1>2. F(skip)
  <2> HIDE DEF F
  <2> QED
    BY <1>1
<1>3. skip[1] = SkipQuestion(12)
  <2> HIDE DEF skip
  <2> QED
    BY <1>2
<1>4. FirstAnswer = skip[1]
  BY DEF Parts, FirstAnswer
<1>5. EndOfLabels(12) = 12 + Len(WireName(labels)) - 1
  BY NameEnds DEF Parts
<1>6. Len(WireName(labels)) \in Nat
  BY WireNameType
<1> HIDE DEF skip
<1> QED
  BY <1>3, <1>4, <1>5, <1>6 DEF SkipQuestion

LEMMA MinIs ==
  ASSUME NEW T, T \subseteq Nat, T # {}
  PROVE  Min(T) \in T /\ \A y \in T : Min(T) <= y
<1>1. \E x \in T : \A y \in T : x <= y
  <2>1. PICK x \in T : \A y \in T : ~ (y < x)
    BY Least
  <2>2. \A y \in T : x <= y
    BY <2>1
  <2> QED
    BY <2>2
<1> QED
  BY <1>1 DEF Min

(* The walk is at the records, one after the other.                        *)
LEMMA RecordsWalked ==
  ASSUME NEW a, IsAnswer(a), AllUnmixed(a),
         NEW labels, IsName(labels), Parts(a, labels),
         NEW record,
         record = CHOOSE f :
                    f = [i \in 0 .. Ntohs(6) |->
                           IF i = 0 THEN FirstAnswer ELSE NextRecord(f[i - 1])]
  PROVE  \A i \in 0 .. Len(a) - 1 :
           /\ IsAddress(record[i]) <=> a[i + 1].type = 1
           /\ a[i + 1].type = 1 => Address(record[i]) = a[i + 1].data
<1> DEFINE m == Len(a)
           recs == Records(a)
           flat == FlattenSeq(recs)
           first == Len(WireName(labels)) + 16
           F(f) == f = [i \in 0 .. m |->
                          IF i = 0 THEN first ELSE NextRecord(f[i - 1])]
<1>1. m \in Nat
  BY ShortIs DEF IsAnswer
<1>2. first \in Nat
  BY WireNameType
<1>3. /\ rx_pkt \in Seq(Byte) /\ Ntohs(6) = m /\ FirstAnswer = first
      /\ Placed(flat, first, rx_pkt)
  BY FirstAnswerIs DEF Parts
<1>4. /\ recs \in Seq(Seq(Byte)) /\ Len(recs) = m
      /\ \A i \in 1 .. m : IsRecord(a[i]) /\ recs[i] = WireRecord(a[i])
  BY RecordsType
<1> HIDE DEF recs, first, m
<1>5. PICK f : Flattens(f, recs, Byte)
  BY <1>4, FlattenIs
<1>6. ASSUME NEW i \in 1 .. m
      PROVE  LET o == first + Len(f[i - 1])
             IN  /\ o \in Nat
                 /\ NextRecord(o) = first + Len(f[i])
                 /\ IsAddress(o) <=> a[i].type = 1
                 /\ a[i].type = 1 => Address(o) = a[i].data
  <2> DEFINE r == a[i]
             w == WireRecord(r)
             o == first + Len(f[i - 1])
  <2>1. /\ Len(f[i]) = Len(f[i - 1]) + Len(recs[i])
        /\ Len(f[i - 1]) \in Nat /\ Len(recs[i]) \in Nat
        /\ Placed(recs[i], first + Len(f[i - 1]), rx_pkt)
    BY <1>2, <1>3, <1>4, <1>5, FlattenPlaces
  <2>2. IsRecord(r) /\ recs[i] = w
    BY <1>4
  <2>3. Unmixed(r) /\ (r.type = 1 => Len(r.data) = 4)
    BY <1>4 DEF AllUnmixed, IsRecord, m
  <2>4. o \in Nat /\ Placed(w, o, rx_pkt)
    BY <1>2, <2>1, <2>2
  <2> HIDE DEF r, o
  <2>5. /\ NextRecord(o) = o + Len(w)
        /\ IsAddress(o) <=> r.type = 1 /\ Len(r.data) = 4
        /\ Len(r.data) = 4 => Address(o) = r.data
    BY <1>3, <2>2, <2>3, <2>4, RecordRead
  <2>6. o + Len(w) = first + Len(f[i])
    <3>1. Len(f[i]) = Len(f[i - 1]) + Len(w)
      BY <2>1, <2>2
    <3> DEFINE l == Len(f[i - 1])
               k == Len(w)
    <3>2. l \in Nat /\ k \in Nat /\ Len(f[i]) = l + k /\ o = first + l
      BY <2>1, <2>2, <3>1 DEF o
    <3> HIDE DEF l, k
    <3>3. o + k = first + Len(f[i])
      BY <1>2, <3>2
    <3> QED
      BY <3>3 DEF k
  <2> QED
    BY <2>3, <2>4, <2>5, <2>6 DEF o, r
<1>7. F(record)
  <2> DEFINE g == [i \in 0 .. m |-> first + Len(f[i])]
             G == CHOOSE h : F(h)
  <2>1. F(g)
    <3>1. ASSUME NEW i \in 0 .. m
          PROVE  g[i] = IF i = 0 THEN first ELSE NextRecord(g[i - 1])
      <4>1. CASE i = 0
        <5>1. f[0] = <<>>
          BY <1>5 DEF Flattens
        <5> QED
          BY <1>1, <1>2, <4>1, <5>1
      <4>2. CASE i # 0
        <5>1. i \in 1 .. m /\ i - 1 \in 0 .. m
          BY <1>1, <4>2
        <5>2. NextRecord(first + Len(f[i - 1])) = first + Len(f[i])
          BY <1>6, <5>1
        <5> QED
          BY <4>2, <5>1, <5>2
      <4> QED
        BY <4>1, <4>2
    <3>2. g = [i \in 0 .. m |-> g[i]]
      OBVIOUS
    <3> HIDE DEF g
    <3> QED
      BY <3>1, <3>2
  <2>2. F(G)
    <3> HIDE DEF F, g
    <3> QED
      BY <2>1
  <2>3. record = G
    BY <1>3
  <2> HIDE DEF F, G
  <2> QED
    BY <2>2, <2>3
<1>8. \A i \in 0 .. m :
        record[i] = IF i = 0 THEN first ELSE NextRecord(record[i - 1])
  BY <1>7
<1> DEFINE S == {i \in 0 .. m : record[i] = first + Len(f[i])}
<1>9. 0 \in S
  <2>1. f[0] = <<>>
    BY <1>5 DEF Flattens
  <2>2. record[0] = first
    BY <1>1, <1>8
  <2> QED
    BY <1>1, <1>2, <2>1, <2>2
<1>10. ASSUME NEW i \in 1 .. m, i - 1 \in S PROVE i \in S
  <2>1. record[i] = NextRecord(record[i - 1])
    BY <1>8
  <2>2. record[i - 1] = first + Len(f[i - 1])
    BY <1>10
  <2>3. NextRecord(first + Len(f[i - 1])) = first + Len(f[i])
    BY <1>6
  <2>4. record[i] = first + Len(f[i])
    BY <2>1, <2>2, <2>3
  <2> QED
    BY <2>4
<1>11. 0 .. m \subseteq S
  <2> HIDE DEF S
  <2> QED
    BY <1>1, <1>9, <1>10, UpTo
<1>12. ASSUME NEW i \in 0 .. m - 1
       PROVE  /\ IsAddress(record[i]) <=> a[i + 1].type = 1
              /\ a[i + 1].type = 1 => Address(record[i]) = a[i + 1].data
  <2> DEFINE k == i + 1
  <2>1. k \in 1 .. m /\ i = k - 1 /\ i \in 0 .. m
    BY <1>1
  <2>2. record[i] = first + Len(f[i])
    BY <1>11, <2>1
  <2> HIDE DEF k
  <2>3. /\ IsAddress(first + Len(f[k - 1])) <=> a[k].type = 1
        /\ a[k].type = 1 => Address(first + Len(f[k - 1])) = a[k].data
    BY <1>6, <2>1
  <2>4. /\ IsAddress(record[i]) <=> a[k].type = 1
        /\ a[k].type = 1 => Address(record[i]) = a[k].data
    BY <2>1, <2>2, <2>3
  <2> QED
    BY <2>4 DEF k
<1> QED
  BY <1>12 DEF m

UdpCheckIs(port, payload) ==
  LET check == UdpCheck(UdpDatagram(port, Zeros(2), payload))
  IN  check \in Nat /\ check < 65536

LEMMA UdpCheckType ==
  ASSUME NEW port \in Nat, NEW payload \in Seq(Byte)
  PROVE  UdpCheckIs(port, payload)
<1> DEFINE empty == UdpDatagram(port, Zeros(2), payload)
           n == Len(empty)
           data == Pseudo(n) \o empty
<1>1. n \in Nat /\ data \in Seq(Byte)
  <2>1. 0 \in Nat
    OBVIOUS
  <2>2. UdpSums(port, Zeros(2), payload, 0)
    BY <2>1, EvenZeros, UdpSum
  <2>3. empty \in Seq(Byte)
    BY <2>2 DEF UdpSums
  <2>4. n \in Nat
    <3> HIDE DEF empty
    <3> QED
      BY <2>3
  <2> HIDE DEF n
  <2>5. UdpSums(port, Zeros(2), payload, n)
    BY <2>4, EvenZeros, UdpSum
  <2>6. data \in Seq(Byte)
    BY <2>5 DEF UdpSums
  <2> QED
    BY <2>4, <2>6
<1>2. PseudoChecksum(MyIp, DnsIp, 17, empty) = Checksum(data)
  BY DEF PseudoChecksum, Pseudo
<1>3. Checksum(data) \in Nat /\ Checksum(data) < 65536
  <2> HIDE DEF data
  <2> QED
    BY <1>1, ChecksumType
<1> HIDE DEF data, empty
<1>4. UdpCheck(empty) \in Nat /\ UdpCheck(empty) < 65536
  BY <1>2, <1>3 DEF UdpCheck
<1> QED
  BY <1>4 DEF UdpCheckIs, empty

LEMMA FirstAIs ==
  ASSUME NEW a, IsAnswer(a), AllUnmixed(a),
         NEW labels, IsName(labels), Parts(a, labels)
  PROVE  FirstA = LET A == {i \in DOMAIN a : a[i].type = 1}
                  IN  IF A = {} THEN <<>> ELSE a[Min(A)].data
<1> DEFINE m == Len(a)
           record == CHOOSE f :
                       f = [i \in 0 .. Ntohs(6) |->
                              IF i = 0 THEN FirstAnswer ELSE NextRecord(f[i - 1])]
           found == {i \in 0 .. m - 1 : IsAddress(record[i])}
           A == {i \in 1 .. m : a[i].type = 1}
<1>1. m \in Nat /\ DOMAIN a = 1 .. m /\ Ntohs(6) = m
  <2>1. DOMAIN a = 1 .. m
    BY DEF IsAnswer
  <2> QED
    BY <2>1, ShortIs DEF IsAnswer, Parts
<1>2. FirstA = IF found = {} THEN <<>> ELSE Address(record[Min(found)])
  <2> DEFINE T == {i \in 0 .. Ntohs(6) - 1 : IsAddress(record[i])}
  <2>1. FirstA = IF T = {} THEN <<>> ELSE Address(record[Min(T)])
    BY DEF FirstA
  <2>2. T = found
    <3> HIDE DEF record
    <3> QED
      BY <1>1
  <2> HIDE DEF T, found
  <2> QED
    BY <2>1, <2>2
<1>3. \A i \in 0 .. m - 1 :
        /\ IsAddress(record[i]) <=> a[i + 1].type = 1
        /\ a[i + 1].type = 1 => Address(record[i]) = a[i + 1].data
  BY RecordsWalked
<1> HIDE DEF record, m
<1>4. found = {i \in 0 .. m - 1 : i + 1 \in A}
  <2>1. \A i \in 0 .. m - 1 : i + 1 \in 1 .. m
    BY <1>1
  <2> QED
    BY <1>3, <2>1
<1>5. A = {} <=> found = {}
  <2>1. \A i \in A : i - 1 \in 0 .. m - 1 /\ (i - 1) + 1 = i
    BY <1>1
  <2> HIDE DEF A, found
  <2> QED
    BY <1>4, <2>1
<1>6. ASSUME A # {}
      PROVE  Address(record[Min(found)]) = a[Min(A)].data
  <2> DEFINE x == Min(A)
             y == Min(found)
  <2>1. A \subseteq Nat /\ found \subseteq Nat /\ found # {}
    BY <1>1, <1>5, <1>6
  <2>2. x \in A /\ \A i \in A : x <= i
    <3> HIDE DEF A
    <3> QED
      BY <1>6, <2>1, MinIs
  <2>3. y \in found /\ \A i \in found : y <= i
    <3> HIDE DEF found
    <3> QED
      BY <2>1, MinIs
  <2> HIDE DEF x, y
  <2>4. y \in 0 .. m - 1 /\ y + 1 \in A
    <3> HIDE DEF A, found
    <3> QED
      BY <1>4, <2>3
  <2>5. x - 1 \in found
    <3>1. x - 1 \in 0 .. m - 1 /\ (x - 1) + 1 = x
      BY <1>1, <2>2
    <3> HIDE DEF A, found
    <3> QED
      BY <1>4, <2>2, <3>1
  <2>6. y + 1 = x
    <3>1. y <= x - 1 /\ x <= y + 1
      <4> HIDE DEF A, found
      <4> QED
        BY <2>2, <2>3, <2>4, <2>5
    <3> QED
      BY <1>1, <2>2, <2>4, <3>1
  <2>7. a[y + 1].type = 1
    BY <2>4
  <2>8. Address(record[y]) = a[y + 1].data
    BY <1>3, <2>4, <2>7
  <2> QED
    BY <2>6, <2>8 DEF x, y
<1> HIDE DEF A, found
<1>7. FirstA = IF A = {} THEN <<>> ELSE a[Min(A)].data
  BY <1>2, <1>5, <1>6
<1>8. A = {i \in DOMAIN a : a[i].type = 1}
  BY <1>1 DEF A
<1> QED
  BY <1>7, <1>8

-----------------------------------------------------------------------------
(* Names and addresses.                                                    *)

(* Where a name is in the datagram that asks for it.                       *)
LEMMA QuestionPlaced ==
  ASSUME NEW d \in Draws
  PROVE  LET udp == Query(d).udp
         IN  /\ SubSeq(udp, 21, Len(udp) - 4) = WireName(d.host)
             /\ Len(udp) = Len(WireName(d.host)) + 24
<1> DEFINE h1 == Htons(d.id) \o Htons(256)
           h2 == h1 \o Htons(1)
           h3 == h2 \o Zeros(6)
           name == WireName(d.host)
           h4 == h3 \o name
           tail == <<0, 1, 0, 1>>
           payload == h4 \o tail
           empty == UdpDatagram(d.port, Zeros(2), payload)
           check == UdpCheck(empty)
           s == Store(check)
           g1 == Htons(d.port) \o Htons(53)
           g2 == g1 \o Htons(8 + Len(payload))
           g3 == g2 \o s
           udp == g3 \o payload
           n == Len(name)
<1>1. IsName(d.host) /\ d.id \in Nat /\ d.port \in Nat
  BY DrawIs
<1>2. Query(d).udp = udp
  <2>1. Qname(Text(d.host)) = name
    BY <1>1, QnameIsWireName
  <2>2. DnsMessage(Text(d.host), d.id) = payload
    <3> HIDE DEF name
    <3> QED
      BY <2>1 DEF DnsMessage
  <2> HIDE DEF payload
  <2> QED
    BY <2>2 DEF Query, UdpDatagram
<1>3. Sized(name, n) /\ n \in Nat
  BY <1>1, WireNameType DEF Sized
<1>4. Sized(tail, 4)
  <2>1. 0 \in Byte /\ 1 \in Byte
    BY IsByte
  <2>2. tail \in Seq(Byte) /\ Len(tail) = 4
    BY <2>1
  <2> HIDE DEF tail
  <2> QED
    BY <2>2 DEF Sized
<1>5. /\ Sized(Htons(d.id), 2) /\ Sized(Htons(256), 2) /\ Sized(Htons(1), 2)
      /\ Sized(Htons(d.port), 2) /\ Sized(Htons(53), 2)
  BY <1>1, SizedHtons
<1>6. Sized(Zeros(6), 6)
  BY SizedZeros
<1> HIDE DEF n, name, tail
<1>7. Sized(h1, 2 + 2)
  BY <1>5, SizedConcat
<1>8. Sized(h2, 2 + 2 + 2)
  <2> HIDE DEF h1
  <2> QED
    BY <1>5, <1>7, SizedConcat
<1>9. Sized(h3, 2 + 2 + 2 + 6)
  <2> HIDE DEF h2
  <2> QED
    BY <1>6, <1>8, SizedConcat
<1>10. Sized(h4, 2 + 2 + 2 + 6 + n)
  <2> HIDE DEF h3
  <2> QED
    BY <1>3, <1>9, SizedConcat
<1>11. Sized(payload, 2 + 2 + 2 + 6 + n + 4)
  <2> HIDE DEF h4
  <2> QED
    BY <1>4, <1>10, SizedConcat
<1>12. Sized(s, 2)
  <2> DEFINE pseudo == Pseudo(Len(empty)) \o empty
  <2>1. payload \in Seq(Byte)
    <3> HIDE DEF payload
    <3> QED
      BY <1>11 DEF Sized
  <2> HIDE DEF payload
  <2>2. UdpCheckIs(d.port, payload)
    BY <1>1, <2>1, UdpCheckType
  <2>3. check \in Nat /\ check < 65536
    BY <2>2 DEF UdpCheckIs
  <2> HIDE DEF check
  <2>4. s \in Seq(Byte) /\ Len(s) = 2
    BY <2>3, StoreIs
  <2> HIDE DEF s
  <2> QED
    BY <2>4 DEF Sized
<1> HIDE DEF s
<1>13. Sized(g1, 2 + 2)
  BY <1>5, SizedConcat
<1>14. Sized(g2, 2 + 2 + 2)
  <2> DEFINE x == Htons(8 + Len(payload))
  <2>1. Sized(x, 2)
    <3>1. 8 + Len(payload) \in Nat
      <4> HIDE DEF payload
      <4> QED
        BY <1>11 DEF Sized
    <3> HIDE DEF payload
    <3> QED
      BY <3>1, SizedHtons
  <2> HIDE DEF g1, x
  <2>2. Sized(g1 \o x, 2 + 2 + 2)
    BY <1>13, <2>1, SizedConcat
  <2> QED
    BY <2>2 DEF x
<1>15. Sized(g3, 2 + 2 + 2 + 2)
  <2> HIDE DEF g2
  <2> QED
    BY <1>12, <1>14, SizedConcat
<1>16. Sized(udp, 2 + 2 + 2 + 2 + (2 + 2 + 2 + 6 + n + 4))
  <2> HIDE DEF g3, payload
  <2> QED
    BY <1>11, <1>15, SizedConcat
<1>17. udp \in Seq(Byte) /\ Len(udp) = n + 24
  <2> HIDE DEF udp
  <2>1. 2 + 2 + 2 + 2 + (2 + 2 + 2 + 6 + n + 4) = n + 24
    BY <1>3
  <2> QED
    BY <1>16, <2>1 DEF Sized
<1>18. Placed(udp, 0, udp)
  <2> HIDE DEF udp
  <2> QED
    BY <1>17, PlacedWhole
<1> DEFINE whole == udp
<1>19. whole \in Seq(Byte) /\ Len(whole) = n + 24 /\ Placed(g3 \o payload, 0, whole)
  BY <1>17, <1>18
<1>20. Query(d).udp = whole
  BY <1>2
<1> HIDE DEF whole
<1>21. Placed(payload, 0 + (2 + 2 + 2 + 2), whole)
  <2> HIDE DEF g3, payload
  <2> QED
    BY <1>11, <1>15, <1>19, PlacedSized
<1>22. Placed(payload, 8, whole)
  BY <1>21
<1>23. Placed(h4, 8, whole)
  <2> HIDE DEF h4
  <2> QED
    BY <1>4, <1>10, <1>19, <1>22, PlacedSized
<1>24. Placed(name, 8 + (2 + 2 + 2 + 6), whole)
  <2> HIDE DEF h3
  <2> QED
    BY <1>3, <1>9, <1>19, <1>23, PlacedSized
<1>25. Placed(name, 20, whole)
  BY <1>24
<1>26. SubSeq(whole, 20 + 1, 20 + Len(name)) = name
  <2>1. name \in Seq(Byte)
    BY <1>3 DEF Sized
  <2> QED
    BY <1>19, <1>25, <2>1, PlacedSubSeq
<1>27. 20 + 1 = 21 /\ 20 + Len(name) = Len(whole) - 4
  BY <1>3, <1>19 DEF n
<1>28. Len(whole) = Len(name) + 24
  BY <1>19 DEF n
<1> QED
  BY <1>20, <1>26, <1>27, <1>28 DEF name

(* What the server has answered, and what has been made of it.             *)
AddressOf(a) ==
  LET A == {i \in DOMAIN a : a[i].type = 1}
  IN  IF A = {} THEN <<>> ELSE a[Min(A)].data

NameInv ==
  /\ QueryInv
  /\ stage \in {"answered", "resolved"} =>
       /\ answers \in Answers
       /\ \E s \in Stale : rx_pkt = Response(query.draw, answers) \o s
  /\ stage = "resolved" /\ AllUnmixed(answers) => outcome = AddressOf(answers)

LEMMA AnswerUnderstood ==
  NameInv /\ stage = "answered" /\ AllUnmixed(answers) =>
    FirstA = AddressOf(answers)
<1> SUFFICES ASSUME NameInv, stage = "answered", AllUnmixed(answers)
             PROVE  FirstA = AddressOf(answers)
  OBVIOUS
<1>1. PICK d \in Draws : query = Query(d)
  BY DEF NameInv, QueryInv, Asked
<1>2. query.draw = d
  BY <1>1 DEF Query
<1>3. IsAnswer(answers) /\ IsName(d.host)
  <2>1. answers \in Answers
    BY DEF NameInv
  <2> QED
    BY <2>1, AnswersAre, DrawIs
<1>4. PICK s \in Stale : rx_pkt = Response(d, answers) \o s
  BY <1>2 DEF NameInv
<1>4a. s \in Seq(Byte)
  BY PacketsAssumption
<1>5. Parts(answers, d.host)
  BY <1>3, <1>4, <1>4a, ResponseParts DEF Received
<1> QED
  BY <1>3, <1>5, FirstAIs DEF AddressOf

LEMMA NameInvariant == Spec => []NameInv
<1>1. Init => NameInv
  BY DEF Init, NameInv, QueryInv, Asked
<1>2. NameInv /\ [Next]_vars => NameInv'
  <2> SUFFICES ASSUME NameInv, [Next]_vars PROVE NameInv'
    OBVIOUS
  <2>1. CASE DnsQuery
    BY <2>1 DEF DnsQuery, NameInv, QueryInv
  <2>2. CASE DnsServer
    <3>1. QueryInv'
      BY <2>2 DEF DnsServer, NameInv, QueryInv, Asked
    <3>2. /\ answers' \in Answers
          /\ \E s \in Stale : rx_pkt' = Response(query.draw, answers') \o s
      BY <2>2 DEF DnsServer
    <3>3. query' = query /\ stage' = "answered"
      BY <2>2 DEF DnsServer
    <3>4. Response(query.draw, answers') = Response(query'.draw, answers')
      BY <3>3
    <3> QED
      BY <3>1, <3>2, <3>3, <3>4 DEF NameInv
  <2>3. CASE HandleDns
    <3>1. QueryInv'
      BY <2>3 DEF HandleDns, NameInv, QueryInv, Asked
    <3>2. AllUnmixed(answers) => outcome' = AddressOf(answers)
      BY <2>3, AnswerUnderstood DEF HandleDns
    <3>3. /\ stage = "answered" /\ stage' = "resolved"
          /\ query' = query /\ answers' = answers /\ rx_pkt' = rx_pkt
      BY <2>3 DEF HandleDns
    <3>4. /\ answers \in Answers
          /\ \E s \in Stale : rx_pkt = Response(query.draw, answers) \o s
      BY <3>3 DEF NameInv
    <3> QED
      BY <3>1, <3>2, <3>3, <3>4 DEF NameInv
  <2>4. CASE DhcpServer
    BY <2>4 DEF DhcpServer, NameInv, QueryInv, Asked
  <2>5. CASE ScanOptions
    BY <2>5 DEF ScanOptions, NameInv, QueryInv, Asked
  <2>6. CASE UNCHANGED vars
    BY <2>6 DEF vars, NameInv, QueryInv, Asked
  <2> QED
    BY <2>1, <2>2, <2>3, <2>4, <2>5, <2>6 DEF Next
<1> QED
  BY <1>1, <1>2, PTL DEF Spec

LEMMA NameTaken == NameInv => NameTravels
<1> SUFFICES ASSUME NameInv PROVE NameTravels
  OBVIOUS
<1>1. ASSUME Asked
      PROVE  SubSeq(query.udp, 21, Len(query.udp) - 4) = WireName(query.draw.host)
  <2>1. PICK d \in Draws : query = Query(d)
    BY <1>1 DEF NameInv, QueryInv
  <2>2. query.draw = d
    BY <2>1 DEF Query
  <2>3. SubSeq(Query(d).udp, 21, Len(Query(d).udp) - 4) = WireName(d.host)
    BY QuestionPlaced
  <2> QED
    BY <2>1, <2>2, <2>3
<1>2. stage = "resolved" /\ AllUnmixed(answers) => outcome = AddressOf(answers)
  BY DEF NameInv
<1>3. stage = "resolved" /\ (\A i \in DOMAIN answers : Unmixed(answers[i])) =>
        AllUnmixed(answers)
  <2> SUFFICES ASSUME stage = "resolved",
                      \A i \in DOMAIN answers : Unmixed(answers[i])
               PROVE  AllUnmixed(answers)
    OBVIOUS
  <2>1. IsAnswer(answers)
    BY AnswersAre DEF NameInv
  <2>2. DOMAIN answers = 1 .. Len(answers)
    BY <2>1 DEF IsAnswer
  <2> QED
    BY <2>2 DEF AllUnmixed
<1> QED
  BY <1>1, <1>2, <1>3 DEF NameTravels, AddressOf, Asked

(* The name asked for is the one the caller gave, and the address taken is *)
(* the first one the response holds, for names and responses of any length *)
(* and whatever the buffer still holds behind them: the walk over labels,  *)
(* owners and records of other types (core.hpp:239-273) is at the records, *)
(* one after the other, and stops at none of them before that.  Excepted   *)
(* are responses in which the labels of some owner end in a pointer: after *)
(* one of those the walk has lost its way.                                 *)
THEOREM NamesTravel == Spec => []NameTravels
BY NameInvariant, NameTaken, PTL

(* A name takes two bytes more on the wire than in text: the length of its *)
(* first label, where the others have a dot, and the zero at the end.      *)
LEMMA WireNameLength ==
  ASSUME NEW labels, IsName(labels)
  PROVE  Len(WireName(labels)) = Len(Text(labels)) + 2
<1> DEFINE n == Len(labels)
           pieces == [i \in DOMAIN labels |-> Piece(labels, i)]
           wires == [i \in DOMAIN labels |-> WireLabel(labels[i])]
<1>1. n \in Nat /\ n > 0 /\ DOMAIN labels = 1 .. n
  BY DEF IsName
<1>2. /\ pieces \in Seq(Seq(Byte)) /\ Len(pieces) = n
      /\ \A i \in 1 .. n : pieces[i] = Piece(labels, i)
  <2>1. pieces \in Seq(Seq(Byte)) /\ Len(pieces) = n
    BY PiecesType
  <2> QED
    BY <1>1, <2>1
<1>3. /\ wires \in Seq(Seq(Byte)) /\ Len(wires) = n
      /\ \A i \in 1 .. n : wires[i] = WireLabel(labels[i])
  BY WirePiecesType
<1>4. Text(labels) = FlattenSeq(pieces) /\ WireName(labels) = FlattenSeq(wires) \o <<0>>
  BY DEF Text, Piece, WireName, WireLabels
<1>5. ASSUME NEW k \in 1 .. n
      PROVE  /\ Len(pieces[k]) = IF k = 1 THEN Len(labels[k]) ELSE Len(labels[k]) + 1
             /\ Len(wires[k]) = Len(labels[k]) + 1
             /\ Len(labels[k]) \in Nat
  <2> DEFINE a == labels[k]
             dot == <<Dot>>
  <2>1. a \in Seq(Byte) /\ Len(a) \in Nat /\ Len(WireLabel(a)) = Len(a) + 1
    BY LabelIs
  <2>2. dot \in Seq(Byte) /\ Len(dot) = 1
    BY Chars
  <2>3. Piece(labels, k) = IF k = 1 THEN <<>> \o a ELSE dot \o a
    BY DEF Piece
  <2> HIDE DEF a, dot
  <2>4. <<>> \o a = a /\ Len(dot \o a) = Len(a) + 1
    BY <2>1, <2>2, ConcatEmptySeq, ConcatProperties
  <2>5. Len(Piece(labels, k)) = IF k = 1 THEN Len(a) ELSE Len(a) + 1
    BY <2>3, <2>4
  <2>6. pieces[k] = Piece(labels, k) /\ wires[k] = WireLabel(a)
    BY <1>2, <1>3 DEF a
  <2> HIDE DEF pieces, wires
  <2> QED
    BY <2>1, <2>5, <2>6 DEF a
<1> HIDE DEF pieces, wires
<1>6. PICK f : Flattens(f, pieces, Byte)
  BY <1>2, FlattenIs
<1>7. PICK w : Flattens(w, wires, Byte)
  BY <1>3, FlattenIs
<1>8. /\ f[0] = <<>> /\ w[0] = <<>>
      /\ FlattenSeq(pieces) = f[n] /\ FlattenSeq(wires) = w[n]
      /\ \A k \in 0 .. n : f[k] \in Seq(Byte) /\ w[k] \in Seq(Byte)
  BY <1>2, <1>3, <1>6, <1>7 DEF Flattens
<1>9. ASSUME NEW k \in 1 .. n
      PROVE  /\ Len(f[k]) = Len(f[k - 1]) + Len(pieces[k])
             /\ Len(w[k]) = Len(w[k - 1]) + Len(wires[k])
             /\ Len(f[k - 1]) \in Nat /\ Len(w[k - 1]) \in Nat
  <2>1. k - 1 \in 0 .. n
    BY <1>1
  <2>2. f[k - 1] \in Seq(Byte) /\ w[k - 1] \in Seq(Byte)
    BY <1>8, <2>1
  <2>3. f[k] = f[k - 1] \o pieces[k] /\ w[k] = w[k - 1] \o wires[k]
    BY <1>2, <1>3, <1>6, <1>7, Zenon DEF Flattens
  <2>4. pieces[k] \in Seq(Byte) /\ wires[k] \in Seq(Byte)
    BY <1>2, <1>3, ElementOfSeq
  <2> QED
    BY <2>2, <2>3, <2>4, ConcatProperties
<1> DEFINE S == {k \in 0 .. n : k # 0 => Len(w[k]) = Len(f[k]) + 1}
<1>10. ASSUME NEW k \in 1 .. n, k - 1 \in S PROVE k \in S
  <2> DEFINE a == Len(f[k - 1])
             b == Len(w[k - 1])
             l == Len(labels[k])
             c == Len(pieces[k])
             d == Len(wires[k])
  <2>1. /\ a \in Nat /\ b \in Nat /\ l \in Nat
        /\ Len(f[k]) = a + c /\ Len(w[k]) = b + d
        /\ c = (IF k = 1 THEN l ELSE l + 1) /\ d = l + 1
    BY <1>5, <1>9
  <2>2. IF k = 1 THEN a = 0 /\ b = 0 ELSE b = a + 1
    <3>1. CASE k = 1
      <4>1. k - 1 = 0
        BY <3>1
      <4> QED
        BY <1>8, <3>1, <4>1
    <3>2. CASE k # 1
      <4>1. k - 1 # 0
        BY <3>2
      <4> QED
        BY <1>10, <3>2, <4>1
    <3> QED
      BY <3>1, <3>2
  <2> HIDE DEF a, b, c, d, l
  <2>3. Len(w[k]) = Len(f[k]) + 1
    BY <2>1, <2>2
  <2> QED
    BY <1>1, <2>3
<1>11. Len(w[n]) = Len(f[n]) + 1
  <2>1. 0 \in S
    BY <1>1
  <2>2. 0 .. n \subseteq S
    <3> HIDE DEF S
    <3> QED
      BY <1>1, <1>10, <2>1, UpTo
  <2> QED
    BY <1>1, <2>2
<1>12. Len(WireName(labels)) = Len(w[n]) + 1
  <2>1. w[n] \in Seq(Byte)
    BY <1>1, <1>8
  <2>2. <<0>> \in Seq(Byte) /\ Len(<<0>>) = 1
    BY IsByte
  <2>3. Len(w[n] \o <<0>>) = Len(w[n]) + Len(<<0>>)
    BY <2>1, <2>2, ConcatProperties
  <2> QED
    BY <1>4, <1>8, <2>2, <2>3
<1>13. Len(Text(labels)) = Len(f[n]) /\ Len(f[n]) \in Nat
  BY <1>1, <1>4, <1>8
<1> QED
  BY <1>11, <1>12, <1>13

(* The frame of a query, behind 14 bytes of Ethernet header and 20 of IP   *)
(* header, fits the DNS_PKT_SIZE bytes dns_query has on its stack          *)
(* (protocols.hpp:132), into which it writes the hostname unchecked, for   *)
(* every hostname that RFC 1035 allows.                                    *)
QueryFits == Asked => 14 + 20 + Len(query.udp) <= 600

THEOREM QueriesFit == Spec => []QueryFits
<1>1. QueryInv => QueryFits
  <2> SUFFICES ASSUME NEW d \in Draws, query = Query(d)
               PROVE  14 + 20 + Len(query.udp) <= 600
    BY DEF QueryInv, QueryFits
  <2> DEFINE t == Len(Text(d.host))
  <2>1. d.host \in Names /\ IsName(d.host)
    BY PacketsAssumption, NamesAre
  <2>2. t <= 253 /\ t \in Nat
    BY <2>1, NamesAssumption, TextType
  <2>3. Len(query.udp) = (t + 2) + 24
    BY <2>1, QuestionPlaced, WireNameLength
  <2> HIDE DEF t
  <2> QED
    BY <2>2, <2>3
<1> QED
  BY <1>1, QueryInvariant, PTL

-----------------------------------------------------------------------------
(* DHCP options.                                                           *)

Option == [code : Byte \ {End}, data : Seq(Byte)]

IsReply(r) ==
  /\ r \in Seq(Option)
  /\ \A i \in 1 .. Len(r) : /\ Len(r[i].data) \in Byte
                            /\ r[i].code \in Wanted =>
                                 Len(r[i].data) >= Size(r[i].code)

LEMMA RepliesAre == ASSUME NEW r \in Replies PROVE IsReply(r)
<1>1. /\ r \in Seq(Option)
      /\ \A i \in DOMAIN r : /\ Len(r[i].data) \in Byte
                             /\ r[i].code \in Wanted =>
                                  Len(r[i].data) >= Size(r[i].code)
  BY RepliesAssumption DEF Option
<1>2. DOMAIN r = 1 .. Len(r)
  BY <1>1
<1> QED
  BY <1>1, <1>2 DEF IsReply

(* An option on the wire.                                                  *)
OptionIs(o) ==
  /\ o \in Option /\ Len(o.data) \in Byte
  /\ o.code \in Wanted => Len(o.data) >= Size(o.code)

LEMMA WireOptionIs ==
  ASSUME NEW o, OptionIs(o)
  PROVE  LET w == WireOption(o)
         IN  /\ w \in Seq(Byte) /\ Len(w) > 0 /\ w[1] = o.code
             /\ o.code = Pad => Len(w) = 1
             /\ o.code # Pad => /\ Len(w) = 2 + Len(o.data)
                                /\ w[2] = Len(o.data)
                                /\ \A j \in 1 .. Len(o.data) : w[2 + j] = o.data[j]
<1> DEFINE w == WireOption(o)
           h == <<o.code, Len(o.data)>>
           b == o.data
<1>1. o.code \in Byte /\ b \in Seq(Byte) /\ Len(b) \in Byte /\ Len(b) \in Nat
  BY DEF OptionIs, Option
<1>2. CASE o.code = Pad
  <2>1. w = <<Pad>>
    BY <1>2 DEF WireOption
  <2>2. Pad \in Byte
    BY IsByte DEF Pad
  <2>3. w \in Seq(Byte) /\ Len(w) = 1 /\ w[1] = Pad
    BY <2>1, <2>2
  <2> HIDE DEF w
  <2> QED
    BY <1>2, <2>3 DEF w
<1>3. CASE o.code # Pad
  <2>1. w = h \o b
    BY <1>3 DEF WireOption
  <2>2. h \in Seq(Byte) /\ Len(h) = 2 /\ h[1] = o.code /\ h[2] = Len(b)
    BY <1>1
  <2> HIDE DEF h, b
  <2>3. Joined(h, b, w)
    BY <1>1, <2>1, <2>2, ConcatJoins
  <2> HIDE DEF w
  <2>4. w \in Seq(Byte) /\ Len(w) = 2 + Len(b)
    BY <2>2, <2>3 DEF Joined
  <2>5. w[1] = o.code /\ w[2] = Len(b)
    BY <2>2, <2>3 DEF Joined
  <2>6. \A j \in 1 .. Len(b) : w[2 + j] = b[j]
    BY <2>2, <2>3 DEF Joined
  <2>7. Len(w) > 0
    BY <1>1, <2>4
  <2> QED
    BY <1>3, <2>4, <2>5, <2>6, <2>7 DEF w, b
<1> QED
  BY <1>2, <1>3

Wires(r) == [i \in DOMAIN r |-> WireOption(r[i])]

LEMMA WiresType ==
  ASSUME NEW r, IsReply(r)
  PROVE  /\ Wires(r) \in Seq(Seq(Byte)) /\ Len(Wires(r)) = Len(r)
         /\ \A i \in 1 .. Len(r) : OptionIs(r[i]) /\ Wires(r)[i] = WireOption(r[i])
<1> DEFINE n == Len(r)
           V == Seq(Byte)
           s == [i \in 1 .. n |-> WireOption(r[i])]
<1>1. r \in Seq(Option) /\ n \in Nat /\ DOMAIN r = 1 .. n
  BY DEF IsReply
<1>2. ASSUME NEW i \in 1 .. n PROVE OptionIs(r[i])
  <2>1. r[i] \in Option
    BY <1>1, ElementOfSeq
  <2> QED
    BY <2>1 DEF IsReply, OptionIs
<1>3. \A i \in 1 .. n : WireOption(r[i]) \in V
  BY <1>2, WireOptionIs
<1>4. \A i \in 1 .. n : s[i] = WireOption(r[i])
  OBVIOUS
<1>5. s \in Seq(V) /\ Len(s) = n
  <2> HIDE DEF n, V
  <2>1. s \in [1 .. n -> V]
    BY <1>3
  <2> HIDE DEF s
  <2> QED
    BY <1>1, <2>1
<1>6. s = Wires(r)
  BY <1>1 DEF Wires
<1> HIDE DEF s, n
<1> QED
  BY <1>2, <1>4, <1>5, <1>6 DEF n

(* What stands before an option is what is flattened before it.            *)
LEMMA OptionPrefix ==
  ASSUME NEW r, IsReply(r), NEW f, Flattens(f, Wires(r), Byte), NEW m \in 0 .. Len(r)
  PROVE  WireOptions(SubSeq(r, 1, m)) = f[m]
<1> DEFINE s == SubSeq(r, 1, m)
           n == Len(r)
<1>1. n \in Nat /\ m \in Nat /\ m <= n /\ r \in Seq(Option)
  BY DEF IsReply
<1>2. s \in Seq(Option) /\ Len(s) = m /\ \A i \in 1 .. m : s[i] = r[i]
  BY <1>1
<1>3. \A i \in 1 .. m : i \in 1 .. Len(r)
  BY <1>1
<1> HIDE DEF s
<1>4. IsReply(s)
  BY <1>2, <1>3 DEF IsReply
<1>5. /\ Wires(s) \in Seq(Seq(Byte)) /\ Len(Wires(s)) = m
      /\ \A i \in 1 .. m : Wires(s)[i] = Wires(r)[i]
  BY <1>2, <1>3, <1>4, WiresType
<1>6. PICK g : Flattens(g, Wires(s), Byte)
  BY <1>5, FlattenIs
<1>7. Len(Wires(r)) = n
  BY WiresType
<1> DEFINE S == {i \in 0 .. m : g[i] = f[i]}
<1>8. 0 \in S
  BY <1>1, <1>6 DEF Flattens
<1>9. ASSUME NEW i \in 1 .. m, i - 1 \in S PROVE i \in S
  <2>1. f[i] = f[i - 1] \o Wires(r)[i]
    <3>1. i \in 1 .. Len(Wires(r))
      BY <1>3, <1>7
    <3> QED
      BY <3>1, Zenon DEF Flattens
  <2>2. g[i] = g[i - 1] \o Wires(s)[i]
    <3>1. i \in 1 .. Len(Wires(s))
      BY <1>5
    <3> QED
      BY <1>6, <3>1, Zenon DEF Flattens
  <2>3. g[i - 1] = f[i - 1]
    BY <1>9
  <2>4. g[i] = f[i]
    BY <1>5, <2>1, <2>2, <2>3
  <2> QED
    BY <1>1, <2>4
<1>10. m \in S
  <2> HIDE DEF S
  <2>1. 0 .. m \subseteq S
    BY <1>1, <1>8, <1>9, UpTo
  <2> QED
    BY <1>1, <2>1
<1>11. WireOptions(s) = FlattenSeq(Wires(s))
  BY DEF WireOptions, Wires
<1>12. FlattenSeq(Wires(s)) = g[m]
  BY <1>5, <1>6 DEF Flattens
<1> QED
  BY <1>10, <1>11, <1>12 DEF s

(* The settings a scan may find.                                           *)
Nothing == [code \in {} |-> <<>>]

Settings == UNION {[D -> Seq(Byte)] : D \in SUBSET Wanted}

LEMMA NothingIsSettings == Nothing \in Settings
<1>1. Nothing \in [{} -> Seq(Byte)]
  BY DEF Nothing
<1>2. {} \in SUBSET Wanted
  OBVIOUS
<1> QED
  BY <1>1, <1>2 DEF Settings

LEMMA EffectType ==
  ASSUME rx_pkt \in Seq(Byte), NEW p \in Nat
  PROVE  Effect(p) \in Settings
<1> DEFINE D == {c \in Wanted : At(p) = c /\ At(p + 1) >= Size(c)}
           V == Seq(Byte)
<1>1. D \in SUBSET Wanted
  OBVIOUS
<1>2. ASSUME NEW c \in D PROVE [i \in 1 .. Size(c) |-> At(p + 1 + i)] \in V
  <2> DEFINE n == Size(c)
             s == [i \in 1 .. n |-> At(p + 1 + i)]
  <2>1. n \in Nat
    BY DEF Size
  <2> HIDE DEF n
  <2>2. \A i \in 1 .. n : At(p + 1 + i) \in Byte
    <3>1. \A i \in 1 .. n : p + 1 + i \in Nat
      BY <2>1
    <3> QED
      BY <3>1, AtType
  <2>3. s \in [1 .. n -> Byte]
    BY <2>2
  <2>4. s \in Seq(Byte)
    <3> HIDE DEF s
    <3> QED
      BY <2>1, <2>3
  <2> QED
    BY <2>4 DEF n
<1>3. Effect(p) = [c \in D |-> [i \in 1 .. Size(c) |-> At(p + 1 + i)]]
  BY DEF Effect
<1> HIDE DEF D, V
<1>4. Effect(p) \in [D -> V]
  BY <1>2, <1>3
<1> QED
  BY <1>1, <1>4 DEF Settings, V

LEMMA OverType ==
  ASSUME NEW g \in Settings, NEW h \in Settings
  PROVE  Over(g, h) \in Settings
<1> DEFINE V == Seq(Byte)
<1>1. PICK D \in SUBSET Wanted : g \in [D -> V]
  BY DEF Settings
<1>2. PICK E \in SUBSET Wanted : h \in [E -> V]
  BY DEF Settings
<1> HIDE DEF V
<1>3. Over(g, h) = [x \in D \cup E |-> IF x \in D THEN g[x] ELSE h[x]]
  BY <1>1, <1>2 DEF Over
<1>4. Over(g, h) \in [D \cup E -> V]
  BY <1>1, <1>2, <1>3
<1>5. D \cup E \in SUBSET Wanted
  BY <1>1, <1>2
<1> QED
  BY <1>4, <1>5 DEF Settings, V

(* The scan, from every place on.                                          *)
Scans(g) ==
  /\ g[0] = Scan
  /\ \A p \in Nat : g[p] = IF InScan(p) THEN Over(g[StepOver(p)], Effect(p))
                           ELSE Nothing

LEMMA ScanIs ==
  ASSUME rx_pkt \in Seq(Byte)
  PROVE  \E g : Scans(g)
<1> DEFINE F(g) == g = [p \in Nat |->
                          IF InScan(p) THEN Over(g[StepOver(p)], Effect(p))
                          ELSE Nothing]
           scan == CHOOSE g : F(g)
           V == Settings
           stop == {p \in Nat : ~ InScan(p)}
           base == [p \in Nat |-> Nothing]
           next == [p \in Nat |-> StepOver(p)]
           step == [p \in Nat |-> [v \in V |-> Over(v, Effect(p))]]
<1>1. MaxScan \in Nat
  BY PacketsAssumption
<1>2. base \in [Nat -> V]
  <2> HIDE DEF V
  <2>1. Nothing \in V
    BY NothingIsSettings DEF V
  <2> QED
    BY <2>1
<1>3. ASSUME NEW p \in Nat PROVE StepOver(p) \in Nat /\ p < StepOver(p)
  <2>1. At(p + 1) \in Nat
    <3>1. p + 1 \in Nat
      OBVIOUS
    <3> QED
      BY <3>1, AtType, BytesAreNaturals
  <2> QED
    BY <2>1 DEF StepOver
<1>4. next \in [Nat -> Nat]
  BY <1>3
<1>5. step \in [Nat -> [V -> V]]
  <2>1. ASSUME NEW p \in Nat, NEW v \in V PROVE Over(v, Effect(p)) \in V
    BY EffectType, OverType
  <2> HIDE DEF V
  <2> QED
    BY <2>1
<1>6. ASSUME NEW p \in Nat, p \notin stop PROVE p < next[p] /\ p < MaxScan
  BY <1>3, <1>6 DEF InScan
<1>7. PICK g : Walks(g, V, stop, base, next, step)
  <2> HIDE DEF V, base, next, step, stop
  <2> QED
    BY <1>1, <1>2, <1>4, <1>5, <1>6, Walk
<1>8. ASSUME NEW p \in Nat
      PROVE  g[p] = IF InScan(p) THEN Over(g[StepOver(p)], Effect(p)) ELSE Nothing
  <2>1. g[p] = IF p \in stop THEN base[p] ELSE step[p][g[next[p]]]
    BY <1>7, Zenon DEF Walks
  <2>2. p \in stop <=> ~ InScan(p)
    OBVIOUS
  <2>3. next[p] = StepOver(p) /\ base[p] = Nothing
    OBVIOUS
  <2>4. g[StepOver(p)] \in V
    <3> HIDE DEF V
    <3> QED
      BY <1>3, <1>7 DEF Walks
  <2>5. step[p][g[StepOver(p)]] = Over(g[StepOver(p)], Effect(p))
    <3> HIDE DEF V
    <3> QED
      BY <2>4
  <2> HIDE DEF stop, base, step, next
  <2> QED
    BY <2>1, <2>2, <2>3, <2>5
<1>9. F(g)
  <2> HIDE DEF V
  <2>1. g = [p \in Nat |-> g[p]]
    BY <1>7 DEF Walks
  <2> QED
    BY <1>8, <2>1
<1>10. F(scan)
  <2> HIDE DEF F
  <2> QED
    BY <1>9
<1>11. \A p \in Nat :
         scan[p] = IF InScan(p) THEN Over(scan[StepOver(p)], Effect(p)) ELSE Nothing
  <2> HIDE DEF scan
  <2> QED
    BY <1>10
<1>12. Scan = scan[0]
  BY DEF Scan, Nothing
<1> HIDE DEF scan
<1> QED
  BY <1>11, <1>12 DEF Scans

LEMMA Sizes ==
  /\ \A c : Size(c) \in Nat /\ Size(c) > 0
  /\ Wanted \subseteq Byte /\ Pad \notin Wanted /\ End \notin Wanted
<1>1. \A c : Size(c) \in Nat /\ Size(c) > 0
  BY DEF Size
<1>2. Wanted \subseteq Byte /\ Pad \notin Wanted /\ End \notin Wanted
  BY IsByte DEF Wanted, Pad, End
<1> QED
  BY <1>1, <1>2

(* What the scan makes of an option: its effect, and where the next one    *)
(* begins.                                                                 *)
Taken(o, p) ==
  /\ At(p) = o.code
  /\ StepOver(p) = p + Len(WireOption(o))
  /\ DOMAIN Effect(p) = {c \in Wanted : c = o.code}
  /\ \A c \in Wanted : c = o.code => Effect(p)[c] = SubSeq(o.data, 1, Size(c))

LEMMA OptionTaken ==
  ASSUME rx_pkt \in Seq(Byte), NEW o, OptionIs(o), NEW p \in Nat,
         Placed(WireOption(o), p, rx_pkt)
  PROVE  Taken(o, p)
<1> DEFINE w == WireOption(o)
           b == o.data
           n == Len(b)
<1>1. /\ w \in Seq(Byte) /\ Len(w) > 0 /\ w[1] = o.code
      /\ o.code = Pad => Len(w) = 1
      /\ o.code # Pad => /\ Len(w) = 2 + n
                         /\ w[2] = n
                         /\ \A j \in 1 .. n : w[2 + j] = b[j]
  BY WireOptionIs
<1>2. b \in Seq(Byte) /\ n \in Nat
  BY DEF OptionIs, Option
<1> HIDE DEF w
<1>3. Placed(w, p, rx_pkt)
  BY DEF w
<1>4. At(p) = o.code
  BY <1>1, <1>3, AtStart
<1>5. ASSUME o.code # Pad
      PROVE  /\ At(p + 1) = n
             /\ \A j \in 1 .. n : At(p + 1 + j) = b[j]
  <2>1. Len(w) = 2 + n
    BY <1>1, <1>5
  <2>2. ASSUME NEW j \in 1 .. n PROVE At(p + 1 + j) = b[j]
    <3> DEFINE i == 1 + j
    <3>1. i \in Nat /\ i < Len(w) /\ i + 1 = 2 + j /\ p + i = p + 1 + j
      BY <1>2, <2>1
    <3> HIDE DEF i
    <3>2. At(p + i) = w[i + 1]
      BY <1>1, <1>3, <3>1, AtPlaced
    <3>3. w[2 + j] = b[j]
      BY <1>1, <1>5
    <3> QED
      BY <3>1, <3>2, <3>3
  <2>3. At(p + 1) = n
    <3>1. 1 \in Nat /\ 1 < Len(w) /\ 1 + 1 = 2
      BY <1>2, <2>1
    <3>2. At(p + 1) = w[1 + 1]
      BY <1>1, <1>3, <3>1, AtPlaced
    <3> QED
      BY <1>1, <1>5, <3>1, <3>2
  <2> QED
    BY <2>2, <2>3
<1>6. StepOver(p) = p + Len(w)
  <2>1. CASE o.code = Pad
    BY <1>1, <1>4, <2>1 DEF StepOver
  <2>2. CASE o.code # Pad
    <3> HIDE DEF n
    <3>1. StepOver(p) = p + n + 2
      BY <1>4, <1>5, <2>2 DEF StepOver
    <3>2. Len(w) = 2 + n
      BY <1>1, <2>2
    <3> QED
      BY <1>2, <3>1, <3>2
  <2> QED
    BY <2>1, <2>2
<1> DEFINE D == {c \in Wanted : At(p) = c /\ At(p + 1) >= Size(c)}
<1>7. Effect(p) = [c \in D |-> [i \in 1 .. Size(c) |-> At(p + 1 + i)]]
  BY DEF Effect
<1>8. ASSUME NEW c \in Wanted, c = o.code
      PROVE  /\ c \in D
             /\ [i \in 1 .. Size(c) |-> At(p + 1 + i)] = SubSeq(b, 1, Size(c))
  <2> DEFINE m == Size(c)
             s == [i \in 1 .. m |-> At(p + 1 + i)]
             t == SubSeq(b, 1, m)
  <2>1. m \in Nat /\ m > 0 /\ c # Pad
    BY Sizes
  <2>2. n >= m
    BY <1>8 DEF OptionIs
  <2>3. c \in D
    BY <1>4, <1>5, <1>8, <2>1, <2>2
  <2> HIDE DEF m, D, n
  <2>4. \A i \in 1 .. m : At(p + 1 + i) = b[i]
    <3>1. \A i \in 1 .. m : i \in 1 .. n
      BY <1>2, <2>1, <2>2
    <3> QED
      BY <1>5, <1>8, <2>1, <3>1
  <2>5. /\ t \in Seq(Byte) /\ Len(t) = m
        /\ \A i \in 1 .. m : t[i] = b[i]
    BY <1>2, <2>1, <2>2 DEF n
  <2>6. t = [i \in 1 .. m |-> t[i]]
    <3> HIDE DEF t
    <3> QED
      BY <2>5
  <2> HIDE DEF t
  <2>7. s = t
    BY <2>4, <2>5, <2>6
  <2> QED
    BY <2>3, <2>7 DEF m, t
<1>9. D = {c \in Wanted : c = o.code}
  <2>1. \A c \in D : c \in Wanted /\ c = o.code
    BY <1>4
  <2>2. D \subseteq {c \in Wanted : c = o.code}
    BY <2>1
  <2>3. {c \in Wanted : c = o.code} \subseteq D
    <3> HIDE DEF D
    <3> QED
      BY <1>8
  <2> HIDE DEF D
  <2> QED
    BY <2>2, <2>3
<1> HIDE DEF D
<1>10. DOMAIN Effect(p) = {c \in Wanted : c = o.code}
  BY <1>7, <1>9
<1>11. ASSUME NEW c \in Wanted, c = o.code
       PROVE  Effect(p)[c] = SubSeq(o.data, 1, Size(c))
  <2>1. c \in D /\ [i \in 1 .. Size(c) |-> At(p + 1 + i)] = SubSeq(b, 1, Size(c))
    BY <1>8, <1>11
  <2>2. Effect(p)[c] = [i \in 1 .. Size(c) |-> At(p + 1 + i)]
    BY <1>7, <2>1
  <2> QED
    BY <2>1, <2>2
<1> QED
  BY <1>4, <1>6, <1>10, <1>11 DEF Taken, w

(* The options of a code behind the k-th one that begin within the scan,   *)
(* and settings that hold what the last of them says.                      *)
OffsetIn(r, k) == Len(WireOptions(SubSeq(r, 1, k - 1)))

Found(r, k, c) ==
  {i \in k + 1 .. Len(r) : r[i].code = c /\ OffsetIn(r, i) < MaxScan}

Means(g, r, k) ==
  /\ g = [c \in DOMAIN g |-> g[c]]
  /\ DOMAIN g = {c \in Wanted : Found(r, k, c) # {}}
  /\ \A c \in DOMAIN g :
       \E i \in Found(r, k, c) : /\ \A j \in Found(r, k, c) : j <= i
                                 /\ g[c] = SubSeq(r[i].data, 1, Size(c))

LEMMA NothingMeans ==
  ASSUME NEW r, NEW k, \A c \in Wanted : Found(r, k, c) = {}
  PROVE  Means(Nothing, r, k)
<1>1. DOMAIN Nothing = {} /\ Nothing = [c \in DOMAIN Nothing |-> Nothing[c]]
  BY DEF Nothing
<1> QED
  BY <1>1 DEF Means

(* One option more in front.                                               *)
LEMMA OptionMeans ==
  ASSUME NEW r, IsReply(r), NEW k \in 1 .. Len(r), NEW p \in Nat, Taken(r[k], p),
         OffsetIn(r, k) < MaxScan, NEW g, Means(g, r, k)
  PROVE  Means(Over(g, Effect(p)), r, k - 1)
<1> DEFINE n == Len(r)
           e == Effect(p)
           h == Over(g, e)
           code == r[k].code
<1>1. n \in Nat /\ k \in Nat /\ k <= n /\ k > 0
  BY DEF IsReply
<1>2. ASSUME NEW c
      PROVE  Found(r, k - 1, c) = Found(r, k, c) \cup {i \in {k} : code = c}
  <2>1. \A i : i \in (k - 1) + 1 .. n <=> (i = k \/ i \in k + 1 .. n)
    BY <1>1
  <2> QED
    BY <2>1 DEF Found
<1>3. \A c : \A i \in Found(r, k, c) : i \in Nat /\ k < i
  BY <1>1 DEF Found
<1>4. /\ DOMAIN e = {c \in Wanted : c = code}
      /\ \A c \in Wanted : c = code => e[c] = SubSeq(r[k].data, 1, Size(c))
  BY DEF Taken
<1> HIDE DEF e, code
<1>5. /\ h = [c \in DOMAIN h |-> h[c]]
      /\ DOMAIN h = DOMAIN g \cup DOMAIN e
      /\ \A c \in DOMAIN h : h[c] = IF c \in DOMAIN g THEN g[c] ELSE e[c]
  BY DEF Over
<1> HIDE DEF h
<1>6. DOMAIN h = {c \in Wanted : Found(r, k - 1, c) # {}}
  <2>1. DOMAIN g = {c \in Wanted : Found(r, k, c) # {}}
    BY DEF Means
  <2> QED
    BY <1>2, <1>4, <1>5, <2>1
<1>7. ASSUME NEW c \in DOMAIN h
      PROVE  \E i \in Found(r, k - 1, c) :
               /\ \A j \in Found(r, k - 1, c) : j <= i
               /\ h[c] = SubSeq(r[i].data, 1, Size(c))
  <2>1. CASE c \in DOMAIN g
    <3>1. PICK i \in Found(r, k, c) : /\ \A j \in Found(r, k, c) : j <= i
                                      /\ g[c] = SubSeq(r[i].data, 1, Size(c))
      BY <2>1 DEF Means
    <3>2. i \in Found(r, k - 1, c) /\ k <= i
      BY <1>1, <1>2, <1>3
    <3>3. \A j \in Found(r, k - 1, c) : j <= i
      BY <1>2, <3>1, <3>2
    <3>4. h[c] = SubSeq(r[i].data, 1, Size(c))
      BY <1>5, <2>1, <3>1
    <3> QED
      BY <3>2, <3>3, <3>4
  <2>2. CASE c \notin DOMAIN g
    <3>1. c \in Wanted /\ c = code
      BY <1>4, <1>5, <2>2
    <3>2. Found(r, k, c) = {}
      BY <2>2, <3>1 DEF Means
    <3>3. Found(r, k - 1, c) = {k}
      BY <1>2, <3>1, <3>2
    <3>4. h[c] = SubSeq(r[k].data, 1, Size(c))
      BY <1>4, <1>5, <2>2, <3>1
    <3>5. k \in Found(r, k - 1, c) /\ \A j \in Found(r, k - 1, c) : j <= k
      BY <1>1, <3>3
    <3> QED
      BY <3>4, <3>5
  <2> QED
    BY <2>1, <2>2
<1>8. Means(h, r, k - 1)
  BY <1>5, <1>6, <1>7 DEF Means
<1> QED
  BY <1>8 DEF h, e

LEMMA ScanMeans ==
  ASSUME NEW r, IsReply(r), rx_pkt = WireOptions(r) \o <<End>>
  PROVE  Means(Scan, r, 0)
<1> DEFINE n == Len(r)
           wires == Wires(r)
           flat == FlattenSeq(wires)
           end == <<End>>
<1>1. n \in Nat /\ MaxScan \in Nat
  BY PacketsAssumption DEF IsReply
<1>2. /\ wires \in Seq(Seq(Byte)) /\ Len(wires) = n
      /\ \A i \in 1 .. n : OptionIs(r[i]) /\ wires[i] = WireOption(r[i])
  BY WiresType
<1>3. WireOptions(r) = flat
  BY DEF WireOptions, Wires
<1> HIDE DEF wires
<1>4. flat \in Seq(Byte)
  BY <1>2, FlattenType
<1>5. PICK f : Flattens(f, wires, Byte)
  BY <1>2, FlattenIs
<1>6. f[0] = <<>> /\ flat = f[n]
  BY <1>2, <1>5 DEF Flattens
<1>7. end \in Seq(Byte) /\ end[1] = End /\ Len(end) = 1
  <2>1. End \in Byte
    BY IsByte DEF End
  <2> QED
    BY <2>1
<1> HIDE DEF flat, end
<1>8. rx_pkt = flat \o end
  BY <1>3 DEF end
<1>9. rx_pkt \in Seq(Byte)
  BY <1>4, <1>7, <1>8, ConcatProperties
<1>10. Placed(flat, 0, rx_pkt) /\ Placed(end, Len(flat), rx_pkt)
  <2>1. 0 \in Nat /\ 0 + Len(flat) = Len(flat)
    BY <1>4
  <2>2. Placed(flat \o end, 0, rx_pkt)
    BY <1>8, <1>9, PlacedWhole
  <2>3. Placed(flat, 0, rx_pkt) /\ Placed(end, 0 + Len(flat), rx_pkt)
    BY <1>4, <1>7, <1>9, <2>1, <2>2, PlacedPieces
  <2> QED
    BY <2>1, <2>3
<1> DEFINE off(k) == Len(f[k])
<1>11. ASSUME NEW k \in 1 .. n
       PROVE  /\ off(k - 1) \in Nat /\ off(k) > off(k - 1)
              /\ Placed(WireOption(r[k]), off(k - 1), rx_pkt)
              /\ off(k) = off(k - 1) + Len(WireOption(r[k]))
  <2>1. 0 \in Nat /\ k \in 1 .. Len(wires)
    BY <1>2
  <2>2. /\ Len(f[k]) = Len(f[k - 1]) + Len(wires[k])
        /\ Len(f[k - 1]) \in Nat /\ Len(wires[k]) \in Nat
        /\ Placed(wires[k], 0 + Len(f[k - 1]), rx_pkt)
    BY <1>2, <1>5, <1>9, <1>10, <2>1, FlattenPlaces DEF flat
  <2>3. Len(WireOption(r[k])) > 0
    BY <1>2, WireOptionIs
  <2>4. wires[k] = WireOption(r[k])
    BY <1>2
  <2>5. 0 + Len(f[k - 1]) = Len(f[k - 1])
    BY <2>2
  <2> DEFINE a == Len(f[k - 1])
             b == Len(wires[k])
             c == Len(f[k])
  <2>6. a \in Nat /\ b \in Nat /\ b > 0 /\ c = a + b
    BY <2>2, <2>3, <2>4
  <2> HIDE DEF a, b, c
  <2>7. c > a
    BY <2>6
  <2> QED
    BY <2>2, <2>4, <2>5, <2>7 DEF a, c
<1>12. \A k \in 0 .. n : off(k) \in Nat
  <2>1. \A k \in 0 .. n : f[k] \in Seq(Byte)
    BY <1>2, <1>5 DEF Flattens
  <2> QED
    BY <2>1
<1>13. ASSUME NEW k \in 1 .. n PROVE OffsetIn(r, k) = off(k - 1)
  <2>1. k - 1 \in 0 .. Len(r)
    BY <1>1
  <2>2. WireOptions(SubSeq(r, 1, k - 1)) = f[k - 1]
    BY <1>5, <2>1, OptionPrefix DEF wires
  <2> QED
    BY <2>2 DEF OffsetIn
(* Options further on begin further on.                                    *)
<1>14. ASSUME NEW k \in 1 .. n, NEW i \in k .. n PROVE off(k - 1) <= off(i - 1)
  <2> DEFINE S == {d \in 0 .. n - k : off(k - 1) <= off(k + d - 1)}
  <2>1. 0 \in S
    <3>1. k - 1 \in 0 .. n /\ k + 0 - 1 = k - 1 /\ 0 \in 0 .. n - k
      BY <1>1
    <3> HIDE DEF off
    <3>2. off(k - 1) \in Nat
      BY <1>12, <3>1
    <3> QED
      BY <3>1, <3>2
  <2>2. ASSUME NEW d \in 1 .. n - k, d - 1 \in S PROVE d \in S
    <3> DEFINE m == k + d - 1
    <3>1. m \in 1 .. n /\ k + (d - 1) - 1 = m - 1
      BY <1>1
    <3>2. off(m - 1) \in Nat /\ off(m) > off(m - 1)
      <4> HIDE DEF m, off
      <4> QED
        BY <1>11, <3>1
    <3>3. off(k - 1) <= off(m - 1)
      BY <2>2, <3>1
    <3>4. off(k - 1) \in Nat /\ off(m) \in Nat
      <4>1. k - 1 \in 0 .. n /\ m \in 0 .. n
        BY <1>1, <3>1
      <4> HIDE DEF m, off
      <4> QED
        BY <1>12, <4>1
    <3>5. off(k - 1) <= off(m)
      <4> HIDE DEF off, m
      <4> QED
        BY <3>2, <3>3, <3>4
    <3> QED
      BY <3>5
  <2>3. 0 .. n - k \subseteq S
    <3>1. n - k \in Nat
      BY <1>1
    <3> HIDE DEF S
    <3> QED
      BY <2>1, <2>2, <3>1, UpTo
  <2>4. i - k \in 0 .. n - k /\ k + (i - k) - 1 = i - 1
    BY <1>1
  <2> HIDE DEF off
  <2>5. off(k - 1) <= off(k + (i - k) - 1)
    BY <2>3, <2>4
  <2> QED
    BY <2>4, <2>5
<1>15. PICK g : Scans(g)
  BY <1>9, ScanIs
<1> DEFINE S == {i \in 0 .. n : Means(g[off(n - i)], r, n - i)}
<1>16. 0 \in S
  <2> DEFINE o == off(n)
  <2>1. o \in Nat /\ n - 0 = n
    BY <1>1, <1>12
  <2>2. At(o) = End
    <3>1. Placed(end, o, rx_pkt)
      BY <1>6, <1>10
    <3> HIDE DEF o
    <3> QED
      BY <1>7, <1>9, <2>1, <3>1, AtStart
  <2>3. g[o] = Nothing
    <3> HIDE DEF o
    <3> QED
      BY <1>15, <2>1, <2>2 DEF Scans, InScan
  <2>4. \A c \in Wanted : Found(r, n, c) = {}
    BY <1>1 DEF Found
  <2>5. Means(g[o], r, n)
    BY <2>3, <2>4, NothingMeans
  <2> QED
    BY <1>1, <2>1, <2>5
<1>17. ASSUME NEW i \in 1 .. n, i - 1 \in S PROVE i \in S
  <2> DEFINE k == n - i + 1
             p == off(k - 1)
             o == r[k]
  <2>1. k \in 1 .. n /\ k - 1 = n - i /\ n - (i - 1) = k
    BY <1>1
  <2>2. Means(g[off(k)], r, k)
    BY <1>17, <2>1
  <2> HIDE DEF k
  <2>3. /\ p \in Nat /\ Placed(WireOption(o), p, rx_pkt)
        /\ off(k) = p + Len(WireOption(o))
    BY <1>11, <2>1
  <2>4. OffsetIn(r, k) = p
    BY <1>13, <2>1
  <2>5. OptionIs(o)
    BY <1>2, <2>1
  <2>6. \A j \in k .. n : p <= off(j - 1)
    BY <1>14, <2>1
  <2>7. \A j \in k .. n : OffsetIn(r, j) = off(j - 1)
    <3>1. \A j \in k .. n : j \in 1 .. n
      BY <1>1, <2>1
    <3> QED
      BY <1>13, <3>1
  <2> HIDE DEF p, o, off
  <2>8. Taken(o, p)
    BY <1>9, <2>3, <2>5, OptionTaken
  <2>9. CASE p < MaxScan
    <3>1. At(p) # End
      <4>1. o.code # End
        BY <2>5 DEF OptionIs, Option
      <4> QED
        BY <2>8, <4>1 DEF Taken
    <3>2. g[p] = Over(g[StepOver(p)], Effect(p))
      BY <1>15, <2>3, <2>9, <3>1 DEF Scans, InScan
    <3>3. StepOver(p) = off(k)
      BY <2>3, <2>8 DEF Taken
    <3>4. k \in 1 .. Len(r) /\ OffsetIn(r, k) < MaxScan /\ Taken(r[k], p)
      BY <2>1, <2>4, <2>8, <2>9 DEF o
    <3>5. Means(Over(g[off(k)], Effect(p)), r, k - 1)
      <4> DEFINE v == g[off(k)]
      <4>1. Means(v, r, k)
        BY <2>2
      <4> HIDE DEF v
      <4>2. Means(Over(v, Effect(p)), r, k - 1)
        BY <2>3, <3>4, <4>1, OptionMeans
      <4> QED
        BY <4>2 DEF v
    <3>6. Means(g[p], r, k - 1)
      BY <3>2, <3>3, <3>5
    <3> QED
      BY <1>1, <2>1, <3>6 DEF p
  <2>10. CASE ~ (p < MaxScan)
    <3>1. g[p] = Nothing
      BY <1>15, <2>3, <2>10 DEF Scans, InScan
    <3>2. \A c \in Wanted : Found(r, k - 1, c) = {}
      <4> SUFFICES ASSUME NEW c \in Wanted, NEW j \in Found(r, k - 1, c)
                   PROVE  FALSE
        OBVIOUS
      <4>1. j \in k .. n /\ OffsetIn(r, j) < MaxScan
        BY <1>1, <2>1 DEF Found
      <4>2. p <= off(j - 1) /\ off(j - 1) < MaxScan
        BY <2>6, <2>7, <4>1
      <4>3. off(j - 1) \in Nat
        <5>1. j \in 1 .. n
          BY <1>1, <2>1, <4>1
        <5> QED
          BY <1>11, <5>1 DEF off
      <4> QED
        BY <1>1, <2>3, <2>10, <4>2, <4>3
    <3>3. Means(g[p], r, k - 1)
      BY <3>1, <3>2, NothingMeans
    <3> QED
      BY <1>1, <2>1, <3>3 DEF p
  <2> QED
    BY <2>9, <2>10
<1>18. Means(g[off(n - n)], r, n - n)
  <2> HIDE DEF S
  <2>1. 0 .. n \subseteq S
    BY <1>1, <1>16, <1>17, UpTo
  <2>2. n \in S
    BY <1>1, <2>1
  <2> QED
    BY <2>2 DEF S
<1>19. n - n = 0 /\ off(0) = 0
  BY <1>1, <1>6
<1> HIDE DEF off
<1> QED
  BY <1>15, <1>18, <1>19 DEF Scans

(* The settings of a well-formed option field.                             *)
SettingsOf(r) ==
  LET given(c) == {k \in DOMAIN r : r[k].code = c /\ OffsetIn(r, k) < MaxScan}
      last(c) == r[Max(given(c))]
  IN  [c \in {w \in Wanted : given(w) # {}} |->
         SubSeq(last(c).data, 1, Size(c))]

LEMMA MaxIs ==
  ASSUME NEW T, T \subseteq Nat, NEW i \in T, \A j \in T : j <= i
  PROVE  Max(T) = i
<1>1. \A j \in T : i >= j
  OBVIOUS
<1>2. Max(T) \in T /\ \A j \in T : Max(T) >= j
  BY <1>1 DEF Max
<1>3. Max(T) \in Nat /\ i \in Nat /\ Max(T) <= i /\ Max(T) >= i
  BY <1>2
<1> QED
  BY <1>3

LEMMA OptionsFound ==
  ASSUME NEW r, IsReply(r), rx_pkt = WireOptions(r) \o <<End>>
  PROVE  Scan = SettingsOf(r)
<1> DEFINE n == Len(r)
           given(c) == {k \in DOMAIN r : r[k].code = c /\ OffsetIn(r, k) < MaxScan}
           D == {w \in Wanted : given(w) # {}}
           value(c) == SubSeq(r[Max(given(c))].data, 1, Size(c))
<1>1. Means(Scan, r, 0)
  BY ScanMeans
<1>2. \A c : given(c) = Found(r, 0, c) /\ given(c) \subseteq Nat
  <2>1. DOMAIN r = 0 + 1 .. Len(r) /\ Len(r) \in Nat
    BY DEF IsReply
  <2> QED
    BY <2>1 DEF Found
<1> HIDE DEF given
<1>3. DOMAIN Scan = D
  BY <1>1, <1>2 DEF Means
<1>4. ASSUME NEW c \in D PROVE Scan[c] = value(c)
  <2>1. PICK i \in given(c) : /\ \A j \in given(c) : j <= i
                              /\ Scan[c] = SubSeq(r[i].data, 1, Size(c))
    BY <1>1, <1>2, <1>3 DEF Means
  <2>2. Max(given(c)) = i
    BY <1>2, <2>1, MaxIs
  <2> QED
    BY <2>1, <2>2
<1>5. Scan = [c \in DOMAIN Scan |-> Scan[c]]
  BY <1>1 DEF Means
<1> HIDE DEF D, value
<1>6. Scan = [c \in D |-> value(c)]
  BY <1>3, <1>4, <1>5
<1>7. SettingsOf(r) = [c \in D |-> value(c)]
  BY DEF SettingsOf, D, value, given
<1> QED
  BY <1>6, <1>7

OptionInv ==
  /\ stage \in {"offered", "scanned"} =>
       answers \in Replies /\ rx_pkt = WireOptions(answers) \o <<End>>
  /\ stage = "scanned" => outcome = SettingsOf(answers)

LEMMA OptionInvariant == Spec => []OptionInv
<1>1. Init => OptionInv
  BY DEF Init, OptionInv
<1>2. OptionInv /\ [Next]_vars => OptionInv'
  <2> SUFFICES ASSUME OptionInv, [Next]_vars PROVE OptionInv'
    OBVIOUS
  <2>1. CASE DnsQuery
    BY <2>1 DEF DnsQuery, OptionInv
  <2>2. CASE DnsServer
    BY <2>2 DEF DnsServer, OptionInv
  <2>3. CASE HandleDns
    BY <2>3 DEF HandleDns, OptionInv
  <2>4. CASE DhcpServer
    BY <2>4 DEF DhcpServer, OptionInv
  <2>5. CASE ScanOptions
    <3>1. /\ stage = "offered" /\ stage' = "scanned" /\ outcome' = Scan
          /\ answers' = answers /\ rx_pkt' = rx_pkt
      BY <2>5 DEF ScanOptions
    <3>2. answers \in Replies /\ rx_pkt = WireOptions(answers) \o <<End>>
      BY <3>1 DEF OptionInv
    <3>3. outcome' = SettingsOf(answers)
      BY <3>1, <3>2, RepliesAre, OptionsFound
    <3>4. outcome' = SettingsOf(answers')
      BY <3>1, <3>3
    <3> QED
      BY <3>1, <3>2, <3>4 DEF OptionInv
  <2>6. CASE UNCHANGED vars
    BY <2>6 DEF vars, OptionInv
  <2> QED
    BY <2>1, <2>2, <2>3, <2>4, <2>5, <2>6 DEF Next
<1> QED
  BY <1>1, <1>2, PTL DEF Spec

(* For option fields of any length, the scan of init_network               *)
(* (api.hpp:131-159) finds what each wanted option says, the last one if   *)
(* there are several, and nothing that is not an option: it is at the      *)
(* beginning of each option, padding and unknown ones included, and ends   *)
(* at END or at DHCP_OPT_MAX_SCAN, whichever comes first.                  *)
THEOREM OptionsAreUnderstood == Spec => []OptionsUnderstood
<1>1. OptionInv => OptionsUnderstood
  BY DEF OptionInv, OptionsUnderstood, SettingsOf, OffsetIn, Offset
<1> QED
  BY <1>1, OptionInvariant, PTL

=============================================================================
