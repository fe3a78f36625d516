------------------------- MODULE BillingFlow_proofs -------------------------
(***************************************************************************)
(* Proofs about the worker, what is shown of its statements, and the way   *)
(* from the form to them.                                                  *)
(*                                                                         *)
(* Of the worker: its types, the order credits are spent in (InOrder), and *)
(* that its loops have added up the first so many items (Sums), from which *)
(* a statement's parts add up and its roundings stay small.  Sums of       *)
(* sequences are compared by induction on how many items are summed.       *)
(*                                                                         *)
(* Of the PDF: what each section finds on the page (Layout).               *)
(*                                                                         *)
(* Of the flow: whatever the form keeps (Kept) is a request the worker     *)
(* answers, so that all of this holds of the bills of its users.           *)
(***************************************************************************)
EXTENDS BillingFlow, FiniteSetTheorems, SequenceTheorems, TLAPS

------------------------------------------------------------------------------
(* Sums.                                                                     *)

\* A number that is not in T would make the successor an injection of the smaller
\* ones in T, which are finitely many, into themselves that misses 0.
LEMMA SetInduction ==
    ASSUME NEW T, 0 \in T, \A n \in Nat : n \in T => n + 1 \in T
    PROVE  \A n \in Nat : n \in T
<1> SUFFICES ASSUME NEW n \in Nat, n \notin T PROVE FALSE
    OBVIOUS
<1> DEFINE S == {k \in 0 .. n : k \in T}
           f == [k \in S |-> k + 1]
<1>1. IsFiniteSet(S)
    <2>1. IsFiniteSet(0 .. n)
        BY FS_Interval
    <2> QED BY <2>1, FS_Subset
<1>2. f \in Injection(S, S)
    <2>1. \A k \in S : k \in Nat /\ k + 1 \in S
        OBVIOUS
    <2> HIDE DEF S
    <2> QED BY <2>1 DEF Injection, IsInjective
<1>3. f \in Surjection(S, S)
    <2> HIDE DEF f, S
    <2> QED BY <1>1, <1>2, FS_Injection
<1>4. 0 \in S
    OBVIOUS
<1>5. \A k \in S : f[k] # 0
    OBVIOUS
<1> HIDE DEF f, S
<1> QED BY <1>3, <1>4, <1>5 DEF Surjection

LEMMA ItemsOf ==
    ASSUME NEW S, NEW s \in Seq(S)
    PROVE  Len(s) \in Nat /\ \A i \in 1 .. Len(s) : s[i] \in S
    BY LenProperties, ElementOfSeq

\* The first items of a sequence, and one more.
LEMMA FirstItems ==
    ASSUME NEW S, NEW s \in Seq(S)
    PROVE  /\ SubSeq(s, 1, 0) = <<>> /\ SubSeq(s, 1, Len(s)) = s
           /\ \A n \in 0 .. Len(s) - 1 : SubSeq(s, 1, n + 1) = Append(SubSeq(s, 1, n), s[n + 1])
<1>1. SubSeq(s, 1, 0) = <<>> /\ SubSeq(s, 1, Len(s)) = s
    BY SubSeqEmpty, SubSeqFull
<1>2. ASSUME NEW n \in 0 .. Len(s) - 1
      PROVE  SubSeq(s, 1, n + 1) = Append(SubSeq(s, 1, n), s[n + 1])
    <2>1. /\ Len(s) \in Nat /\ n \in Nat /\ 1 \in 1 .. Len(s) /\ n + 1 \in 1 .. Len(s)
          /\ \A i \in 1 .. n : s[i] \in S
        BY ItemsOf
    <2>2. SubSeq(s, 1, n + 1) = SubSeq(s, 1, n + 1 - 1) \o <<s[n + 1]>>
        BY <2>1, SubSeqRecursiveSecond
    <2>3. n + 1 - 1 = n /\ SubSeq(s, 1, n) \in Seq(S) /\ s[n + 1] \in S
        BY <2>1, ItemsOf, SubSeqProperties
    <2>4. Append(SubSeq(s, 1, n), s[n + 1]) = SubSeq(s, 1, n) \o <<s[n + 1]>>
        BY <2>3, AppendIsConcat
    <2> QED BY <2>2, <2>3, <2>4
<1> QED BY <1>1, <1>2

\* The sums of the first items of s, up to its n-th.
SumsTo(g, s, n) == g = [i \in 0 .. n |-> IF i = 0 THEN 0 ELSE g[i - 1] + s[i]]

LEMMA SumsExist ==
    ASSUME NEW s \in Seq(Int)
    PROVE  \A n \in 0 .. Len(s) : \E g \in [0 .. n -> Int] : SumsTo(g, s, n)
<1> DEFINE T == {n \in Nat : n <= Len(s) => \E g \in [0 .. n -> Int] : SumsTo(g, s, n)}
<1>0. Len(s) \in Nat /\ \A i \in 1 .. Len(s) : s[i] \in Int
    BY LenProperties, ElementOfSeq
<1>1. 0 \in T
    <2> DEFINE g == [i \in 0 .. 0 |-> 0]
    <2>1. g \in [0 .. 0 -> Int] /\ SumsTo(g, s, 0)
        BY DEF SumsTo
    <2> QED BY <2>1
<1>2. ASSUME NEW n \in Nat, n \in T PROVE n + 1 \in T
    <2> SUFFICES ASSUME n + 1 <= Len(s) PROVE \E g \in [0 .. n + 1 -> Int] : SumsTo(g, s, n + 1)
        OBVIOUS
    <2>1. PICK g \in [0 .. n -> Int] : SumsTo(g, s, n)
        BY <1>0, <1>2
    <2> DEFINE h == [i \in 0 .. n + 1 |-> IF i = n + 1 THEN g[n] + s[n + 1] ELSE g[i]]
    <2>2. s[n + 1] \in Int /\ g[n] \in Int
        BY <1>0
    <2>3. h \in [0 .. n + 1 -> Int]
        BY <2>2
    <2>4. ASSUME NEW i \in 0 .. n + 1
          PROVE  h[i] = IF i = 0 THEN 0 ELSE h[i - 1] + s[i]
        <3>1. CASE i = n + 1
            <4>1. h[i] = g[n] + s[i] /\ i # 0 /\ i - 1 = n /\ h[n] = g[n]
                BY <3>1
            <4> QED BY <4>1
        <3>2. CASE i # n + 1
            <4>1. i \in 0 .. n /\ h[i] = g[i]
                BY <3>2
            <4>2. g[i] = IF i = 0 THEN 0 ELSE g[i - 1] + s[i]
                BY <2>1, <4>1 DEF SumsTo
            <4>3. i # 0 => i - 1 \in 0 .. n /\ h[i - 1] = g[i - 1]
                BY <4>1
            <4> QED BY <4>1, <4>2, <4>3
        <3> QED BY <3>1, <3>2
    <2> HIDE DEF h
    <2>5. SumsTo(h, s, n + 1)
        BY <2>3, <2>4 DEF SumsTo
    <2> QED BY <2>3, <2>5
<1>3. \A n \in Nat : n \in T
    <2> HIDE DEF T
    <2> QED BY <1>1, <1>2, SetInduction
<1> QED BY <1>0, <1>3

\* They depend on no other items.
LEMMA SumsAgree ==
    ASSUME NEW s, NEW t, NEW n \in Nat, NEW m \in Nat, NEW g, NEW h, n <= m,
           SumsTo(g, s, n), SumsTo(h, t, m), \A i \in 1 .. n : s[i] = t[i]
    PROVE  g[n] = h[n]
<1> DEFINE T == {i \in Nat : i <= n => g[i] = h[i]}
<1>1. 0 \in T
    BY DEF SumsTo
<1>2. ASSUME NEW i \in Nat, i \in T PROVE i + 1 \in T
    <2> SUFFICES ASSUME i + 1 <= n PROVE g[i + 1] = h[i + 1]
        OBVIOUS
    <2>1. /\ g[i + 1] = g[i + 1 - 1] + s[i + 1]
          /\ h[i + 1] = h[i + 1 - 1] + t[i + 1]
        BY DEF SumsTo
    <2>2. i + 1 - 1 = i /\ i + 1 \in 1 .. n /\ g[i] = h[i]
        BY <1>2
    <2> QED BY <2>1, <2>2
<1>3. \A i \in Nat : i \in T
    <2> HIDE DEF T
    <2> QED BY <1>1, <1>2, SetInduction
<1> QED BY <1>3

\* The sum of a sequence is the last of them.
LEMMA SumIsLast ==
    ASSUME NEW s \in Seq(Int)
    PROVE  \E g \in [0 .. Len(s) -> Int] : SumsTo(g, s, Len(s)) /\ SumOf(s) = g[Len(s)]
<1> DEFINE c == CHOOSE g : SumsTo(g, s, Len(s))
<1>1. SumOf(s) = c[Len(s)]
    BY DEF SumOf, SumsTo
<1>2. Len(s) \in 0 .. Len(s)
    BY LenProperties
<1>3. PICK g \in [0 .. Len(s) -> Int] : SumsTo(g, s, Len(s))
    BY <1>2, SumsExist
<1>4. SumsTo(c, s, Len(s))
    BY <1>3
<1> HIDE DEF c
<1>5. c[Len(s)] = g[Len(s)]
    BY <1>2, <1>3, <1>4, SumsAgree
<1> QED BY <1>1, <1>3, <1>5

LEMMA SumType == ASSUME NEW s \in Seq(Int) PROVE SumOf(s) \in Int
<1>1. Len(s) \in 0 .. Len(s)
    BY LenProperties
<1> QED BY <1>1, SumIsLast

LEMMA SumEmpty == SumOf(<<>>) = 0
<1>1. <<>> \in Seq(Int) /\ Len(<<>>) = 0
    BY EmptySeq
<1>2. PICK g \in [0 .. 0 -> Int] : SumsTo(g, <<>>, 0) /\ SumOf(<<>>) = g[0]
    BY <1>1, SumIsLast
<1> QED BY <1>2 DEF SumsTo

LEMMA SumAppend ==
    ASSUME NEW s \in Seq(Int), NEW x \in Int
    PROVE  SumOf(Append(s, x)) = SumOf(s) + x
<1> DEFINE t == Append(s, x)
           n == Len(s)
<1>1. /\ t \in Seq(Int) /\ Len(t) = n + 1 /\ t[n + 1] = x /\ n \in Nat
      /\ \A i \in 1 .. n : t[i] = s[i]
    BY AppendProperties, LenProperties
<1> HIDE DEF t, n
<1>2. PICK g \in [0 .. n -> Int] : SumsTo(g, s, n) /\ SumOf(s) = g[n]
    BY SumIsLast DEF n
<1>3. PICK h \in [0 .. n + 1 -> Int] : SumsTo(h, t, n + 1) /\ SumOf(t) = h[n + 1]
    BY <1>1, SumIsLast
<1>4. g[n] = h[n]
    <2>1. n \in Nat /\ n + 1 \in Nat /\ n <= n /\ n <= n + 1 /\ \A i \in 1 .. n : s[i] = t[i]
        BY <1>1
    <2>2. ASSUME NEW f, NEW u, NEW k, NEW m \in Nat, n <= m, SumsTo(f, s, n), SumsTo(k, u, m),
                 \A i \in 1 .. n : s[i] = u[i]
          PROVE  f[n] = k[n]
        BY SMTT(30), <2>1, <2>2, SumsAgree
    <2> QED BY <1>2, <1>3, <2>1, <2>2
<1>5. h[n + 1] = h[n] + x
    <2>1. h[n + 1] = h[n + 1 - 1] + t[n + 1]
        BY <1>1, <1>3 DEF SumsTo
    <2> QED BY <1>1, <2>1
<1> QED BY <1>2, <1>3, <1>4, <1>5 DEF t

\* The sum of its first n items.
First(s, n) == SumOf(SubSeq(s, 1, n))

LEMMA FirstSums ==
    ASSUME NEW s \in Seq(Int)
    PROVE  /\ First(s, 0) = 0 /\ First(s, Len(s)) = SumOf(s)
           /\ \A n \in 0 .. Len(s) : First(s, n) \in Int
           /\ \A n \in 0 .. Len(s) - 1 : First(s, n + 1) = First(s, n) + s[n + 1]
<1>1. /\ SubSeq(s, 1, 0) = <<>> /\ SubSeq(s, 1, Len(s)) = s
      /\ \A n \in 0 .. Len(s) - 1 : SubSeq(s, 1, n + 1) = Append(SubSeq(s, 1, n), s[n + 1])
    BY FirstItems
<1>2. Len(s) \in Nat /\ \A i \in 1 .. Len(s) : s[i] \in Int
    BY ItemsOf
<1>3. ASSUME NEW n \in 0 .. Len(s) PROVE SubSeq(s, 1, n) \in Seq(Int)
    <2>1. 1 \in Int /\ n \in Int /\ \A i \in 1 .. n : s[i] \in Int
        BY <1>2
    <2> QED BY <2>1, SubSeqProperties
<1>4. ASSUME NEW n \in 0 .. Len(s) - 1 PROVE First(s, n + 1) = First(s, n) + s[n + 1]
    <2>1. SubSeq(s, 1, n) \in Seq(Int) /\ s[n + 1] \in Int
        BY <1>2, <1>3
    <2>2. SubSeq(s, 1, n + 1) = Append(SubSeq(s, 1, n), s[n + 1])
        BY <1>1
    <2> QED BY <2>1, <2>2, SumAppend DEF First
<1>5. First(s, 0) = 0 /\ First(s, Len(s)) = SumOf(s)
    BY <1>1, SumEmpty DEF First
<1>6. \A n \in 0 .. Len(s) : First(s, n) \in Int
    BY <1>3, SumType DEF First
<1> QED BY <1>4, <1>5, <1>6

\* Of two sequences the first of which is a hundred times the second but for what
\* a third says.
LEMMA SumsClose ==
    ASSUME NEW s \in Seq(Int), NEW t \in Seq(Int), NEW d \in Seq(Int),
           Len(t) = Len(s), Len(d) = Len(s),
           \A i \in 1 .. Len(s) : s[i] - 100 * t[i] <= d[i] /\ 100 * t[i] - s[i] <= d[i]
    PROVE  /\ SumOf(s) - 100 * SumOf(t) <= SumOf(d)
           /\ 100 * SumOf(t) - SumOf(s) <= SumOf(d)
<1> DEFINE T == {n \in Nat : n <= Len(s) => /\ First(s, n) - 100 * First(t, n) <= First(d, n)
                                            /\ 100 * First(t, n) - First(s, n) <= First(d, n)}
<1>0. Len(s) \in Nat
    BY ItemsOf
<1>1. 0 \in T
    BY FirstSums
<1>2. ASSUME NEW n \in Nat, n \in T PROVE n + 1 \in T
    <2> SUFFICES ASSUME n + 1 <= Len(s)
                 PROVE  /\ First(s, n + 1) - 100 * First(t, n + 1) <= First(d, n + 1)
                        /\ 100 * First(t, n + 1) - First(s, n + 1) <= First(d, n + 1)
        OBVIOUS
    <2>1. n \in 0 .. Len(s) - 1 /\ n \in 0 .. Len(s) /\ n + 1 \in 1 .. Len(s)
        BY <1>0
    <2>2. s[n + 1] \in Int /\ t[n + 1] \in Int /\ d[n + 1] \in Int
        BY <2>1, ElementOfSeq
    <2>3. First(s, n) \in Int /\ First(t, n) \in Int /\ First(d, n) \in Int
        BY <2>1, FirstSums
    <2>4. /\ First(s, n + 1) = First(s, n) + s[n + 1]
          /\ First(t, n + 1) = First(t, n) + t[n + 1]
          /\ First(d, n + 1) = First(d, n) + d[n + 1]
        BY <2>1, FirstSums
    <2>5. /\ First(s, n) - 100 * First(t, n) <= First(d, n)
          /\ 100 * First(t, n) - First(s, n) <= First(d, n)
        BY <1>0, <1>2
    <2>6. s[n + 1] - 100 * t[n + 1] <= d[n + 1] /\ 100 * t[n + 1] - s[n + 1] <= d[n + 1]
        BY <2>1
    <2> DEFINE a == First(s, n)
               b == First(t, n)
               c == First(d, n)
               p == s[n + 1]
               q == t[n + 1]
               r == d[n + 1]
    <2>7. /\ a \in Int /\ b \in Int /\ c \in Int /\ p \in Int /\ q \in Int /\ r \in Int
          /\ a - 100 * b <= c /\ 100 * b - a <= c /\ p - 100 * q <= r /\ 100 * q - p <= r
        BY <2>2, <2>3, <2>5, <2>6
    <2>8. First(s, n + 1) = a + p /\ First(t, n + 1) = b + q /\ First(d, n + 1) = c + r
        BY <2>4
    <2> HIDE DEF a, b, c, p, q, r
    <2>9. (a + p) - 100 * (b + q) <= c + r /\ 100 * (b + q) - (a + p) <= c + r
        BY <2>7
    <2> QED BY <2>8, <2>9
<1>3. \A n \in Nat : n \in T
    <2> HIDE DEF T
    <2> QED BY <1>1, <1>2, SetInduction
<1>4. Len(s) \in T /\ Len(s) <= Len(s)
    BY <1>0, <1>3
<1> QED BY <1>4, FirstSums

\* Of one that is linear in another.
LEMMA SumLinear ==
    ASSUME NEW s \in Seq(Int), NEW d \in Seq(Int), Len(d) = Len(s), NEW a \in Int, NEW b \in Int,
           \A i \in 1 .. Len(s) : d[i] = a + b * s[i]
    PROVE  SumOf(d) = a * Len(s) + b * SumOf(s)
<1> DEFINE T == {n \in Nat : n <= Len(s) => First(d, n) = a * n + b * First(s, n)}
<1>0. Len(s) \in Nat
    BY ItemsOf
<1>1. 0 \in T
    <2>1. First(d, 0) = 0 /\ First(s, 0) = 0 /\ a * 0 = 0 /\ b * 0 = 0
        BY FirstSums
    <2> QED BY <2>1
<1>2. ASSUME NEW n \in Nat, n \in T PROVE n + 1 \in T
    <2> SUFFICES ASSUME n + 1 <= Len(s) PROVE First(d, n + 1) = a * (n + 1) + b * First(s, n + 1)
        OBVIOUS
    <2>1. n \in 0 .. Len(s) - 1 /\ n \in 0 .. Len(s) /\ n + 1 \in 1 .. Len(s)
        BY <1>0
    <2>2. First(s, n) \in Int /\ s[n + 1] \in Int
        BY <2>1, FirstSums, ElementOfSeq
    <2>3. First(s, n + 1) = First(s, n) + s[n + 1] /\ First(d, n + 1) = First(d, n) + d[n + 1]
        BY <2>1, FirstSums
    <2>4. First(d, n) = a * n + b * First(s, n)
        BY <1>0, <1>2
    <2>5. d[n + 1] = a + b * s[n + 1]
        BY <2>1
    <2> DEFINE f == First(s, n)
               x == s[n + 1]
    <2>6. First(s, n + 1) = f + x /\ First(d, n + 1) = (a * n + b * f) + (a + b * x)
        BY <2>3, <2>4, <2>5
    <2> HIDE DEF f, x
    <2>7. f \in Int /\ x \in Int
        BY <2>2 DEF f, x
    <2>8. (a * n + b * f) + (a + b * x) = a * (n + 1) + b * (f + x)
        <3>1. a * (n + 1) = a * n + a /\ b * (f + x) = b * f + b * x
            BY <2>7
        <3>2. a * n \in Int /\ b * f \in Int /\ b * x \in Int
            BY <2>7
        <3> QED BY <3>1, <3>2
    <2> QED BY <2>6, <2>8
<1>3. \A n \in Nat : n \in T
    <2> HIDE DEF T
    <2> QED BY <1>1, <1>2, SetInduction
<1>4. Len(s) \in T /\ Len(s) <= Len(s)
    BY <1>0, <1>3
<1> QED BY <1>4, FirstSums

\* Of one that is longer than another, of no less each and nothing negative.
LEMMA SumAtMost ==
    ASSUME NEW s \in Seq(Int), NEW t \in Seq(Int), Len(t) <= Len(s),
           \A i \in 1 .. Len(t) : t[i] <= s[i], \A i \in 1 .. Len(s) : s[i] >= 0
    PROVE  SumOf(t) <= SumOf(s)
<1> DEFINE part(n) == IF n <= Len(t) THEN n ELSE Len(t)
           T == {n \in Nat : n <= Len(s) => First(t, part(n)) <= First(s, n)}
<1>0. Len(s) \in Nat /\ Len(t) \in Nat
    BY ItemsOf
<1>1. 0 \in T
    <2>1. part(0) = 0
        BY <1>0
    <2> QED BY <2>1, FirstSums
<1>2. ASSUME NEW n \in Nat, n \in T PROVE n + 1 \in T
    <2> SUFFICES ASSUME n + 1 <= Len(s) PROVE First(t, part(n + 1)) <= First(s, n + 1)
        OBVIOUS
    <2>1. n \in 0 .. Len(s) - 1 /\ n \in 0 .. Len(s) /\ n + 1 \in 1 .. Len(s)
        BY <1>0
    <2>2. First(s, n) \in Int /\ s[n + 1] \in Int /\ s[n + 1] >= 0 /\ First(s, n + 1) = First(s, n) + s[n + 1]
        BY <2>1, FirstSums, ElementOfSeq
    <2>3. First(t, part(n)) <= First(s, n)
        BY <1>0, <1>2
    <2>4. CASE n + 1 <= Len(t)
        <3>1. n \in 0 .. Len(t) - 1 /\ n \in 0 .. Len(t) /\ n + 1 \in 1 .. Len(t) /\ part(n) = n /\ part(n + 1) = n + 1
            BY <1>0, <2>4
        <3>2. First(t, n) \in Int /\ t[n + 1] \in Int /\ First(t, n + 1) = First(t, n) + t[n + 1]
            BY <3>1, FirstSums, ElementOfSeq
        <3>3. t[n + 1] <= s[n + 1]
            BY <3>1
        <3> QED BY <2>2, <2>3, <3>1, <3>2, <3>3
    <2>5. CASE ~(n + 1 <= Len(t))
        <3>1. part(n + 1) = Len(t) /\ part(n) = Len(t) /\ Len(t) \in 0 .. Len(t)
            BY <1>0, <2>5
        <3>2. First(t, Len(t)) \in Int
            BY <3>1, FirstSums
        <3> QED BY <2>2, <2>3, <3>1, <3>2
    <2> QED BY <2>4, <2>5
<1>3. \A n \in Nat : n \in T
    <2> HIDE DEF T
    <2> QED BY <1>1, <1>2, SetInduction
<1>4. Len(s) \in T /\ Len(s) <= Len(s) /\ part(Len(s)) = Len(t)
    BY <1>0, <1>3
<1> QED BY <1>4, FirstSums

\* Of two that are the same, or the one the negative of the other.
LEMMA SumsEqual ==
    ASSUME NEW s \in Seq(Int), NEW t \in Seq(Int), NEW k \in Nat, k <= Len(s), k <= Len(t),
           \A i \in 1 .. k : s[i] = t[i]
    PROVE  First(s, k) = First(t, k)
<1> DEFINE T == {n \in Nat : n <= k => First(s, n) = First(t, n)}
<1>0. Len(s) \in Nat /\ Len(t) \in Nat
    BY ItemsOf
<1>1. 0 \in T
    BY FirstSums
<1>2. ASSUME NEW n \in Nat, n \in T PROVE n + 1 \in T
    <2> SUFFICES ASSUME n + 1 <= k PROVE First(s, n + 1) = First(t, n + 1)
        OBVIOUS
    <2>1. n \in 0 .. Len(s) - 1 /\ n \in 0 .. Len(t) - 1 /\ n + 1 \in 1 .. k /\ First(s, n) = First(t, n)
        BY <1>0, <1>2
    <2>2. First(s, n + 1) = First(s, n) + s[n + 1] /\ First(t, n + 1) = First(t, n) + t[n + 1]
        BY <2>1, FirstSums
    <2> QED BY <2>1, <2>2
<1>3. \A n \in Nat : n \in T
    <2> HIDE DEF T
    <2> QED BY <1>1, <1>2, SetInduction
<1>4. k \in T /\ k <= k
    BY <1>3
<1> QED BY <1>4

LEMMA SumsOpposite ==
    ASSUME NEW s \in Seq(Int), NEW t \in Seq(Int), Len(s) = Len(t), \A i \in 1 .. Len(s) : t[i] = -s[i]
    PROVE  SumOf(t) = -SumOf(s)
<1> DEFINE T == {n \in Nat : n <= Len(s) => First(t, n) = -First(s, n)}
<1>0. Len(s) \in Nat
    BY ItemsOf
<1>1. 0 \in T
    BY FirstSums
<1>2. ASSUME NEW n \in Nat, n \in T PROVE n + 1 \in T
    <2> SUFFICES ASSUME n + 1 <= Len(s) PROVE First(t, n + 1) = -First(s, n + 1)
        OBVIOUS
    <2>1. n \in 0 .. Len(s) - 1 /\ n \in 0 .. Len(s) /\ n + 1 \in 1 .. Len(s) /\ First(t, n) = -First(s, n)
        BY <1>0, <1>2
    <2>2. First(s, n) \in Int /\ s[n + 1] \in Int
        BY <2>1, FirstSums, ElementOfSeq
    <2>3. First(s, n + 1) = First(s, n) + s[n + 1] /\ First(t, n + 1) = First(t, n) + t[n + 1]
        BY <2>1, FirstSums
    <2>4. t[n + 1] = -s[n + 1]
        BY <2>1
    <2> QED BY <2>1, <2>2, <2>3, <2>4
<1>3. \A n \in Nat : n \in T
    <2> HIDE DEF T
    <2> QED BY <1>1, <1>2, SetInduction
<1>4. Len(s) \in T /\ Len(s) <= Len(s)
    BY <1>0, <1>3
<1> QED BY <1>4, FirstSums

LEMMA SumConcat ==
    ASSUME NEW s \in Seq(Int), NEW t \in Seq(Int)
    PROVE  s \o t \in Seq(Int) /\ SumOf(s \o t) = SumOf(s) + SumOf(t)
<1> DEFINE u == s \o t
           n == Len(s)
           m == Len(t)
<1>1. /\ n \in Nat /\ m \in Nat /\ u \in Seq(Int) /\ Len(u) = n + m
      /\ \A i \in 1 .. n : u[i] = s[i]
      /\ \A i \in 1 .. m : u[n + i] = t[i]
    <2>1. n \in Nat /\ m \in Nat
        BY ItemsOf
    <2>2. /\ u \in Seq(Int) /\ Len(u) = n + m
          /\ \A i \in 1 .. n + m : u[i] = IF i <= n THEN s[i] ELSE t[i - n]
        BY ConcatProperties
    <2> HIDE DEF u, n, m
    <2>3. ASSUME NEW i \in 1 .. m PROVE u[n + i] = t[i]
        <3>1. n + i \in 1 .. n + m /\ ~(n + i <= n) /\ n + i - n = i
            BY <2>1
        <3> QED BY <2>1, <2>2, <3>1
    <2> QED BY <2>1, <2>2, <2>3
<1> HIDE DEF u, n, m
<1>2. First(u, n) = SumOf(s)
    <2>1. n <= Len(s) /\ n <= Len(u) /\ n = Len(s)
        BY <1>1 DEF n
    <2>2. First(u, n) = First(s, n)
        BY <1>1, <2>1, SumsEqual
    <2> QED BY <2>1, <2>2, FirstSums
<1> DEFINE T == {k \in Nat : k <= m => First(u, n + k) = SumOf(s) + First(t, k)}
<1>3. 0 \in T
    <2>1. First(t, 0) = 0 /\ SumOf(s) \in Int /\ n + 0 = n
        BY <1>1, FirstSums, SumType
    <2> QED BY <1>2, <2>1
<1>4. ASSUME NEW k \in Nat, k \in T PROVE k + 1 \in T
    <2> SUFFICES ASSUME k + 1 <= m PROVE First(u, n + (k + 1)) = SumOf(s) + First(t, k + 1)
        OBVIOUS
    <2>0. First(u, n + k) = SumOf(s) + First(t, k)
        <3>1. k <= m
            BY <1>1
        <3> QED BY <1>4, <3>1
    <2> HIDE DEF T
    <2>1. /\ k \in 0 .. m - 1 /\ k \in 0 .. m /\ k + 1 \in 1 .. m
          /\ n + k \in 0 .. (n + m) - 1 /\ n + (k + 1) = (n + k) + 1
        BY <1>1
    <2>2. First(t, k) \in Int /\ SumOf(s) \in Int /\ t[k + 1] \in Int
        BY <2>1, FirstSums, SumType, ElementOfSeq DEF m
    <2>3. First(u, (n + k) + 1) = First(u, n + k) + u[(n + k) + 1]
        BY <1>1, <2>1, FirstSums
    <2>4. First(t, k + 1) = First(t, k) + t[k + 1]
        BY <2>1, FirstSums DEF m
    <2>5. u[(n + k) + 1] = t[k + 1]
        BY <1>1, <2>1
    <2> QED BY <2>0, <2>1, <2>2, <2>3, <2>4, <2>5
<1>5. \A k \in Nat : k \in T
    <2> HIDE DEF T
    <2> QED BY <1>3, <1>4, SetInduction
<1>6. First(u, n + m) = SumOf(s) + First(t, m)
    BY <1>1, <1>5
<1>7. First(u, n + m) = SumOf(u) /\ First(t, m) = SumOf(t)
    BY <1>1, FirstSums DEF m
<1> QED BY <1>1, <1>6, <1>7 DEF u

\* What has a sum and is written out.
LEMMA SumOfOne == ASSUME NEW a \in Int PROVE <<a>> \in Seq(Int) /\ SumOf(<<a>>) = a
<1>1. <<a>> = Append(<<>>, a) /\ <<>> \in Seq(Int) /\ <<a>> \in Seq(Int)
    OBVIOUS
<1>2. SumOf(Append(<<>>, a)) = SumOf(<<>>) + a
    BY <1>1, SumAppend
<1>3. SumOf(<<>>) + a = a
    BY SumEmpty
<1> QED BY <1>1, <1>2, <1>3

LEMMA SumOfFour ==
    ASSUME NEW a \in Int, NEW b \in Int, NEW c \in Int, NEW d \in Int
    PROVE  <<a, b, c, d>> \in Seq(Int) /\ SumOf(<<a, b, c, d>>) = a + b + c + d
<1>1. <<a, b>> = Append(<<a>>, b) /\ <<a, b, c>> = Append(<<a, b>>, c) /\ <<a, b, c, d>> = Append(<<a, b, c>>, d)
    OBVIOUS
<1>2. <<a>> \in Seq(Int) /\ <<a, b>> \in Seq(Int) /\ <<a, b, c>> \in Seq(Int) /\ <<a, b, c, d>> \in Seq(Int)
    OBVIOUS
<1>3. SumOf(<<a, b>>) = a + b
    BY <1>1, <1>2, SumOfOne, SumAppend
<1>4. SumOf(<<a, b, c>>) = a + b + c
    BY <1>1, <1>2, <1>3, SumAppend
<1> QED BY <1>1, <1>2, <1>4, SumAppend

------------------------------------------------------------------------------
(* Arithmetic. *)

LEMMA ProductType ==
    ASSUME NEW n \in Int, NEW p \in Nat
    PROVE  n * p \in Int /\ (n >= 0 => n * p >= 0)
<1>1. n * p \in Int
    OBVIOUS
<1>2. ASSUME n >= 0 PROVE n * p >= 0
    BY <1>2
<1> QED BY <1>1, <1>2

\* A percentage of an amount is an integer, and of one that is not negative not
\* negative either, a product that falls short included.
LEMMA PercentType ==
    ASSUME NEW n \in Int, NEW p \in Nat
    PROVE  Percent(n, p) \in Int /\ (n >= 0 => Percent(n, p) >= 0)
<1> DEFINE x == n * p
<1>1. x \in Int /\ (n >= 0 => x >= 0)
    BY ProductType
<1>2. <<n, p>> \in Short /\ n >= 0 => x >= 100
    BY ShortAssumption
<1>3. Percent(n, p) = IF <<n, p>> \in Short THEN x \div 100 - 1 ELSE x \div 100
    BY DEF Percent
<1> HIDE DEF x
<1>4. x \div 100 \in Int /\ (x >= 0 => x \div 100 >= 0) /\ (x >= 100 => x \div 100 >= 1)
    BY <1>1
<1> QED BY <1>1, <1>2, <1>3, <1>4

LEMMA PriceType == ASSUME NEW c PROVE getStoredUnitPrice(c) \in Nat
    BY DEF getStoredUnitPrice, DEFAULT_PRICE

LEMMA UsageAmountType ==
    ASSUME NEW item \in UsageItem
    PROVE  UsageAmount(item) \in Int /\ (item.counterVolume >= 0 => UsageAmount(item) >= 0)
<1> DEFINE x == item.counterVolume * getStoredUnitPrice(item.counterName)
<1>1. item.counterVolume \in Int
    BY DEF UsageItem
<1>2. x \in Int /\ (item.counterVolume >= 0 => x >= 0)
    BY <1>1, PriceType, ProductType
<1>3. UsageAmount(item) = x \div 100
    BY DEF UsageAmount
<1> HIDE DEF x
<1>4. x \div 100 \in Int /\ (x >= 0 => x \div 100 >= 0)
    BY <1>2
<1> QED BY <1>2, <1>3, <1>4

LEMMA SignedType ==
    ASSUME NEW adj \in AdjustmentItem, NEW n \in Int
    PROVE  Signed(adj, AdjustmentAmount(adj, n)) \in Int
<1>1. adj.value \in Nat
    BY DEF AdjustmentItem
<1>2. AdjustmentAmount(adj, n) \in Int
    BY <1>1, PercentType DEF AdjustmentAmount
<1> QED BY <1>2 DEF Signed

LEMMA LateFeeType == ASSUME TypeOK PROVE LateFee \in Nat
<1>1. request.unpaidAmount \in Int /\ LATE_FEE \in Nat
    BY DEF TypeOK, BillingRequest, LATE_FEE
<1>2. /\ Percent(request.unpaidAmount, LATE_FEE) \in Int
      /\ request.unpaidAmount >= 0 => Percent(request.unpaidAmount, LATE_FEE) >= 0
    BY <1>1, PercentType
<1> QED BY <1>1, <1>2 DEF LateFee

\* What the next adjustment, usage item or credit of a request is.
LEMMA ItemType ==
    ASSUME TypeOK
    PROVE  /\ request.usage \in Seq(UsageItem) /\ request.credits \in Seq(Int)
           /\ request.adjustments \in Seq(AdjustmentItemInput)
           /\ done < Len(request.usage) => request.usage[done + 1] \in UsageItem
           /\ done < Len(request.credits) => request.credits[done + 1] \in Int
           /\ done < Len(request.adjustments) => request.adjustments[done + 1] \in AdjustmentItemInput
           /\ done < Len(normalized) => normalized[done + 1] \in AdjustmentItem
<1>1. request.usage \in Seq(UsageItem) /\ request.credits \in Seq(Int)
      /\ request.adjustments \in Seq(AdjustmentItemInput)
    BY DEF TypeOK, BillingRequest
<1> QED BY <1>1 DEF TypeOK

------------------------------------------------------------------------------
(* Types. *)

LEMMA TypeStep == TypeOK /\ [Next]_vars => TypeOK'
<1> SUFFICES ASSUME TypeOK, [Next]_vars PROVE TypeOK'
    OBVIOUS
<1> USE DEF TypeOK
<1>1. CASE Receive
    <2>1. request' \in BillingRequest
        BY <1>1, RequestAssumption DEF Receive, Take
    <2>2. vatRate' \in Nat
        BY <1>1, VatAssumption DEF Receive, Take, getVatRate, DEFAULT_RATE
    <2> QED BY <1>1, <2>1, <2>2 DEF Receive, Take
<1>2. CASE ReceiveNotJson \/ ReceiveNull \/ GetStatements \/ ProcessPayment
    BY <1>2 DEF ReceiveNotJson, ReceiveNull, GetStatements, ProcessPayment, AnswerAtOnce, loop
<1>3. CASE Normalize
    <2> DEFINE item == request.adjustments[done + 1]
    <2>1. item \in AdjustmentItemInput /\ Valid(item)
        BY <1>3, ItemType DEF Normalize
    <2>2. normalize(item) \in AdjustmentItem
        BY <2>1 DEF normalize, Valid, AdjustmentItem, AdjustmentItemInput
    <2> QED BY <1>3, <2>2 DEF Normalize
<1>4. CASE NormalizeFails \/ RespondFails
    BY <1>4 DEF NormalizeFails, RespondFails, Answer, loop
<1>5. CASE NormalizeDone \/ UsageDone
    BY <1>5 DEF NormalizeDone, UsageDone, GoTo, loop
<1>6. CASE AddUsage
    <2>1. UsageAmount(request.usage[done + 1]) \in Int
        BY <1>6, ItemType, UsageAmountType DEF AddUsage
    <2> QED BY <1>6, <2>1 DEF AddUsage
<1>7. CASE AddAdjustment
    <2>1. normalized[done + 1] \in AdjustmentItem
        BY <1>7, ItemType DEF AddAdjustment
    <2>2. AdjustmentBase \in Int
        BY DEF AdjustmentBase
    <2>3. Signed(normalized[done + 1], AdjustmentAmount(normalized[done + 1], AdjustmentBase)) \in Int
        BY <2>1, <2>2, SignedType
    <2> QED BY <1>7, <2>3 DEF AddAdjustment
<1>8. CASE AdjustmentsDone
    BY <1>8 DEF AdjustmentsDone, GoTo, NotBelowZero
<1>9. CASE ApplyCredit
    <2> DEFINE credit == request.credits[done + 1]
               amount == AmountApplied(credit)
    <2>1. credit \in Int
        BY <1>9, ItemType DEF ApplyCredit
    <2>2. amount \in Int /\ amount <= remainingCharge
        BY <2>1 DEF AmountApplied
    <2>3. remainingCharge - amount \in Nat /\ credit - amount \in Int
        BY <2>1, <2>2
    <2> HIDE DEF credit, amount
    <2>4. [amountApplied |-> amount, remainingBalance |-> credit - amount] \in Amount
        BY <2>2, <2>3 DEF Amount
    <2> QED BY <1>9, <2>3, <2>4 DEF ApplyCredit, credit, amount
<1>10. CASE Respond
    BY <1>10 DEF Respond, loop
<1>11. CASE UNCHANGED vars
    BY <1>11 DEF vars, loop
<1> QED BY <1>1, <1>2, <1>3, <1>4, <1>5, <1>6, <1>7, <1>8, <1>9, <1>10, <1>11 DEF Next, Calculate

LEMMA TypeInit == Init => TypeOK
    BY DEF Init, NoRequest, BillingRequest, TypeOK, DEFAULT_RATE

\* Every variable keeps its type, whatever the requests.
THEOREM TypeCorrect == Spec => []TypeOK
    BY TypeInit, TypeStep, PTL DEF Spec

------------------------------------------------------------------------------
(* Credits.                                                                  *)

\* Before the loop of applyCredits no credit is touched; in it, as many are as
\* turns were made.
InOrder ==
    /\ CreditsSpentInOrder
    /\ pc \in {"idle", "normalize", "subtotal", "adjust"} => appliedCredits = <<>>
    /\ pc = "credit" => done = Len(appliedCredits)

CreditVars == <<request, remainingCharge, appliedCredits>>

\* Steps that leave the credits alone and are not the answer.
LEMMA CreditsUntouched ==
    ASSUME CreditsSpentInOrder, UNCHANGED CreditVars, ~Calculated'
    PROVE  CreditsSpentInOrder'
    BY DEF CreditsSpentInOrder, CreditVars, NoDebts

LEMMA NoCreditsYet ==
    ASSUME TypeOK', appliedCredits' = <<>>, ~Calculated'
    PROVE  CreditsSpentInOrder'
<1>1. Len(request'.credits) \in Nat /\ Len(appliedCredits') = 0
    BY DEF TypeOK, BillingRequest
<1> QED BY <1>1 DEF CreditsSpentInOrder

\* One more credit: those before it are used up, since a charge was left.
LEMMA CreditApplied ==
    ASSUME TypeOK, TypeOK', InOrder, ApplyCredit
    PROVE  InOrder'
<1> DEFINE credit == request.credits[done + 1]
           amount == AmountApplied(credit)
           new == [amountApplied |-> amount, remainingBalance |-> credit - amount]
<1>1. /\ request.credits \in Seq(Int) /\ appliedCredits \in Seq(Amount)
      /\ done \in Nat /\ remainingCharge \in Nat
    BY ItemType DEF TypeOK
<1>2. /\ done = Len(appliedCredits) /\ done < Len(request.credits) /\ remainingCharge > 0
      /\ appliedCredits' = Append(appliedCredits, new)
      /\ remainingCharge' = remainingCharge - amount
      /\ done' = done + 1 /\ request' = request /\ pc' = "credit" /\ pc = "credit"
    BY DEF InOrder, ApplyCredit
<1>3. credit \in Int
    BY <1>1, <1>2
<1>4. /\ amount \in Int /\ amount <= credit /\ amount <= remainingCharge
      /\ amount = credit \/ amount = remainingCharge
      /\ credit >= 0 => amount >= 0
    BY <1>1, <1>2, <1>3 DEF AmountApplied
<1>5. /\ new.amountApplied = amount /\ new.remainingBalance = credit - amount
    OBVIOUS
<1> HIDE DEF amount, new
<1>6. /\ Len(appliedCredits') = done + 1
      /\ appliedCredits'[done + 1] = new
      /\ \A i \in 1 .. done : appliedCredits'[i] = appliedCredits[i]
    <2>1. new \in Amount
        BY <1>3, <1>4 DEF new, Amount
    <2> QED BY <1>1, <1>2, <2>1
<1>7. \A i \in 1 .. done + 1 :
          appliedCredits'[i].amountApplied + appliedCredits'[i].remainingBalance = request.credits[i]
    <2> TAKE i \in 1 .. done + 1
    <2>1. CASE i = done + 1
        BY <1>3, <1>4, <1>5, <1>6, <2>1
    <2>2. CASE i # done + 1
        <3>1. i \in 1 .. done
            BY <1>1, <2>2
        <3> QED BY <1>2, <1>6, <3>1 DEF InOrder, CreditsSpentInOrder
    <2> QED BY <2>1, <2>2
<1>8. ASSUME NoDebts(request.credits), NEW i \in 1 .. done + 1
      PROVE  /\ appliedCredits'[i].amountApplied >= 0 /\ appliedCredits'[i].remainingBalance >= 0
             /\ i < done + 1 \/ remainingCharge' > 0 => appliedCredits'[i].remainingBalance = 0
    <2>1. CASE i = done + 1
        <3>1. credit >= 0
            BY <1>1, <1>2, <1>8 DEF NoDebts
        <3> QED BY <1>1, <1>2, <1>3, <1>4, <1>5, <1>6, <2>1, <3>1
    <2>2. CASE i # done + 1
        <3>1. i \in 1 .. done
            BY <1>1, <2>2
        <3> QED BY <1>2, <1>6, <1>8, <3>1 DEF InOrder, CreditsSpentInOrder
    <2> QED BY <2>1, <2>2
<1>9. done + 1 <= Len(request.credits)
    BY <1>1, <1>2
<1>10. CreditsSpentInOrder'
    BY <1>2, <1>6, <1>7, <1>8, <1>9 DEF CreditsSpentInOrder, Calculated
<1> QED BY <1>2, <1>6, <1>10 DEF InOrder

LEMMA InOrderStep == TypeOK /\ TypeOK' /\ InOrder /\ [Next]_vars => InOrder'
<1> SUFFICES ASSUME TypeOK, TypeOK', InOrder, [Next]_vars PROVE InOrder'
    OBVIOUS
<1>1. CASE Receive
    BY <1>1, NoCreditsYet DEF Receive, Take, InOrder, Calculated
<1>2. CASE ReceiveNotJson \/ ReceiveNull \/ GetStatements \/ ProcessPayment
    <2>1. pc = "idle" /\ UNCHANGED <<pc, CreditVars>>
        BY <1>2 DEF ReceiveNotJson, ReceiveNull, GetStatements, ProcessPayment, AnswerAtOnce,
                    loop, CreditVars
    <2> QED BY <2>1, CreditsUntouched DEF InOrder, Calculated, CreditVars
<1>3. CASE NormalizeFails \/ RespondFails
    <2>1. pc' = "answered" /\ status' = 400 /\ UNCHANGED CreditVars
        BY <1>3 DEF NormalizeFails, RespondFails, Answer, loop, CreditVars
    <2> QED BY <2>1, CreditsUntouched DEF InOrder, Calculated
<1>4. CASE Normalize \/ NormalizeDone \/ AddUsage \/ UsageDone \/ AddAdjustment \/ AdjustmentsDone
    <2>1. /\ pc \in {"normalize", "subtotal", "adjust"} /\ pc' \in {"normalize", "subtotal", "adjust", "credit"}
          /\ appliedCredits' = appliedCredits
          /\ pc' = "credit" => done' = 0
        BY <1>4 DEF Normalize, NormalizeDone, AddUsage, UsageDone, AddAdjustment, AdjustmentsDone,
                    GoTo, loop
    <2>2. appliedCredits' = <<>> /\ ~Calculated'
        BY <2>1 DEF InOrder, Calculated
    <2>3. Len(appliedCredits') = 0
        BY <2>2
    <2> QED BY <2>1, <2>2, <2>3, NoCreditsYet DEF InOrder
<1>5. CASE ApplyCredit
    BY <1>5, CreditApplied
<1>6. CASE Respond
    <2>1. /\ pc = "credit" /\ pc' = "answered" /\ UNCHANGED CreditVars
          /\ done = Len(request.credits) \/ remainingCharge <= 0
        BY <1>6 DEF Respond, CreditsDone, loop, CreditVars
    <2>2. remainingCharge > 0 => Len(appliedCredits) = Len(request.credits)
        BY <2>1 DEF InOrder, TypeOK
    <2> QED BY <2>1, <2>2 DEF InOrder, CreditsSpentInOrder, CreditVars, NoDebts
<1>7. CASE UNCHANGED vars
    BY <1>7 DEF vars, loop, InOrder, CreditsSpentInOrder, NoDebts, Calculated
<1> QED BY <1>1, <1>2, <1>3, <1>4, <1>5, <1>6, <1>7 DEF Next, Calculate

LEMMA InOrderInit == Init => InOrder
<1> SUFFICES ASSUME Init PROVE InOrder
    OBVIOUS
<1>1. Len(request.credits) \in Nat /\ Len(appliedCredits) = 0 /\ pc = "idle"
    BY DEF Init, NoRequest
<1> QED BY <1>1 DEF Init, InOrder, CreditsSpentInOrder, Calculated

\* applyCredits spends the credits of any request in order, each no further than
\* the charge left, and leaves a charge only when all are used up.
THEOREM CreditsInOrder == Spec => []CreditsSpentInOrder
<1>1. InOrder => CreditsSpentInOrder
    BY DEF InOrder
<1> QED BY TypeCorrect, InOrderInit, InOrderStep, <1>1, PTL DEF Spec

------------------------------------------------------------------------------
(* The parts of a statement add up.                                          *)

\* Of the adjustments, what each adds to a subtotal.
AdjustmentsOf(list, amount) ==
    [i \in 1 .. Len(list) |-> Signed(list[i], AdjustmentAmount(list[i], amount))]

LEMMA LineItemsType ==
    ASSUME NEW usage \in Seq(UsageItem)
    PROVE  /\ buildLineItems(usage) \in Seq(Int) /\ Len(buildLineItems(usage)) = Len(usage)
           /\ \A i \in 1 .. Len(usage) : buildLineItems(usage)[i] = UsageAmount(usage[i])
<1>1. Len(usage) \in Nat /\ \A i \in 1 .. Len(usage) : UsageAmount(usage[i]) \in Int
    BY ItemsOf, UsageAmountType
<1> QED BY <1>1 DEF buildLineItems

LEMMA AdjustmentsType ==
    ASSUME NEW list \in Seq(AdjustmentItem), NEW amount \in Int
    PROVE  /\ AdjustmentsOf(list, amount) \in Seq(Int) /\ Len(AdjustmentsOf(list, amount)) = Len(list)
           /\ \A i \in 1 .. Len(list) :
                 AdjustmentsOf(list, amount)[i] = Signed(list[i], AdjustmentAmount(list[i], amount))
<1>1. /\ Len(list) \in Nat
      /\ \A i \in 1 .. Len(list) : Signed(list[i], AdjustmentAmount(list[i], amount)) \in Int
    BY ItemsOf, SignedType
<1> QED BY <1>1 DEF AdjustmentsOf

LEMMA AppliedType ==
    ASSUME NEW credits \in Seq(Amount)
    PROVE  /\ AmountsApplied(credits) \in Seq(Int) /\ Len(AmountsApplied(credits)) = Len(credits)
           /\ \A i \in 1 .. Len(credits) : AmountsApplied(credits)[i] = credits[i].amountApplied
<1>1. Len(credits) \in Nat /\ \A i \in 1 .. Len(credits) : credits[i] \in Amount
    BY ItemsOf
<1>2. \A i \in 1 .. Len(credits) : credits[i].amountApplied \in Int
    BY <1>1 DEF Amount
<1> QED BY <1>1, <1>2 DEF AmountsApplied

LEMMA AppliedAppend ==
    ASSUME NEW credits \in Seq(Amount), NEW new \in Amount
    PROVE  SumOf(AmountsApplied(Append(credits, new))) = SumOf(AmountsApplied(credits)) + new.amountApplied
<1> DEFINE more == Append(credits, new)
           longer == Append(AmountsApplied(credits), new.amountApplied)
<1>1. new.amountApplied \in Int /\ AmountsApplied(credits) \in Seq(Int)
    BY AppliedType DEF Amount
<1>2. /\ more \in Seq(Amount) /\ Len(more) = Len(credits) + 1 /\ Len(credits) \in Nat
      /\ more[Len(credits) + 1] = new /\ \A i \in 1 .. Len(credits) : more[i] = credits[i]
    BY AppendProperties, ItemsOf
<1>3. /\ longer \in Seq(Int) /\ Len(longer) = Len(credits) + 1
      /\ longer[Len(credits) + 1] = new.amountApplied
      /\ \A i \in 1 .. Len(credits) : longer[i] = AmountsApplied(credits)[i]
    BY <1>1, AppendProperties, AppliedType
<1>4. /\ AmountsApplied(more) \in Seq(Int) /\ Len(AmountsApplied(more)) = Len(credits) + 1
      /\ \A i \in 1 .. Len(credits) + 1 : AmountsApplied(more)[i] = more[i].amountApplied
    BY <1>2, AppliedType
<1>5. \A i \in 1 .. Len(credits) : AmountsApplied(credits)[i] = credits[i].amountApplied
    BY AppliedType
<1> HIDE DEF more, longer
<1>6. \A i \in 1 .. Len(credits) + 1 : AmountsApplied(more)[i] = longer[i]
    <2>1. ASSUME NEW i \in 1 .. Len(credits) + 1, i # Len(credits) + 1
          PROVE  AmountsApplied(more)[i] = longer[i]
        <3>1. i \in 1 .. Len(credits)
            BY <1>2, <2>1
        <3>2. AmountsApplied(more)[i] = credits[i].amountApplied
            BY <1>2, <1>4, <3>1
        <3>3. longer[i] = credits[i].amountApplied
            BY <1>3, <1>5, <3>1
        <3> QED BY <3>2, <3>3
    <2>2. AmountsApplied(more)[Len(credits) + 1] = longer[Len(credits) + 1]
        <3>1. Len(credits) + 1 \in 1 .. Len(credits) + 1
            BY <1>2
        <3> QED BY <1>2, <1>3, <1>4, <3>1
    <2> QED BY <2>1, <2>2
<1>7. AmountsApplied(more) = longer
    BY <1>2, <1>3, <1>4, <1>6, SeqEqual
<1> QED BY <1>1, <1>7, SumAppend DEF more, longer

LEMMA NothingApplied == SumOf(AmountsApplied(<<>>)) = 0
<1>1. <<>> \in Seq(Amount) /\ Len(<<>>) = 0
    BY EmptySeq
<1>2. AmountsApplied(<<>>) \in Seq(Int) /\ Len(AmountsApplied(<<>>)) = 0
    BY <1>1, AppliedType
<1>3. AmountsApplied(<<>>) = <<>>
    BY <1>1, <1>2, SeqEqual
<1> QED BY <1>3, SumEmpty

\* A statement has been worked out but for what credits there are to come.
Worked == pc = "credit" \/ Calculated

\* Each loop has added up the items it has been through, and nothing is changed
\* after them until the statement is answered.
Sums ==
    /\ pc = "normalize" => subtotal = 0 /\ adjustmentTotal = 0
    /\ pc = "subtotal" =>
           /\ done <= Len(request.usage) /\ subtotal = First(buildLineItems(request.usage), done)
           /\ adjustmentTotal = 0
    /\ pc = "adjust" \/ Worked => subtotal = SumOf(buildLineItems(request.usage))
    /\ pc = "adjust" =>
           done <= Len(normalized) /\ adjustmentTotal = First(AdjustmentsOf(normalized, subtotal), done)
    /\ Worked =>
           /\ adjustmentTotal = SumOf(AdjustmentsOf(normalized, subtotal))
           /\ chargeBeforeCredit = NotBelowZero(subtotal + adjustmentTotal)
           /\ chargeBeforeCredit - remainingCharge = SumOf(AmountsApplied(appliedCredits))
    /\ Calculated => statement = Statement

LEMMA UsageAdded == ASSUME TypeOK, Sums, AddUsage PROVE Sums'
<1> DEFINE lines == buildLineItems(request.usage)
<1>1. /\ pc = "subtotal" /\ pc' = pc /\ done < Len(request.usage) /\ done' = done + 1 /\ request' = request
      /\ subtotal' = subtotal + UsageAmount(request.usage[done + 1]) /\ adjustmentTotal' = adjustmentTotal
    BY DEF AddUsage
<1>2. /\ lines \in Seq(Int) /\ Len(lines) = Len(request.usage)
      /\ \A i \in 1 .. Len(request.usage) : lines[i] = UsageAmount(request.usage[i])
      /\ Len(request.usage) \in Nat /\ done \in Nat
    BY ItemType, LineItemsType, ItemsOf DEF TypeOK
<1>3. subtotal = First(lines, done) /\ adjustmentTotal = 0
    BY <1>1 DEF Sums
<1>4. (buildLineItems(request.usage))' = lines
    BY <1>1
<1> HIDE DEF lines
<1>5. subtotal' = First(lines, done + 1)
    <2>1. done \in 0 .. Len(lines) - 1 /\ done + 1 \in 1 .. Len(request.usage)
        BY <1>1, <1>2
    <2>2. First(lines, done + 1) = First(lines, done) + lines[done + 1]
        BY <1>2, <2>1, FirstSums
    <2> QED BY <1>1, <1>2, <1>3, <2>1, <2>2
<1>6. done + 1 <= Len(request.usage)
    BY <1>1, <1>2
<1> QED BY <1>1, <1>3, <1>4, <1>5, <1>6 DEF Sums, Worked, Calculated

LEMMA UsageAddedUp == ASSUME TypeOK, Sums, UsageDone PROVE Sums'
<1> DEFINE lines == buildLineItems(request.usage)
           added == AdjustmentsOf(normalized, subtotal)
<1>1. /\ pc = "subtotal" /\ pc' = "adjust" /\ done = Len(request.usage) /\ done' = 0 /\ request' = request
      /\ subtotal' = subtotal /\ normalized' = normalized /\ adjustmentTotal' = adjustmentTotal
    BY DEF UsageDone, GoTo, loop
<1>2. lines \in Seq(Int) /\ Len(lines) = Len(request.usage)
    BY ItemType, LineItemsType
<1>3. added \in Seq(Int) /\ Len(normalized) \in Nat
    BY AdjustmentsType, ItemsOf DEF TypeOK
<1>4. subtotal = First(lines, Len(lines)) /\ adjustmentTotal = 0
    BY <1>1, <1>2 DEF Sums
<1>5. subtotal = SumOf(lines) /\ First(added, 0) = 0
    BY <1>2, <1>3, <1>4, FirstSums
<1>6. (buildLineItems(request.usage))' = lines /\ AdjustmentsOf(normalized, subtotal)' = added
    BY <1>1
<1> HIDE DEF lines, added
<1> QED BY <1>1, <1>3, <1>4, <1>5, <1>6 DEF Sums, Worked, Calculated

LEMMA AdjustmentAdded == ASSUME TypeOK, Sums, AddAdjustment PROVE Sums'
<1> DEFINE lines == buildLineItems(request.usage)
           added == AdjustmentsOf(normalized, subtotal)
           adj == normalized[done + 1]
<1>1. /\ pc = "adjust" /\ pc' = pc /\ done < Len(normalized) /\ done' = done + 1 /\ request' = request
      /\ subtotal' = subtotal /\ normalized' = normalized
      /\ adjustmentTotal' = adjustmentTotal + Signed(adj, AdjustmentAmount(adj, subtotal))
    BY DEF AddAdjustment, AdjustmentBase
<1>2. /\ added \in Seq(Int) /\ Len(added) = Len(normalized)
      /\ \A i \in 1 .. Len(normalized) :
             added[i] = Signed(normalized[i], AdjustmentAmount(normalized[i], subtotal))
      /\ Len(normalized) \in Nat /\ done \in Nat
    BY AdjustmentsType, ItemsOf DEF TypeOK
<1>3. adjustmentTotal = First(added, done) /\ subtotal = SumOf(lines)
    BY <1>1 DEF Sums
<1>4. (buildLineItems(request.usage))' = lines /\ AdjustmentsOf(normalized, subtotal)' = added
    BY <1>1
<1> HIDE DEF lines, added
<1>5. adjustmentTotal' = First(added, done + 1)
    <2>1. done \in 0 .. Len(added) - 1 /\ done + 1 \in 1 .. Len(normalized)
        BY <1>1, <1>2
    <2>2. First(added, done + 1) = First(added, done) + added[done + 1]
        BY <1>2, <2>1, FirstSums
    <2> QED BY <1>1, <1>2, <1>3, <2>1, <2>2
<1>6. done + 1 <= Len(normalized)
    BY <1>1, <1>2
<1> QED BY <1>1, <1>3, <1>4, <1>5, <1>6 DEF Sums, Worked, Calculated

LEMMA AdjustmentsAddedUp ==
    ASSUME TypeOK, TypeOK', Sums, InOrder, AdjustmentsDone
    PROVE  Sums'
<1> DEFINE lines == buildLineItems(request.usage)
           added == AdjustmentsOf(normalized, subtotal)
<1>1. /\ pc = "adjust" /\ pc' = "credit" /\ done = Len(normalized) /\ request' = request
      /\ subtotal' = subtotal /\ normalized' = normalized /\ adjustmentTotal' = adjustmentTotal
      /\ chargeBeforeCredit' = NotBelowZero(subtotal + adjustmentTotal)
      /\ remainingCharge' = chargeBeforeCredit' /\ appliedCredits' = appliedCredits
    BY DEF AdjustmentsDone, GoTo
<1>2. added \in Seq(Int) /\ Len(added) = Len(normalized)
    BY AdjustmentsType DEF TypeOK
<1>3. adjustmentTotal = First(added, Len(added)) /\ subtotal = SumOf(lines)
    BY <1>1, <1>2 DEF Sums
<1>4. adjustmentTotal = SumOf(added)
    BY <1>2, <1>3, FirstSums
<1>5. (buildLineItems(request.usage))' = lines /\ AdjustmentsOf(normalized, subtotal)' = added
    BY <1>1
<1>6. SumOf(AmountsApplied(appliedCredits))' = 0
    <2>1. appliedCredits' = <<>>
        BY <1>1 DEF InOrder
    <2> QED BY <2>1, NothingApplied
<1>7. chargeBeforeCredit' - remainingCharge' = 0
    BY <1>1 DEF TypeOK
<1> HIDE DEF lines, added
<1> QED BY <1>1, <1>3, <1>4, <1>5, <1>6, <1>7 DEF Sums, Worked, Calculated

LEMMA CreditAdded == ASSUME TypeOK, Sums, ApplyCredit PROVE Sums'
<1> DEFINE lines == buildLineItems(request.usage)
           added == AdjustmentsOf(normalized, subtotal)
           credit == request.credits[done + 1]
           amount == AmountApplied(credit)
           new == [amountApplied |-> amount, remainingBalance |-> credit - amount]
<1>1. /\ pc = "credit" /\ pc' = pc /\ request' = request /\ done < Len(request.credits)
      /\ subtotal' = subtotal /\ normalized' = normalized /\ adjustmentTotal' = adjustmentTotal
      /\ chargeBeforeCredit' = chargeBeforeCredit /\ remainingCharge' = remainingCharge - amount
      /\ appliedCredits' = Append(appliedCredits, new)
    BY DEF ApplyCredit
<1>2. credit \in Int /\ remainingCharge \in Nat /\ chargeBeforeCredit \in Nat
    BY <1>1, ItemType DEF TypeOK
<1>3. amount \in Int
    BY <1>2 DEF AmountApplied
<1>4. /\ adjustmentTotal = SumOf(added) /\ subtotal = SumOf(lines)
      /\ chargeBeforeCredit = NotBelowZero(subtotal + adjustmentTotal)
      /\ chargeBeforeCredit - remainingCharge = SumOf(AmountsApplied(appliedCredits))
    BY <1>1 DEF Sums, Worked
<1>5. (buildLineItems(request.usage))' = lines /\ AdjustmentsOf(normalized, subtotal)' = added
    BY <1>1
<1> HIDE DEF lines, added, amount, credit
<1>6. new \in Amount /\ new.amountApplied = amount
    BY <1>2, <1>3 DEF Amount
<1> HIDE DEF new
<1>7. SumOf(AmountsApplied(appliedCredits))' = SumOf(AmountsApplied(appliedCredits)) + amount
    <2>1. appliedCredits \in Seq(Amount)
        BY DEF TypeOK
    <2>2. SumOf(AmountsApplied(Append(appliedCredits, new))) = SumOf(AmountsApplied(appliedCredits)) + amount
        BY <1>6, <2>1, AppliedAppend
    <2> QED BY <1>1, <2>2
<1>8. chargeBeforeCredit - (remainingCharge - amount) = (chargeBeforeCredit - remainingCharge) + amount
    BY <1>2, <1>3
<1> QED BY <1>1, <1>4, <1>5, <1>7, <1>8 DEF Sums, Worked, Calculated

\* Steps that change none of what Sums is about, and end or go on with the same
\* part of the work.
WorkedVars == <<request, vatRate, loop>>

LEMMA Responded == ASSUME Sums, Respond PROVE Sums'
<1>1. pc = "credit" /\ pc' = "answered" /\ statement' = Statement /\ UNCHANGED WorkedVars
    BY DEF Respond, WorkedVars
<1>2. Statement' = Statement
    BY <1>1 DEF WorkedVars, loop, Statement, LateFee, TotalAmount
<1> QED BY <1>1, <1>2 DEF Sums, Worked, WorkedVars, loop

LEMMA SumsStep == TypeOK /\ TypeOK' /\ InOrder /\ Sums /\ [Next]_vars => Sums'
<1> SUFFICES ASSUME TypeOK, TypeOK', InOrder, Sums, [Next]_vars PROVE Sums'
    OBVIOUS
<1>1. CASE Receive
    BY <1>1 DEF Receive, Take, Sums, Worked, Calculated
<1>2. CASE ReceiveNotJson \/ ReceiveNull \/ GetStatements \/ ProcessPayment
    <2>1. pc' = "idle"
        BY <1>2 DEF ReceiveNotJson, ReceiveNull, GetStatements, ProcessPayment, AnswerAtOnce
    <2> QED BY <2>1 DEF Sums, Worked, Calculated
<1>3. CASE NormalizeFails \/ RespondFails
    <2>1. pc' = "answered" /\ status' = 400
        BY <1>3 DEF NormalizeFails, RespondFails, Answer
    <2> QED BY <2>1 DEF Sums, Worked, Calculated
<1>4. CASE Normalize
    BY <1>4 DEF Normalize, Sums, Worked, Calculated
<1>5. CASE NormalizeDone
    <2>1. /\ pc = "normalize" /\ pc' = "subtotal" /\ done' = 0 /\ request' = request
          /\ subtotal' = subtotal /\ adjustmentTotal' = adjustmentTotal
        BY <1>5 DEF NormalizeDone, GoTo, loop
    <2>2. /\ buildLineItems(request.usage) \in Seq(Int) /\ Len(request.usage) \in Nat
        BY ItemType, LineItemsType, ItemsOf
    <2>3. First(buildLineItems(request.usage), 0) = 0 /\ 0 <= Len(request.usage)
        BY <2>2, FirstSums
    <2> QED BY <2>1, <2>3 DEF Sums, Worked, Calculated
<1>6. CASE UNCHANGED vars
    <2>1. Statement' = Statement
        BY <1>6 DEF vars, loop, Statement, LateFee, TotalAmount
    <2> QED BY <1>6, <2>1 DEF vars, loop, Sums, Worked, Calculated
<1> QED BY <1>1, <1>2, <1>3, <1>4, <1>5, <1>6, UsageAdded, UsageAddedUp, AdjustmentAdded,
           AdjustmentsAddedUp, CreditAdded, Responded DEF Next, Calculate

LEMMA SumsInit == Init => Sums
    BY DEF Init, Sums, Worked, Calculated

\* The adjustments of a statement are those that were added up.
LEMMA StatementAdjustments ==
    ASSUME NEW list \in Seq(AdjustmentItem), NEW amount \in Int
    PROVE  SignedAmounts(buildAdjustmentItems(list, amount)) = AdjustmentsOf(list, amount)
<1> DEFINE items == buildAdjustmentItems(list, amount)
<1>1. items = [i \in 1 .. Len(list) |-> [type |-> list[i].type, amount |-> AdjustmentAmount(list[i], amount)]]
    BY DEF buildAdjustmentItems
<1>2. Len(list) \in Nat
    BY ItemsOf
<1> HIDE DEF items
<1>3. Len(items) = Len(list)
    BY <1>1, <1>2
<1>4. ASSUME NEW i \in 1 .. Len(list)
      PROVE  Signed(items[i], items[i].amount) = Signed(list[i], AdjustmentAmount(list[i], amount))
    <2>1. items[i].type = list[i].type /\ items[i].amount = AdjustmentAmount(list[i], amount)
        BY <1>1
    <2> QED BY <2>1 DEF Signed
<1> QED BY <1>3, <1>4 DEF SignedAmounts, AdjustmentsOf, items

LEMMA SumsAddUp == ASSUME TypeOK, Sums PROVE StatementAddsUp
<1> SUFFICES ASSUME Calculated PROVE StatementAddsUp
    BY DEF StatementAddsUp
<1>1. /\ subtotal = SumOf(buildLineItems(request.usage))
      /\ adjustmentTotal = SumOf(AdjustmentsOf(normalized, subtotal))
      /\ chargeBeforeCredit = NotBelowZero(subtotal + adjustmentTotal)
      /\ chargeBeforeCredit - remainingCharge = SumOf(AmountsApplied(appliedCredits))
      /\ statement = Statement
    BY DEF Sums, Worked
<1>2. /\ statement.lineItems = buildLineItems(request.usage)
      /\ statement.appliedAdjustments = buildAdjustmentItems(normalized, subtotal)
      /\ statement.appliedCredits = appliedCredits
      /\ statement.subtotal = subtotal /\ statement.adjustmentTotal = adjustmentTotal
      /\ statement.creditApplied = chargeBeforeCredit - remainingCharge
      /\ statement.charge = remainingCharge
      /\ statement.vat = Percent(remainingCharge, vatRate)
      /\ statement.unpaidAmount = request.unpaidAmount /\ statement.lateFee = LateFee
      /\ statement.totalAmount = TotalAmount
    BY <1>1 DEF Statement
<1>3. SignedAmounts(statement.appliedAdjustments) = AdjustmentsOf(normalized, subtotal)
    BY <1>2, StatementAdjustments DEF TypeOK
<1>4. remainingCharge = chargeBeforeCredit - (chargeBeforeCredit - remainingCharge)
    BY DEF TypeOK
<1> QED BY <1>1, <1>2, <1>3, <1>4 DEF StatementAddsUp, TotalAmount

LEMMA WorkedUp == Spec => [](TypeOK /\ InOrder /\ Sums)
    BY TypeInit, TypeStep, InOrderInit, InOrderStep, SumsInit, SumsStep, PTL DEF Spec

\* For every request, the line items, adjustments and credits of a statement add
\* up to its figures, and the figures to its total.
THEOREM PartsAddUp == Spec => []StatementAddsUp
    BY WorkedUp, SumsAddUp, PTL

------------------------------------------------------------------------------
(* Rounding.                                                                 *)

LEMMA ProductsOrdered ==
    ASSUME NEW a \in Int, NEW b \in Int, NEW v \in Nat, a <= b
    PROVE  a * v \in Int /\ b * v \in Int /\ a * v <= b * v
<1>1. b - a \in Nat
    OBVIOUS
<1>2. (b - a) * v >= 0
    BY <1>1, ProductType
<1>3. (b - a) * v = b * v - a * v
    OBVIOUS
<1>4. a * v \in Int /\ b * v \in Int
    OBVIOUS
<1> QED BY <1>2, <1>3, <1>4

\* A percentage is less than two below the exact one.
LEMMA PercentClose ==
    ASSUME NEW n \in Int, NEW p \in Nat
    PROVE  /\ n * p \in Int /\ Percent(n, p) \in Int
           /\ 100 * Percent(n, p) <= n * p /\ n * p - 199 <= 100 * Percent(n, p)
<1> DEFINE x == n * p
<1>1. x \in Int
    BY ProductType
<1>2. Percent(n, p) \in {x \div 100 - 1, x \div 100}
    BY DEF Percent
<1> HIDE DEF x
<1>3. x \div 100 \in Int /\ 100 * (x \div 100) <= x /\ x - 99 <= 100 * (x \div 100)
    BY <1>1
<1>4. /\ x \in Int /\ Percent(n, p) \in Int
      /\ 100 * Percent(n, p) <= x /\ x - 199 <= 100 * Percent(n, p)
    BY <1>1, <1>2, <1>3
<1> QED BY <1>4 DEF x

\* A percentage of an amount that is off, in hundredths, by no more than c.
LEMMA PercentOfClose ==
    ASSUME NEW a \in Int, NEW b \in Int, NEW c \in Nat, NEW v \in Nat,
           a - 100 * b <= c, 100 * b - a <= c
    PROVE  /\ (a * v) \div 100 - 100 * Percent(b, v) <= (c * v) \div 100 + 199
           /\ 100 * Percent(b, v) - (a * v) \div 100 <= (c * v) \div 100 + 1
<1> DEFINE av == a * v
           bv == b * v
           cv == c * v
           pc100 == Percent(b, v)
<1>1. av \in Int /\ bv \in Int /\ cv \in Int /\ cv >= 0
    BY ProductType
<1>2. (a - 100 * b) * v <= cv /\ (100 * b - a) * v <= cv
    BY ProductsOrdered
<1>3. (a - 100 * b) * v = av - 100 * bv /\ (100 * b - a) * v = 100 * bv - av
    OBVIOUS
<1>4. pc100 \in Int /\ 100 * pc100 <= bv /\ bv - 199 <= 100 * pc100
    BY PercentClose
<1> HIDE DEF av, bv, cv, pc100
<1>5. av - 100 * bv <= cv /\ 100 * bv - av <= cv
    BY <1>2, <1>3
<1>6. av \div 100 <= bv + cv \div 100 /\ bv - cv \div 100 - 1 <= av \div 100
    BY <1>1, <1>5
<1>7. av \div 100 \in Int /\ cv \div 100 \in Int
    BY <1>1
<1>8. /\ av \div 100 - 100 * pc100 <= cv \div 100 + 199
      /\ 100 * pc100 - av \div 100 <= cv \div 100 + 1
    BY <1>1, <1>4, <1>6, <1>7
<1> QED BY <1>8 DEF av, bv, cv, pc100

LEMMA ItemClose ==
    ASSUME NEW item \in UsageItem
    PROVE  /\ ExactAmount(item) \in Int /\ UsageAmount(item) \in Int
           /\ ExactAmount(item) - 100 * UsageAmount(item) <= 100
           /\ 100 * UsageAmount(item) - ExactAmount(item) <= 100
<1> DEFINE x == item.counterVolume * getStoredUnitPrice(item.counterName)
<1>1. item.counterVolume \in Int
    BY DEF UsageItem
<1>2. x \in Int
    BY <1>1, PriceType, ProductType
<1>3. ExactAmount(item) = x /\ UsageAmount(item) = x \div 100
    BY DEF ExactAmount, UsageAmount
<1> HIDE DEF x
<1>4. x \div 100 \in Int /\ x - 100 * (x \div 100) <= 100 /\ 100 * (x \div 100) - x <= 100
    BY <1>2
<1> QED BY <1>2, <1>3, <1>4

LEMMA RateType == ASSUME NEW adj \in AdjustmentItem PROVE Rate(adj) \in Nat
    BY DEF AdjustmentItem, Rate

LEMMA AdjustmentClose ==
    ASSUME NEW adj \in AdjustmentItem, NEW exact \in Int, NEW amount \in Int, NEW n \in Nat,
           exact - 100 * amount <= 100 * n, 100 * amount - exact <= 100 * n
    PROVE  /\ ExactAdjustment(adj, exact) \in Int
           /\ ExactAdjustment(adj, exact) - 100 * Signed(adj, AdjustmentAmount(adj, amount))
                  <= 201 + n * Rate(adj)
           /\ 100 * Signed(adj, AdjustmentAmount(adj, amount)) - ExactAdjustment(adj, exact)
                  <= 201 + n * Rate(adj)
<1> DEFINE e == IF adj.method = "FIXED" THEN adj.value * 100 ELSE (exact * adj.value) \div 100
           m == AdjustmentAmount(adj, amount)
           r == n * Rate(adj)
<1>1. adj.value \in Nat /\ adj.method \in {"FIXED", "RATE"}
    BY DEF AdjustmentItem, AdjustmentMethod
<1>2. r \in Int /\ r >= 0
    BY RateType, ProductType
<1>3. e \in Int /\ m \in Int /\ e - 100 * m <= 201 + r /\ 100 * m - e <= 201 + r
    <2>1. CASE adj.method = "FIXED"
        <3>1. e = adj.value * 100 /\ m = adj.value
            BY <2>1 DEF AdjustmentAmount
        <3> HIDE DEF e, m, r
        <3> QED BY <1>1, <1>2, <3>1
    <2>2. CASE adj.method = "RATE"
        <3> DEFINE v == adj.value
                   ev == exact * v
                   nv == n * v
                   p == Percent(amount, v)
        <3>1. v \in Nat /\ ev \in Int /\ nv \in Int /\ p \in Int /\ 100 * n \in Nat
            <4>1. v \in Nat
                BY <1>1
            <4>2. ev \in Int
                BY <4>1, ProductType
            <4>3. nv \in Int
                BY <4>1, ProductType
            <4>4. p \in Int
                BY <4>1, PercentType
            <4>5. 100 * n \in Nat
                OBVIOUS
            <4> HIDE DEF v, ev, nv, p
            <4> QED BY <4>1, <4>2, <4>3, <4>4, <4>5
        <3>2. e = ev \div 100 /\ m = p /\ r = nv
            BY <2>2 DEF AdjustmentAmount, Rate
        <3>3. /\ ev \div 100 - 100 * p <= ((100 * n) * v) \div 100 + 199
              /\ 100 * p - ev \div 100 <= ((100 * n) * v) \div 100 + 1
            BY ZenonT(60), <3>1, PercentOfClose
        <3>4. (100 * n) * v = 100 * nv
            BY <3>1
        <3> HIDE DEF v, ev, nv, p, e, m, r
        <3>5. (100 * nv) \div 100 = nv /\ ev \div 100 \in Int
            BY <3>1
        <3> QED BY <3>1, <3>2, <3>3, <3>4, <3>5
    <2> QED BY <1>1, <2>1, <2>2
<1>4. \/ ExactAdjustment(adj, exact) = e /\ Signed(adj, m) = m
      \/ ExactAdjustment(adj, exact) = -e /\ Signed(adj, m) = -m
    BY DEF ExactAdjustment, Signed
<1> HIDE DEF e, r
<1>5. /\ ExactAdjustment(adj, exact) \in Int
      /\ ExactAdjustment(adj, exact) - 100 * Signed(adj, m) <= 201 + r
      /\ 100 * Signed(adj, m) - ExactAdjustment(adj, exact) <= 201 + r
    <2> HIDE DEF m
    <2> QED BY <1>2, <1>3, <1>4
<1> QED BY <1>5 DEF r

\* What is below zero is cut off on both sides alike.
LEMMA CutOffClose ==
    ASSUME NEW a \in Int, NEW b \in Int, NEW c \in Nat, a - 100 * b <= c, 100 * b - a <= c
    PROVE  /\ NotBelowZero(a) \in Nat /\ NotBelowZero(b) \in Nat
           /\ NotBelowZero(a) - 100 * NotBelowZero(b) <= c
           /\ 100 * NotBelowZero(b) - NotBelowZero(a) <= c
    BY DEF NotBelowZero

LEMMA SumOfSame ==
    ASSUME NEW d \in Seq(Int), NEW a \in Int, \A i \in 1 .. Len(d) : d[i] = a
    PROVE  SumOf(d) = a * Len(d)
<1>1. PICK b \in Int : b = 0
    OBVIOUS
<1>2. \A i \in 1 .. Len(d) : d[i] = a + b * d[i]
    <2>1. \A i \in 1 .. Len(d) : d[i] \in Int
        BY ItemsOf
    <2> QED BY <1>1, <2>1
<1>3. SumOf(d) = a * Len(d) + b * SumOf(d)
    BY <1>2, SumLinear
<1>4. SumOf(d) \in Int /\ a * Len(d) \in Int
    BY SumType, ItemsOf
<1> QED BY <1>1, <1>3, <1>4

\* The usage of a request, exact and as it is billed.
ExactLines(usage) == [i \in 1 .. Len(usage) |-> ExactAmount(usage[i])]

LEMMA UsageClose ==
    ASSUME NEW usage \in Seq(UsageItem)
    PROVE  /\ SumOf(ExactLines(usage)) \in Int /\ SumOf(buildLineItems(usage)) \in Int
           /\ SumOf(ExactLines(usage)) - 100 * SumOf(buildLineItems(usage)) <= 100 * Len(usage)
           /\ 100 * SumOf(buildLineItems(usage)) - SumOf(ExactLines(usage)) <= 100 * Len(usage)
<1> DEFINE n == Len(usage)
           s == ExactLines(usage)
           t == buildLineItems(usage)
           d == [i \in 1 .. n |-> 100]
<1>1. n \in Nat /\ \A i \in 1 .. n : usage[i] \in UsageItem
    BY ItemsOf
<1>2. t \in Seq(Int) /\ Len(t) = n /\ \A i \in 1 .. n : t[i] = UsageAmount(usage[i])
    BY LineItemsType
<1>3. s \in Seq(Int) /\ Len(s) = n /\ \A i \in 1 .. n : s[i] = ExactAmount(usage[i])
    <2>1. \A i \in 1 .. n : ExactAmount(usage[i]) \in Int
        BY <1>1, ItemClose
    <2> QED BY <1>1, <2>1 DEF ExactLines
<1>4. d \in Seq(Int) /\ Len(d) = n /\ \A i \in 1 .. n : d[i] = 100
    BY <1>1
<1> HIDE DEF n, s, t, d
<1>5. \A i \in 1 .. n : s[i] - 100 * t[i] <= d[i] /\ 100 * t[i] - s[i] <= d[i]
    <2> TAKE i \in 1 .. n
    <2>1. usage[i] \in UsageItem
        BY <1>1
    <2>2. /\ ExactAmount(usage[i]) - 100 * UsageAmount(usage[i]) <= 100
          /\ 100 * UsageAmount(usage[i]) - ExactAmount(usage[i]) <= 100
        BY <2>1, ItemClose
    <2> QED BY <1>2, <1>3, <1>4, <2>2
<1>6. SumOf(s) - 100 * SumOf(t) <= SumOf(d) /\ 100 * SumOf(t) - SumOf(s) <= SumOf(d)
    BY <1>2, <1>3, <1>4, <1>5, SumsClose
<1>7. SumOf(s) \in Int /\ SumOf(t) \in Int
    BY <1>2, <1>3, SumType
<1>8. SumOf(d) = 100 * n
    <2>1. PICK a \in Int : a = 100
        OBVIOUS
    <2>2. \A i \in 1 .. Len(d) : d[i] = a
        BY <1>4, <2>1
    <2>3. SumOf(d) = a * Len(d)
        BY <1>4, <2>2, SumOfSame
    <2> QED BY <1>4, <2>1, <2>3
<1> QED BY <1>6, <1>7, <1>8 DEF n, s, t

\* Of the adjustments, what each adds without a floor, and its rate.
ExactAdjustments(list, exact) == [i \in 1 .. Len(list) |-> ExactAdjustment(list[i], exact)]
Rates(list) == [i \in 1 .. Len(list) |-> Rate(list[i])]

LEMMA AdjustmentsClose ==
    ASSUME NEW list \in Seq(AdjustmentItem), NEW exact \in Int, NEW amount \in Int, NEW n \in Nat,
           exact - 100 * amount <= 100 * n, 100 * amount - exact <= 100 * n
    PROVE  /\ SumOf(ExactAdjustments(list, exact)) \in Int
           /\ SumOf(AdjustmentsOf(list, amount)) \in Int
           /\ SumOf(Rates(list)) \in Nat
           /\ SumOf(ExactAdjustments(list, exact)) - 100 * SumOf(AdjustmentsOf(list, amount))
                  <= 201 * Len(list) + n * SumOf(Rates(list))
           /\ 100 * SumOf(AdjustmentsOf(list, amount)) - SumOf(ExactAdjustments(list, exact))
                  <= 201 * Len(list) + n * SumOf(Rates(list))
<1> DEFINE m == Len(list)
           s == ExactAdjustments(list, exact)
           t == AdjustmentsOf(list, amount)
           r == Rates(list)
           d == [i \in 1 .. m |-> 201 + n * Rate(list[i])]
<1>1. m \in Nat /\ \A i \in 1 .. m : list[i] \in AdjustmentItem
    BY ItemsOf
<1>2. /\ t \in Seq(Int) /\ Len(t) = m
      /\ \A i \in 1 .. m : t[i] = Signed(list[i], AdjustmentAmount(list[i], amount))
    BY AdjustmentsType
<1>3. s \in Seq(Int) /\ Len(s) = m /\ \A i \in 1 .. m : s[i] = ExactAdjustment(list[i], exact)
    <2>1. \A i \in 1 .. m : ExactAdjustment(list[i], exact) \in Int
        BY <1>1, AdjustmentClose
    <2> QED BY <1>1, <2>1 DEF ExactAdjustments
<1>4. r \in Seq(Int) /\ Len(r) = m /\ \A i \in 1 .. m : r[i] = Rate(list[i]) /\ r[i] \in Nat
    <2>1. \A i \in 1 .. m : Rate(list[i]) \in Nat
        BY <1>1, RateType
    <2> QED BY <1>1, <2>1 DEF Rates
<1>5. /\ d \in Seq(Int) /\ Len(d) = m
      /\ \A i \in 1 .. m : d[i] = 201 + n * Rate(list[i])
    <2>1. ASSUME NEW i \in 1 .. m PROVE 201 + n * Rate(list[i]) \in Int
        <3>1. Rate(list[i]) \in Nat
            BY <1>1, RateType
        <3>2. n * Rate(list[i]) \in Int
            BY <3>1, ProductType
        <3> QED BY <3>2
    <2> QED BY <1>1, <2>1
<1> HIDE DEF m, s, t, r, d
<1>6. \A i \in 1 .. m : s[i] - 100 * t[i] <= d[i] /\ 100 * t[i] - s[i] <= d[i]
    <2> TAKE i \in 1 .. m
    <2> DEFINE e == ExactAdjustment(list[i], exact)
               f == Signed(list[i], AdjustmentAmount(list[i], amount))
    <2>1. list[i] \in AdjustmentItem
        BY <1>1
    <2>2. e - 100 * f <= 201 + n * Rate(list[i]) /\ 100 * f - e <= 201 + n * Rate(list[i])
        BY ZenonT(60), <2>1, AdjustmentClose
    <2>3. s[i] = e /\ t[i] = f /\ d[i] = 201 + n * Rate(list[i])
        BY <1>2, <1>3, <1>5
    <2> HIDE DEF e, f
    <2> QED BY <2>2, <2>3
<1>7. SumOf(s) - 100 * SumOf(t) <= SumOf(d) /\ 100 * SumOf(t) - SumOf(s) <= SumOf(d)
    BY <1>2, <1>3, <1>5, <1>6, SumsClose
<1>8. SumOf(s) \in Int /\ SumOf(t) \in Int /\ SumOf(r) \in Int
    BY <1>2, <1>3, <1>4, SumType
<1>9. SumOf(d) = 201 * m + n * SumOf(r)
    <2>1. \A i \in 1 .. m : d[i] = 201 + n * r[i]
        BY <1>4, <1>5
    <2>2. PICK a \in Int : a = 201
        OBVIOUS
    <2>3. n \in Int /\ Len(d) = Len(r)
        BY <1>4, <1>5
    <2>4. \A i \in 1 .. Len(r) : d[i] = a + n * r[i]
        BY <1>4, <2>1, <2>2
    <2>5. SumOf(d) = a * Len(r) + n * SumOf(r)
        BY ZenonT(60), <1>4, <1>5, <2>3, <2>4, SumLinear
    <2> QED BY <1>4, <2>2, <2>5
<1>10. SumOf(r) >= 0
    <2>1. <<>> \in Seq(Int) /\ Len(<<>>) = 0
        BY EmptySeq
    <2>2. \A i \in 1 .. Len(r) : r[i] >= 0
        BY <1>4
    <2>3. Len(<<>>) <= Len(r) /\ \A i \in 1 .. Len(<<>>) : <<>>[i] <= r[i]
        BY <1>1, <1>4, <2>1
    <2>4. SumOf(<<>>) <= SumOf(r)
        BY <1>4, <2>1, <2>2, <2>3, SumAtMost
    <2> QED BY <2>4, SumEmpty
<1> QED BY <1>7, <1>8, <1>9, <1>10 DEF m, s, t, r

\* What is left to pay is the charge before credits, less the credits, as far as
\* they go.
LEMMA CreditsLeave ==
    ASSUME TypeOK, InOrder, Sums, Calculated, NoDebts(request.credits)
    PROVE  /\ SumOf(request.credits) \in Int
           /\ remainingCharge = NotBelowZero(chargeBeforeCredit - SumOf(request.credits))
<1> DEFINE s == request.credits
           t == AmountsApplied(appliedCredits)
<1>1. s \in Seq(Int) /\ appliedCredits \in Seq(Amount) /\ Len(s) \in Nat
    BY ItemType, ItemsOf DEF TypeOK
<1>2. /\ t \in Seq(Int) /\ Len(t) = Len(appliedCredits) /\ Len(t) \in Nat
      /\ \A i \in 1 .. Len(t) : t[i] = appliedCredits[i].amountApplied
    BY <1>1, AppliedType, ItemsOf
<1>3. chargeBeforeCredit - remainingCharge = SumOf(t)
    BY DEF Sums, Worked
<1>4. /\ Len(t) <= Len(s)
      /\ \A i \in 1 .. Len(t) : t[i] + appliedCredits[i].remainingBalance = s[i]
      /\ \A i \in 1 .. Len(t) : appliedCredits[i].remainingBalance >= 0
      /\ remainingCharge > 0 => \A i \in 1 .. Len(t) : appliedCredits[i].remainingBalance = 0
      /\ remainingCharge > 0 => Len(t) = Len(s)
    BY <1>2 DEF InOrder, CreditsSpentInOrder
<1>5. /\ \A i \in 1 .. Len(t) : appliedCredits[i].remainingBalance \in Int /\ t[i] \in Int
      /\ \A i \in 1 .. Len(s) : s[i] \in Int /\ s[i] >= 0
    <2>1. \A i \in 1 .. Len(t) : appliedCredits[i] \in Amount
        BY <1>1, <1>2, ItemsOf
    <2>2. \A i \in 1 .. Len(t) : appliedCredits[i].remainingBalance \in Int
        BY <2>1 DEF Amount
    <2>3. \A i \in 1 .. Len(t) : t[i] \in Int
        BY <1>2, ItemsOf
    <2>4. \A i \in 1 .. Len(s) : s[i] \in Int /\ s[i] >= 0
        BY <1>1, ItemsOf DEF NoDebts
    <2> QED BY <2>2, <2>3, <2>4
<1>6. SumOf(s) \in Int /\ SumOf(t) \in Int
    BY <1>1, <1>2, SumType
<1> HIDE DEF s, t
<1>7. remainingCharge \in Nat /\ chargeBeforeCredit \in Nat
    BY DEF TypeOK
<1>8. CASE remainingCharge > 0
    <2>1. Len(t) = Len(s) /\ \A i \in 1 .. Len(t) : t[i] = s[i]
        BY <1>1, <1>2, <1>4, <1>5, <1>8
    <2>2. t = s
        BY <1>1, <1>2, <2>1, SeqEqual
    <2>3. chargeBeforeCredit - SumOf(s) = remainingCharge
        BY <1>3, <1>6, <1>7, <2>2
    <2>4. NotBelowZero(remainingCharge) = remainingCharge
        BY <1>8 DEF NotBelowZero
    <2> QED BY <1>6, <2>3, <2>4 DEF s
<1>9. CASE remainingCharge = 0
    <2>1. \A i \in 1 .. Len(t) : t[i] <= s[i]
        <3> TAKE i \in 1 .. Len(t)
        <3>1. i \in 1 .. Len(s)
            BY <1>1, <1>2, <1>4
        <3>2. t[i] \in Int /\ s[i] \in Int /\ appliedCredits[i].remainingBalance \in Int
            BY <1>5, <3>1
        <3>3. t[i] + appliedCredits[i].remainingBalance = s[i] /\ appliedCredits[i].remainingBalance >= 0
            BY <1>4
        <3> QED BY <3>2, <3>3
    <2>2. \A i \in 1 .. Len(s) : s[i] >= 0
        BY <1>5
    <2>3. SumOf(t) <= SumOf(s)
        BY <1>1, <1>2, <1>4, <2>1, <2>2, SumAtMost
    <2>4. chargeBeforeCredit - SumOf(s) <= 0 /\ chargeBeforeCredit - SumOf(s) \in Int
        BY <1>3, <1>6, <1>7, <1>9, <2>3
    <2>5. NotBelowZero(chargeBeforeCredit - SumOf(s)) = 0
        BY <2>4 DEF NotBelowZero
    <2> QED BY <1>6, <1>9, <2>5 DEF s
<1> QED BY <1>7, <1>8, <1>9

LEMMA LateClose ==
    ASSUME TypeOK
    PROVE  LET late == IF request.isOverdue /\ request.unpaidAmount > 0
                          THEN request.unpaidAmount * LATE_FEE ELSE 0
           IN  /\ late \in Int /\ LateFee \in Int
               /\ late - 100 * LateFee <= 199 /\ 100 * LateFee - late <= 0
<1> DEFINE u == request.unpaidAmount
           p == Percent(u, LATE_FEE)
           x == u * LATE_FEE
<1>1. u \in Int /\ LATE_FEE \in Nat
    BY DEF TypeOK, BillingRequest, LATE_FEE
<1>2. p \in Int /\ x \in Int /\ 100 * p <= x /\ x - 199 <= 100 * p
    BY <1>1, PercentClose
<1>3. LateFee = IF request.isOverdue /\ u > 0 THEN p ELSE 0
    BY DEF LateFee
<1> HIDE DEF p, x
<1>4. x - 100 * p <= 199 /\ 100 * p - x <= 0
    BY <1>2
<1>5. CASE request.isOverdue /\ u > 0
    BY <1>2, <1>3, <1>4, <1>5 DEF x
<1>6. CASE ~(request.isOverdue /\ u > 0)
    BY <1>3, <1>6
<1> QED BY <1>5, <1>6

LEMMA SumsRounding == ASSUME TypeOK, InOrder, Sums PROVE RoundingBounded
<1> SUFFICES ASSUME Calculated PROVE Distance(100 * statement.totalAmount, ExactTotal) <= RoundingAllowance
    BY DEF RoundingBounded
<1> DEFINE n == Len(request.usage)
           m == Len(normalized)
           exact == SumOf(ExactLines(request.usage))
           adjusted == SumOf(ExactAdjustments(normalized, exact))
           rates == SumOf(Rates(normalized))
           nr == n * rates
           c == n * (100 + rates) + 201 * m
           credits == SumOf(request.credits)
           before == NotBelowZero(exact + adjusted)
           after == IF NoDebts(request.credits) THEN NotBelowZero(before - 100 * credits)
                       ELSE before - statement.creditApplied * 100
           late == IF request.isOverdue /\ request.unpaidAmount > 0
                      THEN request.unpaidAmount * LATE_FEE ELSE 0
           vat == Percent(remainingCharge, vatRate)
           exactVat == (after * vatRate) \div 100
           vatOff == (c * vatRate) \div 100
<1>1. /\ request.usage \in Seq(UsageItem) /\ normalized \in Seq(AdjustmentItem)
      /\ subtotal \in Int /\ adjustmentTotal \in Int /\ chargeBeforeCredit \in Nat
      /\ remainingCharge \in Nat /\ vatRate \in Nat /\ request.unpaidAmount \in Int
    BY DEF TypeOK, BillingRequest
<1>2. n \in Nat /\ m \in Nat
    BY <1>1, ItemsOf
<1>3. /\ subtotal = SumOf(buildLineItems(request.usage))
      /\ adjustmentTotal = SumOf(AdjustmentsOf(normalized, subtotal))
      /\ chargeBeforeCredit = NotBelowZero(subtotal + adjustmentTotal)
      /\ statement = Statement
    BY DEF Sums, Worked
<1>4. exact \in Int /\ exact - 100 * subtotal <= 100 * n /\ 100 * subtotal - exact <= 100 * n
    BY <1>1, <1>3, UsageClose
<1>5. /\ adjusted \in Int /\ rates \in Nat
      /\ adjusted - 100 * adjustmentTotal <= 201 * m + nr
      /\ 100 * adjustmentTotal - adjusted <= 201 * m + nr
    BY ZenonT(60), <1>1, <1>2, <1>3, <1>4, AdjustmentsClose
<1>6. nr \in Nat
    BY <1>2, <1>5, ProductType
<1>7. c = 100 * n + nr + 201 * m
    BY SMTT(30), <1>2, <1>5
<1>8. c \in Nat
    <2> HIDE DEF n, m, nr, c
    <2> QED BY <1>2, <1>6, <1>7
<1>9. /\ statement.totalAmount = remainingCharge + vat + request.unpaidAmount + LateFee
      /\ statement.creditApplied = chargeBeforeCredit - remainingCharge
    BY <1>3 DEF Statement, TotalAmount
<1>10. late \in Int /\ LateFee \in Int /\ late - 100 * LateFee <= 199 /\ 100 * LateFee - late <= 0
    BY LateClose
<1>11. ExactTotal = after + exactVat + request.unpaidAmount * 100 + late
    BY DEF ExactTotal, ExactLines, ExactAdjustments
<1>12. RoundingAllowance = c + vatOff + 402
    BY DEF RoundingAllowance, Rates
<1> HIDE DEF n, m, exact, adjusted, rates, nr, c, credits, late
<1>13. /\ before \in Nat /\ before - 100 * chargeBeforeCredit <= c /\ 100 * chargeBeforeCredit - before <= c
    <2>1. /\ exact + adjusted \in Int /\ subtotal + adjustmentTotal \in Int
          /\ (exact + adjusted) - 100 * (subtotal + adjustmentTotal) <= c
          /\ 100 * (subtotal + adjustmentTotal) - (exact + adjusted) <= c
        BY <1>1, <1>2, <1>4, <1>5, <1>6, <1>7
    <2> QED BY <1>3, <1>8, <2>1, CutOffClose
<1> HIDE DEF before
<1>14. after \in Int /\ after - 100 * remainingCharge <= c /\ 100 * remainingCharge - after <= c
    <2>1. CASE NoDebts(request.credits)
        <3>1. credits \in Int /\ remainingCharge = NotBelowZero(chargeBeforeCredit - credits)
            BY <2>1, CreditsLeave DEF credits
        <3>2. /\ before - 100 * credits \in Int /\ chargeBeforeCredit - credits \in Int
              /\ (before - 100 * credits) - 100 * (chargeBeforeCredit - credits) <= c
              /\ 100 * (chargeBeforeCredit - credits) - (before - 100 * credits) <= c
            BY <1>1, <1>8, <1>13, <3>1
        <3>3. after = NotBelowZero(before - 100 * credits)
            BY <2>1
        <3> HIDE DEF after
        <3> QED BY <1>8, <3>1, <3>2, <3>3, CutOffClose
    <2>2. CASE ~NoDebts(request.credits)
        <3>1. after = before - (chargeBeforeCredit - remainingCharge) * 100
            BY <1>9, <2>2
        <3> HIDE DEF after
        <3> QED BY <1>1, <1>8, <1>13, <3>1
    <2> QED BY <2>1, <2>2
<1> HIDE DEF after
<1>15. exactVat - 100 * vat <= vatOff + 199 /\ 100 * vat - exactVat <= vatOff + 1
    <2>1. after \in Int /\ remainingCharge \in Int /\ c \in Nat /\ vatRate \in Nat
        BY <1>1, <1>8, <1>14
    <2>2. after - 100 * remainingCharge <= c /\ 100 * remainingCharge - after <= c
        BY <1>14
    <2> QED BY <2>1, <2>2, PercentOfClose, Zenon
<1>16. vat \in Int /\ exactVat \in Int /\ vatOff \in Int
    <2>1. vat \in Int
        BY <1>1, PercentClose
    <2>2. after * vatRate \in Int
        BY <1>1, <1>14, ProductType
    <2>3. c * vatRate \in Int
        BY <1>1, <1>8, ProductType
    <2> QED BY <2>1, <2>2, <2>3
<1> HIDE DEF vat, exactVat, vatOff
<1> DEFINE total == statement.totalAmount
           exactTotal == ExactTotal
           unpaid == request.unpaidAmount
           fee == LateFee
<1>17. /\ total \in Int /\ exactTotal \in Int
       /\ 100 * total - exactTotal <= c + vatOff + 402
       /\ exactTotal - 100 * total <= c + vatOff + 402
    <2>1. /\ total = remainingCharge + vat + unpaid + fee
          /\ exactTotal = after + exactVat + unpaid * 100 + late
        BY <1>9, <1>11
    <2>2. unpaid \in Int /\ fee \in Int /\ late - 100 * fee <= 199 /\ 100 * fee - late <= 0
        BY <1>1, <1>10
    <2>3. /\ remainingCharge \in Int /\ vat \in Int /\ after \in Int /\ exactVat \in Int /\ late \in Int
          /\ c \in Int /\ vatOff \in Int
        BY <1>1, <1>8, <1>10, <1>14, <1>16
    <2> HIDE DEF total, exactTotal, unpaid, fee
    <2>4. total \in Int /\ exactTotal \in Int
        BY <2>1, <2>2, <2>3
    <2>5. 100 * total - exactTotal =
              (100 * remainingCharge - after) + (100 * vat - exactVat) + (100 * fee - late)
        BY <2>1, <2>2, <2>3
    <2>6. exactTotal - 100 * total =
              (after - 100 * remainingCharge) + (exactVat - 100 * vat) + (late - 100 * fee)
        BY <2>1, <2>2, <2>3
    <2> QED BY <1>14, <1>15, <2>2, <2>3, <2>4, <2>5, <2>6
<1>18. Distance(100 * total, exactTotal) \in {100 * total - exactTotal, exactTotal - 100 * total}
    <2> HIDE DEF total, exactTotal
    <2> QED BY <1>17 DEF Distance
<1> HIDE DEF total, exactTotal
<1>19. Distance(100 * total, exactTotal) <= c + vatOff + 402
    BY <1>17, <1>18
<1> QED BY <1>12, <1>19 DEF total, exactTotal

\* For every request, VAT rate and set of products that fall short, the floors a
\* total went through cost no more than a Won or two for each of them.
THEOREM RoundingIsBounded == Spec => []RoundingBounded
    BY WorkedUp, SumsRounding, PTL

------------------------------------------------------------------------------
(* What the form sends is answered.                                          *)

\* The usage adds up to no less than zero, and a credit that is no debt never
\* raises the charge.
Answerable ==
    AcceptedInput(request) =>
        /\ subtotal >= 0
        /\ remainingCharge <= chargeBeforeCredit

Amounts == <<subtotal, chargeBeforeCredit, remainingCharge>>

LEMMA ItemAccepted ==
    ASSUME TypeOK, AcceptedInput(request)
    PROVE  /\ done < Len(request.usage) => request.usage[done + 1].counterVolume >= 0
           /\ done < Len(request.credits) => request.credits[done + 1] >= 0
           /\ done < Len(request.adjustments) => Valid(request.adjustments[done + 1])
           /\ request.unpaidAmount >= 0 /\ request.targetDate # BadDate
<1>1. done \in Nat /\ Len(request.usage) \in Nat /\ Len(request.credits) \in Nat
      /\ Len(request.adjustments) \in Nat
    BY ItemType DEF TypeOK
<1> QED BY <1>1 DEF AcceptedInput, NoDebts

LEMMA AnswerableStep == TypeOK /\ TypeOK' /\ Answerable /\ [Next]_vars => Answerable'
<1> SUFFICES ASSUME TypeOK, TypeOK', Answerable, [Next]_vars, AcceptedInput(request')
             PROVE  subtotal' >= 0 /\ remainingCharge' <= chargeBeforeCredit'
    BY DEF Answerable
<1>1. CASE Receive
    BY <1>1 DEF Receive, Take
<1>2. ASSUME UNCHANGED <<request, Amounts>> PROVE subtotal' >= 0 /\ remainingCharge' <= chargeBeforeCredit'
    BY <1>2 DEF Amounts, Answerable
<1>3. CASE \/ ReceiveNotJson \/ ReceiveNull \/ GetStatements \/ ProcessPayment \/ UNCHANGED vars
           \/ NormalizeFails \/ RespondFails \/ Respond
           \/ Normalize \/ NormalizeDone \/ UsageDone \/ AddAdjustment
    <2>1. UNCHANGED <<request, Amounts>>
        BY <1>3 DEF ReceiveNotJson, ReceiveNull, GetStatements, ProcessPayment, AnswerAtOnce, NormalizeFails,
                    RespondFails, Answer, Respond, Normalize, NormalizeDone, UsageDone,
                    AddAdjustment, GoTo, loop, vars, Amounts
    <2> QED BY <1>2, <2>1
<1>4. CASE AddUsage
    <2>1. done < Len(request.usage) /\ request' = request
          /\ subtotal' = subtotal + UsageAmount(request.usage[done + 1])
          /\ UNCHANGED <<chargeBeforeCredit, remainingCharge>>
        BY <1>4 DEF AddUsage
    <2>2. UsageAmount(request.usage[done + 1]) \in Int /\ UsageAmount(request.usage[done + 1]) >= 0
        BY <2>1, ItemType, ItemAccepted, UsageAmountType
    <2> QED BY <2>1, <2>2 DEF Answerable, TypeOK
<1>5. CASE AdjustmentsDone
    BY <1>5 DEF AdjustmentsDone, Answerable, TypeOK
<1>6. CASE ApplyCredit
    <2>1. done < Len(request.credits) /\ request' = request
          /\ remainingCharge' = remainingCharge - AmountApplied(request.credits[done + 1])
          /\ UNCHANGED <<subtotal, chargeBeforeCredit>>
        BY <1>6 DEF ApplyCredit
    <2>2. request.credits[done + 1] \in Int /\ request.credits[done + 1] >= 0
        BY <2>1, ItemType, ItemAccepted
    <2>3. AmountApplied(request.credits[done + 1]) \in Nat
        BY <2>2 DEF AmountApplied, TypeOK
    <2> QED BY <2>1, <2>3 DEF Answerable, TypeOK
<1> QED BY <1>1, <1>3, <1>4, <1>5, <1>6 DEF Next, Calculate

\* The statement of a request the form can send.
LEMMA StatementOfAccepted ==
    ASSUME TypeOK, Answerable, AcceptedInput(request), Respond
    PROVE  AcceptedInputAnswered'
<1>1. /\ request.unpaidAmount \in Int /\ request.unpaidAmount >= 0
      /\ subtotal \in Nat /\ remainingCharge \in Nat /\ chargeBeforeCredit - remainingCharge \in Nat
    BY ItemAccepted DEF TypeOK, BillingRequest, Answerable
<1>2. Percent(remainingCharge, vatRate) \in Int /\ Percent(remainingCharge, vatRate) >= 0
    <2>1. remainingCharge \in Int /\ remainingCharge >= 0 /\ vatRate \in Nat
        BY DEF TypeOK
    <2> QED BY <2>1, PercentType
<1>3. LateFee \in Nat
    BY LateFeeType
<1>4. TotalAmount >= request.unpaidAmount
    BY <1>1, <1>2, <1>3 DEF TotalAmount
<1>5. /\ statement'.subtotal = subtotal
      /\ statement'.creditApplied = chargeBeforeCredit - remainingCharge
      /\ statement'.charge = remainingCharge
      /\ statement'.vat = Percent(remainingCharge, vatRate)
      /\ statement'.lateFee = LateFee
      /\ statement'.totalAmount = TotalAmount
      /\ statement'.unpaidAmount = request.unpaidAmount
    BY DEF Respond, Statement
<1>6. status' = 200
    BY DEF Respond
<1> QED BY <1>1, <1>2, <1>3, <1>4, <1>5, <1>6 DEF AcceptedInputAnswered

LEMMA AnsweredStep ==
    TypeOK /\ Answerable /\ AcceptedInputAnswered /\ [Next]_vars => AcceptedInputAnswered'
<1> SUFFICES ASSUME TypeOK, Answerable, AcceptedInputAnswered, [Next]_vars,
                    AcceptedInput(request'), pc' = "answered"
             PROVE  AcceptedInputAnswered'
    BY DEF AcceptedInputAnswered
<1>1. CASE Respond
    <2>1. request' = request
        BY <1>1 DEF Respond
    <2> QED BY <1>1, <2>1, StatementOfAccepted
<1>2. CASE NormalizeFails \/ RespondFails
    BY <1>2, ItemAccepted DEF NormalizeFails, RespondFails, Answer
<1>3. CASE UNCHANGED vars
    BY <1>3 DEF vars, AcceptedInputAnswered
<1>4. CASE \/ Receive \/ ReceiveNotJson \/ ReceiveNull \/ GetStatements \/ ProcessPayment
           \/ Normalize \/ NormalizeDone \/ AddUsage \/ UsageDone \/ AddAdjustment
           \/ AdjustmentsDone \/ ApplyCredit
    BY <1>4 DEF Receive, Take, ReceiveNotJson, ReceiveNull, GetStatements, ProcessPayment, AnswerAtOnce, Normalize,
                NormalizeDone, AddUsage, UsageDone, AddAdjustment, AdjustmentsDone, ApplyCredit, GoTo
<1> QED BY <1>1, <1>2, <1>3, <1>4 DEF Next, Calculate

LEMMA AnswerableInit == Init => Answerable /\ AcceptedInputAnswered
    BY DEF Init, Answerable, AcceptedInputAnswered

\* What the form can send is answered with a statement in which nothing is
\* negative, whatever its discounts, credits and rates.
THEOREM AcceptedInputIsAnswered == Spec => []AcceptedInputAnswered
<1>1. Spec => [](TypeOK /\ Answerable)
    BY TypeCorrect, AnswerableInit, AnswerableStep, PTL DEF Spec
<1> QED BY <1>1, AnswerableInit, AnsweredStep, PTL DEF Spec

------------------------------------------------------------------------------
(* The worker, whoever its client is.                                        *)

WorkerInv == TypeOK /\ InOrder /\ Sums /\ Answerable /\ AcceptedInputAnswered

LEMMA WorkerInit == Init => WorkerInv
    BY TypeInit, InOrderInit, SumsInit, AnswerableInit DEF WorkerInv

LEMMA WorkerStays == WorkerInv /\ [Next]_vars => WorkerInv'
<1> SUFFICES ASSUME WorkerInv, [Next]_vars PROVE WorkerInv'
    OBVIOUS
<1>1. TypeOK'
    BY TypeStep DEF WorkerInv
<1> QED BY <1>1, InOrderStep, SumsStep, AnswerableStep, AnsweredStep DEF WorkerInv

------------------------------------------------------------------------------
(* What is shown of a statement.                                             *)

LEMMA RowIfSum ==
    ASSUME NEW shown \in BOOLEAN, NEW amount \in Int
    PROVE  /\ RowIf(shown, amount) \in Seq(Int)
           /\ SumOf(RowIf(shown, amount)) = IF shown THEN amount ELSE 0
<1>1. CASE shown = TRUE
    <2>1. RowIf(shown, amount) = <<amount>>
        BY <1>1 DEF RowIf
    <2> QED BY <1>1, <2>1, SumOfOne
<1>2. CASE shown = FALSE
    <2>1. RowIf(shown, amount) = <<>>
        BY <1>2 DEF RowIf
    <2> QED BY <1>2, <2>1, SumEmpty, EmptySeq
<1> QED BY <1>1, <1>2

\* The figures of a statement are integers, its lists are of them.
LEMMA StatementType ==
    ASSUME TypeOK, Sums, Calculated
    PROVE  LET s == statement
           IN  /\ s.lineItems \in Seq(Int)
               /\ SignedAmounts(s.appliedAdjustments) \in Seq(Int)
               /\ s.appliedCredits \in Seq(Amount)
               /\ s.subtotal \in Int /\ s.adjustmentTotal \in Int /\ s.creditApplied \in Int
               /\ s.charge \in Nat /\ s.vat \in Int /\ s.unpaidAmount \in Int /\ s.lateFee \in Nat
               /\ s.totalAmount \in Int /\ s.billingGroupDiscount = 0
               /\ s.unpaidAmount = request.unpaidAmount
<1>1. statement = Statement
    BY DEF Sums
<1>2. /\ statement.lineItems = buildLineItems(request.usage)
      /\ statement.appliedAdjustments = buildAdjustmentItems(normalized, subtotal)
      /\ statement.appliedCredits = appliedCredits
      /\ statement.subtotal = subtotal /\ statement.adjustmentTotal = adjustmentTotal
      /\ statement.creditApplied = chargeBeforeCredit - remainingCharge
      /\ statement.charge = remainingCharge
      /\ statement.vat = Percent(remainingCharge, vatRate)
      /\ statement.unpaidAmount = request.unpaidAmount /\ statement.lateFee = LateFee
      /\ statement.totalAmount = TotalAmount /\ statement.billingGroupDiscount = 0
    BY <1>1 DEF Statement
<1>3. /\ remainingCharge \in Nat /\ chargeBeforeCredit \in Nat /\ vatRate \in Nat
      /\ subtotal \in Int /\ adjustmentTotal \in Int /\ request.unpaidAmount \in Int
      /\ normalized \in Seq(AdjustmentItem) /\ appliedCredits \in Seq(Amount)
    BY DEF TypeOK, BillingRequest
<1>4. Percent(remainingCharge, vatRate) \in Int /\ LateFee \in Nat
    BY <1>3, PercentType, LateFeeType
<1>5. TotalAmount \in Int
    BY <1>3, <1>4 DEF TotalAmount
<1>6. statement.lineItems \in Seq(Int)
    BY <1>2, ItemType, LineItemsType
<1>7. SignedAmounts(statement.appliedAdjustments) \in Seq(Int)
    BY <1>2, <1>3, StatementAdjustments, AdjustmentsType
<1>8. chargeBeforeCredit - remainingCharge \in Int
    BY <1>3
<1> QED BY <1>2, <1>3, <1>4, <1>5, <1>6, <1>7, <1>8

\* What the figures of a statement are to one another when discounts stay within
\* the subtotal and nothing asked for is negative.
LEMMA FiguresOfAccepted ==
    ASSUME TypeOK, Sums, AcceptedInputAnswered, Calculated, AcceptedInput(request),
           DiscountsWithinSubtotal
    PROVE  LET s == statement
           IN  /\ s.creditApplied >= 0 /\ s.unpaidAmount >= 0
               /\ s.charge = s.subtotal + s.adjustmentTotal - s.creditApplied
               /\ s.totalAmount = s.charge + s.vat + s.unpaidAmount + s.lateFee
               /\ ShownVat(s) = s.vat
<1> DEFINE s == statement
<1>1. s.creditApplied >= 0 /\ s.unpaidAmount >= 0
    BY StatementType DEF AcceptedInputAnswered, AcceptedInput, Calculated
<1>2. /\ s.subtotal \in Int /\ s.adjustmentTotal \in Int /\ s.creditApplied \in Int
      /\ s.charge \in Nat /\ s.vat \in Int /\ s.unpaidAmount \in Int /\ s.lateFee \in Nat
    BY StatementType
<1>3. /\ s.charge = NotBelowZero(s.subtotal + s.adjustmentTotal) - s.creditApplied
      /\ s.totalAmount = s.charge + s.vat + s.unpaidAmount + s.lateFee
    BY SumsAddUp DEF StatementAddsUp
<1>4. NotBelowZero(s.subtotal + s.adjustmentTotal) = s.subtotal + s.adjustmentTotal
    BY <1>2 DEF NotBelowZero, DiscountsWithinSubtotal
<1>5. s.charge = s.subtotal + s.adjustmentTotal - s.creditApplied
    BY <1>2, <1>3, <1>4
<1>6. ShownVat(s) = s.totalAmount - (s.subtotal + s.adjustmentTotal - s.creditApplied + s.unpaidAmount + s.lateFee)
    BY DEF ShownVat
<1> HIDE DEF s
<1>7. ShownVat(s) = s.vat
    BY <1>2, <1>3, <1>5, <1>6
<1> QED BY <1>1, <1>3, <1>5, <1>7 DEF s

LEMMA DetailsAddUp ==
    ASSUME TypeOK, Sums, AcceptedInputAnswered, Calculated, AcceptedInput(request),
           DiscountsWithinSubtotal, statement.lineItems # <<>>
    PROVE  SumOf(DetailRows(statement)) = statement.totalAmount
<1> DEFINE s == statement
           adjustments == [i \in 1 .. Len(s.appliedAdjustments) |-> AdjustmentRow(s.appliedAdjustments[i])]
           credits == [i \in 1 .. Len(s.appliedCredits) |-> -s.appliedCredits[i].amountApplied]
           unpaid == RowIf(s.unpaidAmount > 0, s.unpaidAmount)
           late == RowIf(s.lateFee > 0, s.lateFee)
           applied == AmountsApplied(s.appliedCredits)
<1>1. /\ s.lineItems \in Seq(Int) /\ SignedAmounts(s.appliedAdjustments) \in Seq(Int)
      /\ s.appliedCredits \in Seq(Amount)
      /\ s.subtotal \in Int /\ s.adjustmentTotal \in Int /\ s.creditApplied \in Int
      /\ s.charge \in Nat /\ s.vat \in Int /\ s.unpaidAmount \in Int /\ s.lateFee \in Nat
    BY StatementType
<1>2. /\ SumOf(s.lineItems) = s.subtotal
      /\ SumOf(SignedAmounts(s.appliedAdjustments)) = s.adjustmentTotal
      /\ SumOf(applied) = s.creditApplied
    BY SumsAddUp DEF StatementAddsUp
<1>3. adjustments = SignedAmounts(s.appliedAdjustments)
    BY DEF AdjustmentRow, SignedAmounts, Signed
<1>4. /\ applied \in Seq(Int) /\ Len(applied) = Len(s.appliedCredits) /\ Len(applied) \in Nat
      /\ \A i \in 1 .. Len(applied) : applied[i] = s.appliedCredits[i].amountApplied /\ applied[i] \in Int
    BY <1>1, AppliedType, ItemsOf
<1>5. credits \in Seq(Int) /\ Len(credits) = Len(applied) /\ \A i \in 1 .. Len(applied) : credits[i] = -applied[i]
    <2>1. \A i \in 1 .. Len(applied) : credits[i] = -applied[i] /\ credits[i] \in Int
        BY <1>4
    <2>2. credits \in [1 .. Len(applied) -> Int]
        BY <1>4
    <2> HIDE DEF credits, applied
    <2>3. credits \in Seq(Int) /\ Len(credits) = Len(applied)
        BY SMTT(30), <1>4, <2>2
    <2> QED BY <2>1, <2>3
<1>6. /\ unpaid \in Seq(Int) /\ SumOf(unpaid) = IF s.unpaidAmount > 0 THEN s.unpaidAmount ELSE 0
      /\ late \in Seq(Int) /\ SumOf(late) = IF s.lateFee > 0 THEN s.lateFee ELSE 0
    <2>1. (s.unpaidAmount > 0) \in BOOLEAN /\ (s.lateFee > 0) \in BOOLEAN /\ s.lateFee \in Int
        BY <1>1
    <2> QED BY <1>1, <2>1, RowIfSum
<1>7. /\ s.unpaidAmount >= 0 /\ ShownVat(s) = s.vat
      /\ s.charge = s.subtotal + s.adjustmentTotal - s.creditApplied
      /\ s.totalAmount = s.charge + s.vat + s.unpaidAmount + s.lateFee
    BY FiguresOfAccepted
<1>8. DetailRows(s) = s.lineItems \o adjustments \o credits \o unpaid \o late \o <<ShownVat(s)>>
    BY DEF DetailRows
<1> HIDE DEF adjustments, credits, unpaid, late, applied, s
<1>9. SumOf(credits) = -s.creditApplied
    BY <1>2, <1>4, <1>5, SumsOpposite
<1>10. SumOf(unpaid) = s.unpaidAmount /\ SumOf(late) = s.lateFee
    BY SMTT(30), <1>1, <1>6, <1>7
<1>11. /\ s.lineItems \o adjustments \in Seq(Int)
       /\ SumOf(s.lineItems \o adjustments) = s.subtotal + s.adjustmentTotal
    BY <1>1, <1>2, <1>3, SumConcat
<1>12. /\ s.lineItems \o adjustments \o credits \in Seq(Int)
       /\ SumOf(s.lineItems \o adjustments \o credits) = s.subtotal + s.adjustmentTotal + -s.creditApplied
    BY <1>5, <1>9, <1>11, SumConcat
<1>13. /\ s.lineItems \o adjustments \o credits \o unpaid \in Seq(Int)
       /\ SumOf(s.lineItems \o adjustments \o credits \o unpaid) =
              s.subtotal + s.adjustmentTotal + -s.creditApplied + s.unpaidAmount
    BY <1>6, <1>10, <1>12, SumConcat
<1>14. /\ s.lineItems \o adjustments \o credits \o unpaid \o late \in Seq(Int)
       /\ SumOf(s.lineItems \o adjustments \o credits \o unpaid \o late) =
              s.subtotal + s.adjustmentTotal + -s.creditApplied + s.unpaidAmount + s.lateFee
    BY <1>6, <1>10, <1>13, SumConcat
<1>15. <<ShownVat(s)>> \in Seq(Int) /\ SumOf(<<ShownVat(s)>>) = s.vat
    BY <1>1, <1>7, SumOfOne
<1>16. SumOf(DetailRows(s)) =
           s.subtotal + s.adjustmentTotal + -s.creditApplied + s.unpaidAmount + s.lateFee + s.vat
    BY <1>8, <1>14, <1>15, SumConcat
<1>17. s.subtotal + s.adjustmentTotal + -s.creditApplied = s.charge
    BY <1>1, <1>7
<1>18. s.charge + s.unpaidAmount + s.lateFee + s.vat = s.charge + s.vat + s.unpaidAmount + s.lateFee
    BY <1>1
<1>19. SumOf(DetailRows(s)) = s.totalAmount
    BY <1>7, <1>16, <1>17, <1>18
<1> QED BY <1>19 DEF s

LEMMA SummaryAddsUp ==
    ASSUME TypeOK, Sums, AcceptedInputAnswered, Calculated, AcceptedInput(request),
           DiscountsWithinSubtotal
    PROVE  SumOf(SummaryRows(statement)) + statement.vat = statement.totalAmount
<1> DEFINE s == statement
           first == <<s.subtotal>>
           adjustments == RowIf(s.adjustmentTotal # 0, s.adjustmentTotal)
           credits == RowIf(s.creditApplied > 0, -s.creditApplied)
           unpaid == RowIf(s.unpaidAmount > 0, s.unpaidAmount)
           late == RowIf(s.lateFee > 0, s.lateFee)
<1>1. /\ s.subtotal \in Int /\ s.adjustmentTotal \in Int /\ s.creditApplied \in Int /\ -s.creditApplied \in Int
      /\ s.charge \in Nat /\ s.vat \in Int /\ s.unpaidAmount \in Int /\ s.lateFee \in Nat /\ s.lateFee \in Int
    BY StatementType
<1>2. /\ s.unpaidAmount >= 0 /\ s.creditApplied >= 0
      /\ s.charge = s.subtotal + s.adjustmentTotal - s.creditApplied
      /\ s.totalAmount = s.charge + s.vat + s.unpaidAmount + s.lateFee
    BY FiguresOfAccepted
<1>3. SummaryRows(s) = first \o adjustments \o credits \o unpaid \o late
    BY DEF SummaryRows
<1>4. first \in Seq(Int) /\ SumOf(first) = s.subtotal
    BY <1>1, SumOfOne
<1>5. adjustments \in Seq(Int) /\ SumOf(adjustments) = s.adjustmentTotal
    <2>1. (s.adjustmentTotal # 0) \in BOOLEAN
        OBVIOUS
    <2>2. /\ adjustments \in Seq(Int)
          /\ SumOf(adjustments) = IF s.adjustmentTotal # 0 THEN s.adjustmentTotal ELSE 0
        BY <1>1, <2>1, RowIfSum
    <2> QED BY <2>2
<1>6. credits \in Seq(Int) /\ SumOf(credits) = -s.creditApplied
    <2>1. (s.creditApplied > 0) \in BOOLEAN
        BY <1>1
    <2>2. credits \in Seq(Int) /\ SumOf(credits) = IF s.creditApplied > 0 THEN -s.creditApplied ELSE 0
        BY <1>1, <2>1, RowIfSum
    <2> QED BY <1>1, <1>2, <2>2
<1>7. unpaid \in Seq(Int) /\ SumOf(unpaid) = s.unpaidAmount /\ late \in Seq(Int) /\ SumOf(late) = s.lateFee
    <2>1. (s.unpaidAmount > 0) \in BOOLEAN /\ (s.lateFee > 0) \in BOOLEAN
        BY <1>1
    <2>2. /\ unpaid \in Seq(Int) /\ SumOf(unpaid) = IF s.unpaidAmount > 0 THEN s.unpaidAmount ELSE 0
          /\ late \in Seq(Int) /\ SumOf(late) = IF s.lateFee > 0 THEN s.lateFee ELSE 0
        BY <1>1, <2>1, RowIfSum
    <2> QED BY SMTT(30), <1>1, <1>2, <2>2
<1> HIDE DEF first, adjustments, credits, unpaid, late, s
<1>8. first \o adjustments \in Seq(Int) /\ SumOf(first \o adjustments) = s.subtotal + s.adjustmentTotal
    BY <1>4, <1>5, SumConcat
<1>9. /\ first \o adjustments \o credits \in Seq(Int)
      /\ SumOf(first \o adjustments \o credits) = s.subtotal + s.adjustmentTotal + -s.creditApplied
    BY <1>6, <1>8, SumConcat
<1>10. /\ first \o adjustments \o credits \o unpaid \in Seq(Int)
       /\ SumOf(first \o adjustments \o credits \o unpaid) =
              s.subtotal + s.adjustmentTotal + -s.creditApplied + s.unpaidAmount
    BY <1>7, <1>9, SumConcat
<1>11. SumOf(SummaryRows(s)) = s.subtotal + s.adjustmentTotal + -s.creditApplied + s.unpaidAmount + s.lateFee
    BY <1>3, <1>7, <1>10, SumConcat
<1>12. SumOf(SummaryRows(s)) + s.vat = s.totalAmount
    BY <1>1, <1>2, <1>11
<1> QED BY <1>12 DEF s

LEMMA ViewsOfStatement ==
    ASSUME TypeOK, Sums, AcceptedInputAnswered
    PROVE  ViewsAgree
<1> SUFFICES ASSUME Calculated, AcceptedInput(request), DiscountsWithinSubtotal PROVE ViewsAgree
    BY DEF ViewsAgree
<1> DEFINE s == statement
<1>1. /\ s.subtotal \in Int /\ s.adjustmentTotal \in Int /\ s.creditApplied \in Int /\ -s.creditApplied \in Int
      /\ s.charge \in Int /\ s.vat \in Int /\ s.unpaidAmount \in Int /\ s.lateFee \in Int
      /\ -s.billingGroupDiscount = 0
    BY StatementType
<1>2. /\ s.charge = s.subtotal + s.adjustmentTotal - s.creditApplied
      /\ s.totalAmount = s.charge + s.vat + s.unpaidAmount + s.lateFee /\ ShownVat(s) = s.vat
    BY FiguresOfAccepted
<1>3. ChargeItems(s) = <<s.subtotal, 0, s.adjustmentTotal, -s.creditApplied>>
    BY <1>1 DEF ChargeItems
<1>4. SumOf(ChargeItems(s)) = s.subtotal + 0 + s.adjustmentTotal + -s.creditApplied
    BY <1>1, <1>3, SumOfFour
<1>5. SumOf(FinalItems(s)) = s.charge + s.vat + s.unpaidAmount + s.lateFee
    BY <1>1, SumOfFour DEF FinalItems
<1>6. SumOf(ChargeItems(s)) = s.charge /\ SumOf(FinalItems(s)) = s.totalAmount
    BY <1>1, <1>2, <1>4, <1>5
<1> QED BY <1>2, <1>6, DetailsAddUp, SummaryAddsUp DEF ViewsAgree

------------------------------------------------------------------------------
(* The PDF.                                                                  *)

Part == [page : Nat, top : Nat, bottom : Nat]

\* What is drawn next is on a later page, or below.
Follows(p, q) == p.page < q.page \/ (p.page = q.page /\ p.bottom < q.top)

Readable(d) ==
    /\ d \in Seq(Part)
    /\ \A i \in 1 .. Len(d) : d[i].bottom <= PAGE_HEIGHT
    /\ \A i \in 1 .. Len(d) - 1 : Follows(d[i], d[i + 1])

LEMMA JoinReadable ==
    ASSUME NEW d, NEW e, Readable(d), Readable(e), Len(d) > 0, Len(e) > 0, Follows(d[Len(d)], e[1])
    PROVE  /\ Readable(d \o e) /\ Len(d \o e) = Len(d) + Len(e)
           /\ \A i \in 1 .. Len(d) : (d \o e)[i] = d[i]
           /\ \A i \in 1 .. Len(e) : (d \o e)[Len(d) + i] = e[i]
<1> DEFINE u == d \o e
           n == Len(d)
           m == Len(e)
<1>1. d \in Seq(Part) /\ e \in Seq(Part) /\ n \in Nat /\ m \in Nat
    BY ItemsOf DEF Readable
<1>2. /\ u \in Seq(Part) /\ Len(u) = n + m
      /\ \A i \in 1 .. n + m : u[i] = IF i <= n THEN d[i] ELSE e[i - n]
    BY <1>1, ConcatProperties
<1>3. /\ \A i \in 1 .. n : d[i].bottom <= PAGE_HEIGHT
      /\ \A i \in 1 .. n - 1 : Follows(d[i], d[i + 1])
      /\ \A i \in 1 .. m : e[i].bottom <= PAGE_HEIGHT
      /\ \A i \in 1 .. m - 1 : Follows(e[i], e[i + 1])
      /\ n > 0 /\ m > 0 /\ Follows(d[n], e[1])
    BY DEF Readable
<1> HIDE DEF u, n, m
<1>4. (\A i \in 1 .. n : u[i] = d[i]) /\ (\A i \in 1 .. m : u[n + i] = e[i])
    <2>1. ASSUME NEW i \in 1 .. n PROVE u[i] = d[i]
        BY <1>1, <1>2
    <2>2. ASSUME NEW i \in 1 .. m PROVE u[n + i] = e[i]
        <3>1. n + i \in 1 .. n + m /\ ~(n + i <= n) /\ (n + i) - n = i
            BY <1>1
        <3>2. u[n + i] = e[(n + i) - n]
            BY <1>2, <3>1, Zenon
        <3> QED BY <3>1, <3>2
    <2> QED BY <2>1, <2>2
<1>5. ASSUME NEW i \in 1 .. n + m PROVE u[i].bottom <= PAGE_HEIGHT
    <2>1. CASE i <= n
        BY <1>1, <1>3, <1>4, <2>1
    <2>2. CASE ~(i <= n)
        <3>1. i - n \in 1 .. m
            BY <1>1, <2>2
        <3>2. u[i] = e[i - n]
            BY <1>2, <2>2
        <3> QED BY <1>3, <3>1, <3>2
    <2> QED BY <2>1, <2>2
<1>6. ASSUME NEW i \in 1 .. n + m - 1 PROVE Follows(u[i], u[i + 1])
    <2>1. CASE i < n
        <3>1. i \in 1 .. n - 1 /\ i \in 1 .. n /\ i + 1 \in 1 .. n
            BY <1>1, <2>1
        <3>2. u[i] = d[i] /\ u[i + 1] = d[i + 1]
            BY <1>4, <3>1
        <3> QED BY <1>3, <3>1, <3>2
    <2>2. CASE i = n
        <3>1. n \in 1 .. n /\ 1 \in 1 .. m
            BY <1>1, <1>3
        <3>2. u[n] = d[n] /\ u[n + 1] = e[1]
            BY <1>4, <3>1
        <3> QED BY <1>3, <2>2, <3>2
    <2>3. CASE i > n
        <3>1. i - n \in 1 .. m - 1 /\ i - n \in 1 .. m /\ i - n + 1 \in 1 .. m
            BY <1>1, <2>3
        <3>2. i \in 1 .. n + m /\ i + 1 \in 1 .. n + m /\ ~(i <= n) /\ ~(i + 1 <= n) /\ i + 1 - n = i - n + 1
            BY <1>1, <2>3
        <3>3. u[i] = e[i - n]
            BY <1>2, <3>2, Zenon
        <3>4. PICK j \in 1 .. n + m : j = i + 1
            BY <3>2
        <3>5. ~(j <= n) /\ j - n = i - n + 1
            BY <1>1, <3>2, <3>4
        <3>6. u[j] = e[j - n]
            BY <1>2, <3>5, Zenon
        <3>7. u[i + 1] = e[i - n + 1]
            BY <3>4, <3>5, <3>6
        <3> QED BY <1>3, <3>1, <3>3, <3>7
    <2> QED BY <1>1, <2>1, <2>2, <2>3
<1>7. Readable(u)
    <2>1. \A i \in 1 .. Len(u) : u[i].bottom <= PAGE_HEIGHT
        BY <1>2, <1>5
    <2>2. \A i \in 1 .. Len(u) - 1 : Follows(u[i], u[i + 1])
        <3>1. Len(u) = n + m
            BY <1>2, Zenon
        <3>2. Len(u) - 1 = n + m - 1
            BY <1>1, <3>1
        <3> QED BY <1>6, <3>2, Zenon
    <2>3. u \in Seq(Part)
        BY <1>2
    <2> QED BY <2>1, <2>2, <2>3 DEF Readable
<1> QED BY <1>2, <1>4, <1>7 DEF u, n, m

LEMMA OnePart ==
    ASSUME NEW p \in Part, p.bottom <= PAGE_HEIGHT
    PROVE  Readable(<<p>>) /\ Len(<<p>>) = 1 /\ <<p>>[1] = p
<1>1. <<p>> \in Seq(Part) /\ Len(<<p>>) = 1 /\ <<p>>[1] = p
    OBVIOUS
<1> QED BY <1>1 DEF Readable

LEMMA TwoParts ==
    ASSUME NEW p \in Part, NEW q \in Part, p.bottom <= PAGE_HEIGHT, q.bottom <= PAGE_HEIGHT, Follows(p, q)
    PROVE  Readable(<<p, q>>) /\ Len(<<p, q>>) = 2 /\ <<p, q>>[1] = p /\ <<p, q>>[2] = q
<1> DEFINE d == <<p, q>>
<1>1. d \in Seq(Part) /\ Len(d) = 2 /\ d[1] = p /\ d[2] = q
    OBVIOUS
<1> HIDE DEF d
<1>2. \A i \in 1 .. Len(d) : i = 1 \/ i = 2
    BY <1>1
<1>3. \A i \in 1 .. Len(d) - 1 : i = 1 /\ i + 1 = 2
    BY <1>1
<1>4. \A i \in 1 .. Len(d) : d[i].bottom <= PAGE_HEIGHT
    BY <1>1, <1>2
<1>5. \A i \in 1 .. Len(d) - 1 : Follows(d[i], d[i + 1])
    BY <1>1, <1>3
<1>6. Readable(d)
    BY <1>1, <1>4, <1>5 DEF Readable
<1> QED BY <1>1, <1>6 DEF d

\* One more part below what is drawn.
LEMMA DrawOne ==
    ASSUME NEW d, Readable(d), Len(d) > 0, NEW p \in Part, p.bottom <= PAGE_HEIGHT, Follows(d[Len(d)], p)
    PROVE  /\ Readable(Append(d, p)) /\ Append(d, p) = d \o <<p>>
           /\ Len(Append(d, p)) = Len(d) + 1 /\ Append(d, p)[Len(d) + 1] = p
           /\ \A i \in 1 .. Len(d) : Append(d, p)[i] = d[i]
<1>1. Readable(<<p>>) /\ Len(<<p>>) = 1 /\ <<p>>[1] = p
    BY OnePart
<1>2. d \in Seq(Part) /\ Len(d) \in Nat
    BY ItemsOf DEF Readable
<1>3. Append(d, p) = d \o <<p>>
    BY <1>2
<1>4. Follows(d[Len(d)], <<p>>[1])
    BY <1>1
<1>5. Readable(d \o <<p>>)
    BY <1>1, <1>4, JoinReadable
<1>6. /\ Len(Append(d, p)) = Len(d) + 1 /\ Append(d, p)[Len(d) + 1] = p
      /\ \A i \in 1 .. Len(d) : Append(d, p)[i] = d[i]
    BY <1>2, AppendProperties
<1> QED BY <1>3, <1>5, <1>6

------------------------------------------------------------------------------
(* Tables. *)

\* A table's part that began as first and has gone on for some rows.
GoesOn(first, p) ==
    /\ p \in Part /\ p.bottom <= TableBottom /\ p.page >= first.page
    /\ p.page = first.page => p.top = first.top

\* g is what TableAfter computes.
RowsTo(g, first, n, height) ==
    g = [i \in 0 .. n |->
            IF i = 0 THEN first
            ELSE IF g[i - 1].bottom + height > TableBottom
                 THEN [page |-> g[i - 1].page + 1, top |-> TableMargin,
                       bottom |-> TableMargin + HeadHeight + height]
                 ELSE [g[i - 1] EXCEPT !.bottom = @ + height]]

LEMMA TableNumbers == TableBottom = 283 /\ TableMargin = 14 /\ HeadHeight = 8 /\ PAGE_HEIGHT = 297
    BY DEF TableBottom, TableMargin, HeadHeight, PAGE_HEIGHT

NextRow(p, height) ==
    IF p.bottom + height > TableBottom
    THEN [page |-> p.page + 1, top |-> TableMargin, bottom |-> TableMargin + HeadHeight + height]
    ELSE [p EXCEPT !.bottom = @ + height]

LEMMA RowGoesOn ==
    ASSUME NEW first \in Part, NEW p, GoesOn(first, p), NEW height \in 1 .. 200
    PROVE  GoesOn(first, NextRow(p, height))
<1> DEFINE broken == [page |-> p.page + 1, top |-> TableMargin, bottom |-> TableMargin + HeadHeight + height]
           longer == [page |-> p.page, top |-> p.top, bottom |-> p.bottom + height]
<1>1. /\ p \in Part /\ p.page \in Nat /\ p.top \in Nat /\ p.bottom \in Nat /\ p.bottom <= 283
      /\ first.page \in Nat /\ p.page >= first.page /\ height \in Nat /\ height <= 200
      /\ p.page = first.page => p.top = first.top
    BY TableNumbers DEF GoesOn, Part
<1>2. CASE p.bottom + height > TableBottom
    <2>1. NextRow(p, height) = broken
        BY <1>2 DEF NextRow
    <2>2. broken.page = p.page + 1 /\ broken.top = 14 /\ broken.bottom = 22 + height
        BY <1>1, TableNumbers
    <2>3. broken \in Part
        BY <1>1, TableNumbers DEF Part
    <2> HIDE DEF broken
    <2>4. broken.page > first.page /\ broken.bottom <= 283
        BY <1>1, <2>2
    <2>5. broken.page >= first.page /\ broken.page # first.page
        BY <1>1, <2>2, <2>4
    <2> QED BY <2>1, <2>3, <2>4, <2>5, TableNumbers DEF GoesOn
<1>3. CASE ~(p.bottom + height > TableBottom)
    <2>1. NextRow(p, height) = longer
        BY <1>1, <1>3 DEF NextRow, Part
    <2>2. longer.page = p.page /\ longer.top = p.top /\ longer.bottom = p.bottom + height
        OBVIOUS
    <2>3. longer \in Part
        BY <1>1 DEF Part
    <2>4. p.bottom + height <= TableBottom
        BY <1>1, <1>3, TableNumbers
    <2> HIDE DEF longer
    <2> QED BY <1>1, <2>1, <2>2, <2>3, <2>4 DEF GoesOn
<1> QED BY <1>2, <1>3

LEMMA RowsExist ==
    ASSUME NEW first, NEW height
    PROVE  \A n \in Nat : \E g : RowsTo(g, first, n, height)
<1> DEFINE T == {n \in Nat : \E g : RowsTo(g, first, n, height)}
<1>1. 0 \in T
    <2> DEFINE g == [i \in 0 .. 0 |-> first]
    <2>1. RowsTo(g, first, 0, height)
        BY DEF RowsTo
    <2> QED BY <2>1
<1>2. ASSUME NEW n \in Nat, n \in T PROVE n + 1 \in T
    <2>1. PICK g : RowsTo(g, first, n, height)
        BY <1>2
    <2> DEFINE h == [i \in 0 .. n + 1 |-> IF i = n + 1 THEN NextRow(g[n], height) ELSE g[i]]
    <2>2. \A i \in 0 .. n : g[i] = IF i = 0 THEN first ELSE NextRow(g[i - 1], height)
        BY <2>1 DEF RowsTo, NextRow
    <2>3. \A i \in 0 .. n + 1 : h[i] = IF i = 0 THEN first ELSE NextRow(h[i - 1], height)
        <3> TAKE i \in 0 .. n + 1
        <3>1. CASE i = n + 1
            <4>1. i # 0 /\ i - 1 = n /\ n \in 0 .. n + 1 /\ n # n + 1
                BY <3>1
            <4>2. h[i] = NextRow(g[n], height) /\ h[i - 1] = g[n]
                BY <3>1, <4>1
            <4> QED BY <4>1, <4>2
        <3>2. CASE i # n + 1
            <4>1. i \in 0 .. n
                BY <3>2
            <4>2. CASE i = 0
                BY <2>2, <3>2, <4>1, <4>2
            <4>3. CASE i # 0
                <5>1. i - 1 \in 0 .. n + 1 /\ i - 1 # n + 1
                    BY <4>1, <4>3
                <5>2. h[i] = g[i] /\ h[i - 1] = g[i - 1]
                    BY <3>2, <5>1
                <5> QED BY <2>2, <4>1, <4>3, <5>2
            <4> QED BY <4>2, <4>3
        <3> QED BY <3>1, <3>2
    <2>4. h = [i \in 0 .. n + 1 |-> h[i]]
        OBVIOUS
    <2> HIDE DEF h
    <2>5. h = [i \in 0 .. n + 1 |-> IF i = 0 THEN first ELSE NextRow(h[i - 1], height)]
        BY <2>3, <2>4
    <2>6. RowsTo(h, first, n + 1, height)
        BY <2>5 DEF RowsTo, NextRow
    <2> QED BY <2>6
<1> HIDE DEF T
<1>3. \A n \in Nat : n \in T
    BY <1>1, <1>2, SetInduction
<1> QED BY <1>3 DEF T

LEMMA RowsGoOn ==
    ASSUME NEW first \in Part, first.bottom <= TableBottom, NEW n \in Nat, NEW height \in 1 .. 200,
           NEW g, RowsTo(g, first, n, height)
    PROVE  GoesOn(first, g[n])
<1> DEFINE T == {i \in Nat : i <= n => GoesOn(first, g[i])}
<1>1. \A i \in 0 .. n : g[i] = IF i = 0 THEN first ELSE NextRow(g[i - 1], height)
    BY DEF RowsTo, NextRow
<1>2. 0 \in T
    <2>1. g[0] = first
        BY <1>1
    <2>2. GoesOn(first, first)
        BY DEF GoesOn, Part
    <2> QED BY <2>1, <2>2
<1>3. ASSUME NEW i \in Nat, i \in T PROVE i + 1 \in T
    <2> SUFFICES ASSUME i + 1 <= n PROVE GoesOn(first, g[i + 1])
        OBVIOUS
    <2>1. i <= n /\ i + 1 \in 0 .. n /\ i + 1 # 0 /\ i + 1 - 1 = i
        OBVIOUS
    <2>2. GoesOn(first, g[i])
        BY <1>3, <2>1
    <2>3. g[i + 1] = NextRow(g[i], height)
        BY <1>1, <2>1
    <2> QED BY <2>2, <2>3, RowGoesOn
<1> HIDE DEF T
<1>4. \A i \in Nat : i \in T
    BY <1>2, <1>3, SetInduction
<1>5. n \in T /\ n <= n
    BY <1>4
<1> QED BY <1>5 DEF T

\* A table ends within the margin of a page: of the present one below where it
\* was to start, or of a later one.
LEMMA TableEnds ==
    ASSUME page \in Nat, NEW start \in Nat, NEW n \in Nat, NEW height \in 1 .. 200
    PROVE  LET t == TableAfter(start, n, height)
           IN  /\ t \in Part /\ t.bottom <= TableBottom /\ t.page >= page
               /\ t.page = page => t.top = start
<1> DEFINE first == TableFrom(start)
           c == CHOOSE g : RowsTo(g, first, n, height)
<1>1. TableAfter(start, n, height) = c[n]
    BY DEF TableAfter, RowsTo
<1>2. /\ first \in Part /\ first.bottom <= TableBottom /\ first.page >= page
      /\ first.page = page => first.top = start
    <2>1. CASE start + HeadHeight > TableBottom
        <3>1. first = [page |-> page + 1, top |-> 14, bottom |-> 22]
            BY <2>1, TableNumbers DEF TableFrom
        <3> HIDE DEF first
        <3>2. first.page = page + 1 /\ first.top = 14 /\ first.bottom = 22 /\ first \in Part
            BY <3>1 DEF Part
        <3> QED BY <3>2, TableNumbers
    <2>2. CASE ~(start + HeadHeight > TableBottom)
        <3>1. first = [page |-> page, top |-> start, bottom |-> start + 8]
            BY <2>2, TableNumbers DEF TableFrom
        <3> HIDE DEF first
        <3>2. first.page = page /\ first.top = start /\ first.bottom = start + 8 /\ first \in Part
            BY <3>1 DEF Part
        <3>3. start + 8 <= 283
            BY <2>2, TableNumbers
        <3> QED BY <3>2, <3>3, TableNumbers
    <2> QED BY <2>1, <2>2
<1> HIDE DEF first
<1>3. RowsTo(c, first, n, height)
    BY RowsExist
<1> HIDE DEF c
<1>4. GoesOn(first, c[n])
    BY <1>2, <1>3, RowsGoOn
<1> DEFINE t == c[n]
<1>5. t \in Part /\ t.bottom <= TableBottom /\ t.page >= first.page /\ (t.page = first.page => t.top = first.top)
    BY <1>4 DEF GoesOn
<1> HIDE DEF t
<1>6. t.page \in Nat /\ first.page \in Nat
    BY <1>2, <1>5 DEF Part
<1>7. t.page >= page /\ (t.page = page => t.top = start)
    BY <1>2, <1>5, <1>6
<1> QED BY <1>1, <1>5, <1>7 DEF t

------------------------------------------------------------------------------
(* The layout. *)

Last(d) == d[Len(d)]

\* There is room for the summary's lines from y on: eight, the gap, the total.
SummaryHeight == 10 * LINE_HEIGHT + FINAL_AMOUNT_GAP
SummaryBottom == PAGE_HEIGHT - MARGIN_BOTTOM

OnSummaryPage(d, n) ==
    /\ Len(d) >= n
    /\ \A i \in Len(d) - n + 1 .. Len(d) : d[i].page = page /\ d[i].bottom <= SummaryBottom

\* What each section finds: before the summary, the last part drawn is above y and
\* y is on the page; in it, all of it is on this page and what is left will fit.
Layout ==
    /\ section \in {"none", "header", "lineItems", "adjustments", "credits", "summary", "items",
                    "total", "saved"}
    /\ section # "none" => Calculated
    /\ page \in Nat /\ y \in Nat /\ Readable(drawn)
    /\ section = "header" => drawn = <<>> /\ y = MARGIN_TOP
    /\ section \in {"lineItems", "adjustments", "credits", "summary"} =>
           /\ Len(drawn) > 0 /\ Last(drawn).page = page /\ Last(drawn).bottom < y
           /\ y <= TableBottom + SECTION_GAP
    /\ section = "items" =>
           /\ OnSummaryPage(drawn, 1)
           /\ Last(drawn).bottom < y /\ y + SummaryHeight <= SummaryBottom
    /\ section = "total" =>
           /\ OnSummaryPage(drawn, 9)
           /\ Last(drawn).bottom < y /\ y + FINAL_AMOUNT_GAP <= SummaryBottom
    /\ section = "saved" => OnSummaryPage(drawn, 10)

LEMMA LayoutNumbers ==
    /\ TableBottom = 283 /\ PAGE_HEIGHT = 297 /\ MARGIN_TOP = 20 /\ MARGIN_BOTTOM = 20
    /\ AFTER_TITLE = 15 /\ LINE_HEIGHT = 7 /\ SECTION_GAP = 10 /\ SECTION_HEADER_GAP = 3
    /\ BEFORE_SUMMARY = 15 /\ SUMMARY_HEADER = 10 /\ FINAL_AMOUNT_GAP = 5
    /\ SummaryHeight = 75 /\ SummaryBottom = 277
    BY DEF TableBottom, TableMargin, PAGE_HEIGHT, MARGIN_TOP, MARGIN_BOTTOM, AFTER_TITLE, LINE_HEIGHT,
           SECTION_GAP, SECTION_HEADER_GAP, BEFORE_SUMMARY, SUMMARY_HEADER, FINAL_AMOUNT_GAP,
           SummaryHeight, SummaryBottom

LEMMA TextIsPart ==
    ASSUME page \in Nat, NEW at \in Nat
    PROVE  Text(at) \in Part /\ Text(at).page = page /\ Text(at).top = at /\ Text(at).bottom = at
    BY DEF Text, Part

LEMMA NothingDrawn == Readable(<<>>)
<1>1. <<>> \in Seq(Part) /\ Len(<<>>) = 0
    BY EmptySeq
<1> QED BY <1>1 DEF Readable

\* The lists of a statement have a length, and its summary eight lines.
LEMMA StatementLengths ==
    ASSUME TypeOK, Sums, Calculated
    PROVE  /\ Len(statement.lineItems) \in Nat /\ Len(statement.appliedAdjustments) \in Nat
           /\ Len(statement.appliedCredits) \in Nat
           /\ Len(SummaryItems(statement)) = 8 /\ calculateSummaryHeight(statement) = 85
<1>1. statement.lineItems \in Seq(Int) /\ statement.appliedCredits \in Seq(Amount)
    BY StatementType
<1>2. Len(statement.lineItems) \in Nat /\ Len(statement.appliedCredits) \in Nat
    BY <1>1, ItemsOf
<1>3. Len(statement.appliedAdjustments) \in Nat
    <2>1. statement.appliedAdjustments = buildAdjustmentItems(normalized, subtotal)
        BY DEF Sums, Statement
    <2>2. normalized \in Seq(AdjustmentItem) /\ Len(normalized) \in Nat
        BY ItemsOf DEF TypeOK
    <2> QED BY <2>1, <2>2 DEF buildAdjustmentItems
<1>4. ChargeItems(statement) \in Seq(Int) /\ Len(ChargeItems(statement)) = 4
    <2>1. /\ statement.subtotal \in Int /\ statement.adjustmentTotal \in Int
          /\ -statement.creditApplied \in Int /\ -statement.billingGroupDiscount \in Int
        BY StatementType
    <2> QED BY <2>1 DEF ChargeItems
<1>5. FinalItems(statement) \in Seq(Int) /\ Len(FinalItems(statement)) = 4
    <2>1. /\ statement.charge \in Int /\ statement.vat \in Int /\ statement.unpaidAmount \in Int
          /\ statement.lateFee \in Int
        BY StatementType
    <2> QED BY <2>1 DEF FinalItems
<1>6. Len(SummaryItems(statement)) = 8
    <2> DEFINE s == ChargeItems(statement)
               t == FinalItems(statement)
    <2>1. SummaryItems(statement) = s \o t
        BY DEF SummaryItems
    <2>2. s \in Seq(Int) /\ t \in Seq(Int) /\ Len(s) = 4 /\ Len(t) = 4
        BY <1>4, <1>5
    <2> HIDE DEF s, t
    <2>3. Len(s \o t) = Len(s) + Len(t)
        BY <2>2, ConcatProperties
    <2> QED BY <2>1, <2>2, <2>3
<1>7. calculateSummaryHeight(statement) = 85
    BY <1>6, LayoutNumbers DEF calculateSummaryHeight
<1> QED BY <1>2, <1>3, <1>6, <1>7

LEMMA HeaderDrawn == ASSUME Layout, renderHeader, UNCHANGED vars PROVE Layout'
<1> DEFINE a == Text(y)
           b == Text(y + AFTER_TITLE)
           c == Text(y + AFTER_TITLE + LINE_HEIGHT)
           d == <<a, b>>
<1>1. /\ section = "header" /\ section' = "lineItems" /\ page' = page /\ page \in Nat
      /\ y = 20 /\ drawn = <<>> /\ Calculated /\ Calculated'
    BY DEF renderHeader, Layout, Calculated, vars, MARGIN_TOP
<1>2. y' = 49
    BY <1>1, LayoutNumbers DEF renderHeader
<1>3. drawn' = Append(d, c)
    BY <1>1 DEF renderHeader
<1>4. /\ a \in Part /\ a.page = page /\ a.top = 20 /\ a.bottom = 20
      /\ b \in Part /\ b.page = page /\ b.top = 35 /\ b.bottom = 35
      /\ c \in Part /\ c.page = page /\ c.top = 42 /\ c.bottom = 42
    <2>1. y = 20 /\ y + AFTER_TITLE = 35 /\ y + AFTER_TITLE + LINE_HEIGHT = 42
        BY <1>1, LayoutNumbers
    <2> QED BY <1>1, <2>1, TextIsPart
<1> HIDE DEF a, b, c
<1>5. Readable(d) /\ Len(d) = 2 /\ d[2] = b
    BY <1>1, <1>4, LayoutNumbers, TwoParts DEF Follows
<1> HIDE DEF d
<1>6. Readable(drawn') /\ Len(drawn') = 3 /\ drawn'[3] = c
    <2>1. Follows(b, c) /\ c.bottom <= PAGE_HEIGHT
        BY <1>1, <1>4, LayoutNumbers DEF Follows
    <2>2. Len(d) > 0 /\ d[Len(d)] = b
        BY <1>5
    <2>3. Follows(d[Len(d)], c)
        BY <2>1, <2>2
    <2>4. Readable(Append(d, c)) /\ Len(Append(d, c)) = Len(d) + 1 /\ Append(d, c)[Len(d) + 1] = c
        BY <1>4, <1>5, <2>1, <2>2, <2>3, DrawOne
    <2> QED BY <1>3, <1>5, <2>4
<1>7. Last(drawn)' = c
    BY <1>6 DEF Last
<1> QED BY <1>1, <1>2, <1>4, <1>6, <1>7, LayoutNumbers DEF Layout

LEMMA TableDrawn ==
    ASSUME Layout, NEW here, NEW next, NEW n \in Nat, NEW title \in BOOLEAN,
           here \in {"lineItems", "adjustments", "credits"},
           next \in {"adjustments", "credits", "summary"},
           renderTable(here, next, n, title), UNCHANGED vars
    PROVE  Layout'
<1>1. /\ section = here /\ section' = next /\ Calculated /\ Calculated'
    BY DEF renderTable, Layout, Calculated, vars
<1>2. /\ page \in Nat /\ y \in Nat /\ Readable(drawn) /\ Len(drawn) > 0 /\ Len(drawn) \in Nat
      /\ Last(drawn).page = page /\ Last(drawn).bottom < y /\ y <= 293
      /\ Last(drawn) \in Part
    <2>1. /\ page \in Nat /\ y \in Nat /\ Readable(drawn) /\ Len(drawn) > 0
          /\ Last(drawn).page = page /\ Last(drawn).bottom < y /\ y <= 293
        BY <1>1, LayoutNumbers DEF Layout
    <2>2. Len(drawn) \in Nat /\ Last(drawn) \in Part
        BY <2>1, ItemsOf DEF Readable, Last
    <2> QED BY <2>1, <2>2
<1>3. CASE n = 0
    BY <1>1, <1>2, <1>3, LayoutNumbers DEF renderTable, Layout, Last
<1>4. CASE n # 0
    <2> DEFINE start == IF title THEN y + SECTION_HEADER_GAP ELSE y
    <2>1. PICK height \in RowHeight :
              /\ drawn' = drawn \o (IF title THEN <<Text(y), TableAfter(start, n, height)>>
                                             ELSE <<TableAfter(start, n, height)>>)
              /\ page' = TableAfter(start, n, height).page
              /\ y' = TableAfter(start, n, height).bottom + SECTION_GAP
        BY <1>4 DEF renderTable
    <2> DEFINE t == TableAfter(start, n, height)
               p == Text(y)
               e == IF title THEN <<p, t>> ELSE <<t>>
    <2>2. height \in 1 .. 200
        BY <2>1, RowHeightAssumption
    <2>3. start \in Nat /\ start >= y /\ (title => start > y)
        BY <1>2, LayoutNumbers
    <2> HIDE DEF start
    <2>4. t \in Part /\ t.bottom <= 283 /\ t.page >= page /\ (t.page = page => t.top = start)
        <3>1. t \in Part /\ t.bottom <= TableBottom /\ t.page >= page /\ (t.page = page => t.top = start)
            BY <1>2, <2>2, <2>3, TableEnds
        <3> QED BY <3>1, LayoutNumbers
    <2>5. p \in Part /\ p.page = page /\ p.top = y /\ p.bottom = y
        BY <1>2, TextIsPart
    <2>6. t.page \in Nat /\ t.top \in Nat /\ t.bottom \in Nat
        BY <2>4 DEF Part
    <2>7. Last(drawn).bottom \in Nat
        BY <1>2 DEF Part
    <2> HIDE DEF t, p
    <2>8. /\ Readable(e) /\ Len(e) \in Nat /\ Len(e) > 0 /\ e[Len(e)] = t
          /\ Follows(Last(drawn), e[1])
        <3>1. CASE title = TRUE
            <4>1. e = <<p, t>>
                BY <3>1
            <4>2. Follows(p, t)
                BY <1>2, <2>3, <2>4, <2>5, <2>6, <3>1 DEF Follows
            <4>3. p.bottom <= PAGE_HEIGHT /\ t.bottom <= PAGE_HEIGHT
                BY <1>2, <2>4, <2>5, <2>6, LayoutNumbers
            <4>4. Readable(e) /\ Len(e) = 2 /\ e[1] = p /\ e[2] = t
                BY <2>4, <2>5, <4>1, <4>2, <4>3, TwoParts
            <4>5. Follows(Last(drawn), p)
                BY <1>2, <2>5 DEF Follows
            <4> HIDE DEF e
            <4> QED BY <4>4, <4>5
        <3>2. CASE title = FALSE
            <4>1. e = <<t>>
                BY <3>2
            <4>2. t.bottom <= PAGE_HEIGHT
                BY <2>4, <2>6, LayoutNumbers
            <4>3. Readable(e) /\ Len(e) = 1 /\ e[1] = t
                BY <2>4, <4>1, <4>2, OnePart
            <4>4. Follows(Last(drawn), t)
                BY <1>2, <2>3, <2>4, <2>6, <2>7 DEF Follows
            <4> HIDE DEF e
            <4> QED BY <4>3, <4>4
        <3> QED BY <3>1, <3>2
    <2>9. drawn' = drawn \o e
        BY <2>1 DEF t, p
    <2> HIDE DEF e
    <2>10. /\ Readable(drawn \o e) /\ Len(drawn \o e) = Len(drawn) + Len(e)
           /\ \A i \in 1 .. Len(e) : (drawn \o e)[Len(drawn) + i] = e[i]
        BY <1>2, <2>8, JoinReadable DEF Last
    <2>11. Len(drawn') > 0 /\ Last(drawn)' = t
        <3>1. Len(e) \in 1 .. Len(e)
            BY <2>8
        <3> QED BY <1>2, <2>8, <2>9, <2>10, <3>1 DEF Last
    <2>12. page' = t.page /\ y' = t.bottom + 10
        BY <2>1, LayoutNumbers DEF t
    <2>13. page' \in Nat /\ y' \in Nat /\ t.bottom < y' /\ y' <= 293
        BY <2>4, <2>6, <2>12
    <2> QED BY <1>1, <2>9, <2>10, <2>11, <2>12, <2>13, LayoutNumbers DEF Layout
<1> QED BY <1>3, <1>4

LEMMA SummaryBegun == ASSUME TypeOK, Sums, Layout, renderSummaryHeader, UNCHANGED vars PROVE Layout'
<1> DEFINE summaryPage == IF SummaryFits THEN page ELSE page + 1
           summaryY == IF SummaryFits THEN y + BEFORE_SUMMARY ELSE MARGIN_TOP
           p == [page |-> summaryPage, top |-> summaryY, bottom |-> summaryY]
<1>1. /\ section = "summary" /\ section' = "items" /\ Calculated /\ Calculated'
      /\ page \in Nat /\ y \in Nat /\ Readable(drawn) /\ Len(drawn) > 0
      /\ Last(drawn).page = page /\ Last(drawn).bottom < y
    BY DEF renderSummaryHeader, Layout, Calculated, vars
<1>2. page' = summaryPage /\ drawn' = Append(drawn, p) /\ y' = summaryY + 10
    BY LayoutNumbers DEF renderSummaryHeader
<1>3. /\ summaryPage \in Nat /\ summaryY \in Nat /\ summaryY + 85 <= 277
      /\ summaryPage > page \/ (summaryPage = page /\ summaryY > y)
    <2>1. CASE SummaryFits
        <3>1. y + 15 + 85 <= 297 - 20
            BY <1>1, <2>1, StatementLengths, LayoutNumbers DEF SummaryFits
        <3> QED BY <1>1, <2>1, <3>1, LayoutNumbers
    <2>2. CASE ~SummaryFits
        BY <1>1, <2>2, LayoutNumbers
    <2> QED BY <2>1, <2>2
<1> HIDE DEF summaryPage, summaryY
<1>4. p \in Part /\ p.page = summaryPage /\ p.top = summaryY /\ p.bottom = summaryY
    BY <1>3 DEF Part
<1> HIDE DEF p
<1>5. Len(drawn) \in Nat /\ Last(drawn).bottom \in Nat
    <2>1. Len(drawn) \in Nat /\ Last(drawn) \in Part
        BY <1>1, ItemsOf DEF Readable, Last
    <2> QED BY <2>1 DEF Part
<1>6. Follows(drawn[Len(drawn)], p) /\ p.bottom <= PAGE_HEIGHT
    BY <1>1, <1>3, <1>4, <1>5, LayoutNumbers DEF Follows, Last
<1>7. /\ Readable(drawn') /\ Len(drawn') = Len(drawn) + 1 /\ drawn'[Len(drawn) + 1] = p
    BY <1>1, <1>2, <1>4, <1>6, DrawOne
<1>8. Last(drawn)' = p
    BY <1>7 DEF Last
<1>9. OnSummaryPage(drawn, 1)'
    <2>1. Len(drawn') >= 1 /\ \A i \in Len(drawn') - 1 + 1 .. Len(drawn') : i = Len(drawn) + 1
        BY <1>5, <1>7
    <2>2. p.page = page' /\ p.bottom <= SummaryBottom
        BY <1>2, <1>3, <1>4, LayoutNumbers
    <2> QED BY <1>7, <2>1, <2>2 DEF OnSummaryPage
<1>10. page' \in Nat /\ y' \in Nat /\ p.bottom < y' /\ y' + 75 <= 277
    BY <1>2, <1>3, <1>4
<1> QED BY <1>1, <1>7, <1>8, <1>9, <1>10, LayoutNumbers DEF Layout

\* The lines of the summary, one below the other.
LEMMA ItemsReadable ==
    ASSUME page \in Nat, NEW at \in Nat, at <= 202,
           NEW e, e = [i \in 1 .. 8 |-> Text(at + (i - 1) * LINE_HEIGHT)]
    PROVE  /\ Readable(e) /\ Len(e) = 8 /\ e[1].page = page /\ e[1].top = at /\ e[8].bottom = at + 49
           /\ \A i \in 1 .. 8 : e[i].page = page /\ e[i].bottom <= 251
<1>1. \A i \in 1 .. 8 : e[i] = Text(at + (i - 1) * 7)
    BY LayoutNumbers
<1>2. \A i \in 1 .. 8 : (i - 1) * 7 \in Nat /\ (i - 1) * 7 <= 49
    OBVIOUS
<1>3. ASSUME NEW i \in 1 .. 8
      PROVE  /\ e[i] \in Part /\ e[i].page = page
             /\ e[i].top = at + (i - 1) * 7 /\ e[i].bottom = at + (i - 1) * 7
    <2>1. at + (i - 1) * 7 \in Nat
        BY <1>2
    <2> QED BY <1>1, <2>1, TextIsPart
<1>4. e \in Seq(Part) /\ Len(e) = 8
    <2>1. e = [i \in 1 .. 8 |-> e[i]]
        OBVIOUS
    <2>2. e \in [1 .. 8 -> Part]
        BY <1>3, <2>1
    <2> QED BY <2>2
<1>5. ASSUME NEW i \in 1 .. 8 PROVE e[i].page = page /\ e[i].bottom <= 251
    <2>1. e[i].page = page /\ e[i].bottom = at + (i - 1) * 7
        BY <1>3
    <2> QED BY <1>2, <2>1
<1>6. ASSUME NEW i \in 1 .. 7 PROVE Follows(e[i], e[i + 1])
    <2>1. i \in 1 .. 8 /\ i + 1 \in 1 .. 8
        OBVIOUS
    <2>2. e[i].page = page /\ e[i + 1].page = page
        BY <1>3, <2>1
    <2>3. e[i].bottom = at + (i - 1) * 7 /\ e[i + 1].top = at + ((i + 1) - 1) * 7
        BY <1>3, <2>1
    <2>4. at + (i - 1) * 7 < at + ((i + 1) - 1) * 7
        OBVIOUS
    <2> QED BY <2>2, <2>3, <2>4 DEF Follows
<1>7. \A i \in 1 .. 8 : e[i].bottom <= PAGE_HEIGHT
    <2> TAKE i \in 1 .. 8
    <2>1. e[i].bottom = at + (i - 1) * 7
        BY <1>3
    <2> QED BY <1>2, <2>1, LayoutNumbers
<1>8. Readable(e)
    BY <1>4, <1>6, <1>7 DEF Readable
<1>9. e[1].page = page /\ e[1].top = at
    <2>1. 1 \in 1 .. 8
        OBVIOUS
    <2>2. e[1].page = page /\ e[1].top = at + (1 - 1) * 7
        BY <1>3, <2>1
    <2> QED BY <2>2
<1>10. e[8].bottom = at + 49
    <2>1. 8 \in 1 .. 8
        OBVIOUS
    <2>2. e[8].bottom = at + (8 - 1) * 7
        BY <1>3, <2>1
    <2> QED BY <2>2
<1> QED BY <1>4, <1>5, <1>8, <1>9, <1>10

LEMMA SummaryListed == ASSUME TypeOK, Sums, Layout, renderSummaryItems, UNCHANGED vars PROVE Layout'
<1> DEFINE e == [i \in 1 .. 8 |-> Text(y + (i - 1) * LINE_HEIGHT)]
           n == Len(drawn)
<1>1. /\ section = "items" /\ section' = "total" /\ Calculated /\ Calculated' /\ page' = page
      /\ page \in Nat /\ y \in Nat /\ Readable(drawn)
      /\ OnSummaryPage(drawn, 1) /\ Last(drawn).bottom < y /\ y + 75 <= 277
    BY LayoutNumbers DEF renderSummaryItems, Layout, Calculated, vars
<1>2. drawn' = drawn \o e /\ y' = y + 8 * 7
    BY <1>1, StatementLengths, LayoutNumbers DEF renderSummaryItems
<1>3. y <= 202
    BY <1>1
<1>4. /\ Readable(e) /\ Len(e) = 8 /\ e[1].page = page /\ e[1].top = y /\ e[8].bottom = y + 49
      /\ \A i \in 1 .. 8 : e[i].page = page /\ e[i].bottom <= 251
    BY <1>1, <1>3, ItemsReadable
<1> HIDE DEF e
<1>5. n \in Nat /\ n >= 1 /\ drawn[n].page = page /\ drawn[n].bottom < y /\ drawn[n].bottom <= 277
    <2>1. n \in Nat /\ n >= 1 /\ n \in n - 1 + 1 .. n
        BY <1>1, ItemsOf DEF Readable, OnSummaryPage
    <2> QED BY <1>1, <2>1, LayoutNumbers DEF OnSummaryPage, Last
<1>6. Follows(drawn[n], e[1])
    BY <1>4, <1>5 DEF Follows
<1>7. /\ Readable(drawn \o e) /\ Len(drawn \o e) = n + 8
      /\ \A i \in 1 .. n : (drawn \o e)[i] = drawn[i]
      /\ \A i \in 1 .. 8 : (drawn \o e)[n + i] = e[i]
    <2>1. Len(drawn) > 0 /\ Len(e) > 0
        BY <1>4, <1>5
    <2>2. /\ Readable(drawn \o e) /\ Len(drawn \o e) = Len(drawn) + Len(e)
          /\ \A i \in 1 .. Len(drawn) : (drawn \o e)[i] = drawn[i]
          /\ \A i \in 1 .. Len(e) : (drawn \o e)[Len(drawn) + i] = e[i]
        <3>1. Readable(drawn) /\ Readable(e) /\ Follows(drawn[Len(drawn)], e[1])
            BY <1>1, <1>4, <1>6
        <3> QED BY <2>1, <3>1, JoinReadable
    <2> QED BY <1>4, <2>2
<1> DEFINE u == drawn \o e
<1>8. drawn' = u
    BY <1>2
<1>9. /\ Readable(u) /\ Len(u) = n + 8 /\ u[n] = drawn[n]
      /\ \A i \in 1 .. 8 : u[n + i] = e[i]
    BY SMTT(30), <1>5, <1>7
<1> HIDE DEF u, n
<1>10. u[n + 8].bottom = y + 49 /\ \A i \in 1 .. 8 : u[n + i].page = page /\ u[n + i].bottom <= 277
    <2>1. 8 \in 1 .. 8
        OBVIOUS
    <2>2. u[n + 8] = e[8]
        BY <1>9, <2>1
    <2>3. ASSUME NEW i \in 1 .. 8 PROVE u[n + i].page = page /\ u[n + i].bottom <= 277
        <3>1. e[i] \in Part
            BY <1>4, ItemsOf DEF Readable
        <3>2. e[i].bottom \in Nat /\ e[i].bottom <= 251 /\ e[i].page = page
            BY <1>4, <3>1 DEF Part
        <3>3. u[n + i] = e[i]
            BY <1>9
        <3> QED BY <3>2, <3>3
    <2> QED BY <1>4, <2>2, <2>3
<1>11. OnSummaryPage(drawn, 9)'
    <2>1. Len(u) >= 9
        BY <1>5, <1>9
    <2>2. ASSUME NEW i \in Len(u) - 9 + 1 .. Len(u) PROVE u[i].page = page /\ u[i].bottom <= 277
        <3>1. CASE i = n
            BY <1>5, <1>9, <3>1
        <3>2. CASE i # n
            <4>1. PICK j \in 1 .. 8 : i = n + j
                <5>1. i - n \in 1 .. 8 /\ i = n + (i - n)
                    BY <1>5, <1>9, <3>2
                <5> QED BY <5>1
            <4> QED BY <1>10, <4>1
        <3> QED BY <3>1, <3>2
    <2> QED BY <1>1, <1>8, <2>1, <2>2, LayoutNumbers DEF OnSummaryPage
<1>12. /\ Last(drawn)'.bottom = y + 49 /\ y' = y + 56 /\ y' \in Nat
       /\ y + 49 < y' /\ y' + 5 <= 277
    <2>1. Last(drawn)' = u[n + 8]
        BY <1>8, <1>9 DEF Last
    <2> QED BY <1>1, <1>2, <1>10, <2>1
<1> QED BY <1>1, <1>8, <1>9, <1>11, <1>12, LayoutNumbers DEF Layout

LEMMA TotalDrawn == ASSUME Layout, renderSummaryTotal, UNCHANGED vars PROVE Layout'
<1> DEFINE p == Text(y + FINAL_AMOUNT_GAP)
           n == Len(drawn)
<1>1. /\ section = "total" /\ section' = "saved" /\ Calculated /\ Calculated'
      /\ page' = page /\ y' = y /\ page \in Nat /\ y \in Nat /\ Readable(drawn)
      /\ OnSummaryPage(drawn, 9) /\ Last(drawn).bottom < y /\ y + 5 <= 277
    BY LayoutNumbers DEF renderSummaryTotal, Layout, Calculated, vars
<1>2. drawn' = Append(drawn, p)
    BY DEF renderSummaryTotal
<1>3. p \in Part /\ p.page = page /\ p.top = y + 5 /\ p.bottom = y + 5
    <2>1. y + FINAL_AMOUNT_GAP = y + 5 /\ y + 5 \in Nat
        BY <1>1, LayoutNumbers
    <2> QED BY <1>1, <2>1, TextIsPart
<1> HIDE DEF p
<1>4. /\ n \in Nat /\ n >= 9 /\ drawn[n].page = page /\ drawn[n].bottom < y /\ drawn[n].bottom \in Nat
      /\ \A i \in n - 9 + 1 .. n : drawn[i].page = page /\ drawn[i].bottom <= 277
    <2>1. n \in Nat /\ n >= 9
        BY <1>1, ItemsOf DEF Readable, OnSummaryPage
    <2>2. drawn[n] \in Part
        BY <1>1, <2>1, ItemsOf DEF Readable
    <2>3. \A i \in n - 9 + 1 .. n : drawn[i].page = page /\ drawn[i].bottom <= 277
        BY <1>1, LayoutNumbers DEF OnSummaryPage
    <2>4. n \in n - 9 + 1 .. n
        BY <2>1
    <2> QED BY <1>1, <2>1, <2>2, <2>3, <2>4 DEF Last, Part
<1>5. Follows(drawn[n], p) /\ p.bottom <= PAGE_HEIGHT
    BY <1>1, <1>3, <1>4, LayoutNumbers DEF Follows
<1>6. /\ Readable(drawn') /\ Len(drawn') = n + 1 /\ drawn'[n + 1] = p
      /\ \A i \in 1 .. n : drawn'[i] = drawn[i]
    <2>1. Len(drawn) > 0
        BY <1>4
    <2> QED BY <1>1, <1>2, <1>3, <1>5, <2>1, DrawOne
<1> HIDE DEF n
<1>7. OnSummaryPage(drawn, 10)'
    <2>1. Len(drawn') >= 10
        BY <1>4, <1>6
    <2>2. ASSUME NEW i \in Len(drawn') - 10 + 1 .. Len(drawn')
          PROVE  drawn'[i].page = page /\ drawn'[i].bottom <= 277
        <3>1. CASE i = n + 1
            BY <1>1, <1>3, <1>6, <3>1
        <3>2. CASE i # n + 1
            <4>1. i \in n - 9 + 1 .. n /\ i \in 1 .. n
                BY <1>4, <1>6, <3>2
            <4> QED BY <1>4, <1>6, <4>1
        <3> QED BY <3>1, <3>2
    <2> QED BY <1>1, <2>1, <2>2, LayoutNumbers DEF OnSummaryPage
<1> QED BY <1>1, <1>6, <1>7 DEF Layout

\* A download begins, goes on and ends with a layout of this kind.
LEMMA LayoutDrawn == ASSUME TypeOK, Sums, Layout, generateStatementPDF PROVE Layout'
<1>1. UNCHANGED vars
    BY DEF generateStatementPDF
<1>2. CASE Download
    <2>1. /\ Calculated' /\ section' = "header" /\ page' = 1 /\ y' = MARGIN_TOP /\ drawn' = <<>>
        BY <1>1, <1>2 DEF Download, Calculated, vars
    <2> QED BY <2>1, NothingDrawn, LayoutNumbers DEF Layout
<1>3. CASE renderHeader
    BY <1>1, <1>3, HeaderDrawn
<1>4. ASSUME section # "none"
      PROVE  /\ Len(statement.lineItems) \in Nat /\ Len(statement.appliedAdjustments) \in Nat
             /\ Len(statement.appliedCredits) \in Nat
    BY <1>4, StatementLengths DEF Layout
<1>5. CASE renderLineItemsTable
    <2>1. renderTable("lineItems", "adjustments", Len(statement.lineItems), FALSE)
        BY <1>5 DEF renderLineItemsTable
    <2>2. Len(statement.lineItems) \in Nat
        BY <1>4, <2>1 DEF renderTable
    <2> QED BY <1>1, <2>1, <2>2, TableDrawn
<1>6. CASE renderAdjustmentsTable
    <2>1. renderTable("adjustments", "credits", Len(statement.appliedAdjustments), TRUE)
        BY <1>6 DEF renderAdjustmentsTable
    <2>2. Len(statement.appliedAdjustments) \in Nat
        BY <1>4, <2>1 DEF renderTable
    <2> QED BY <1>1, <2>1, <2>2, TableDrawn
<1>7. CASE renderCreditsTable
    <2>1. renderTable("credits", "summary", Len(statement.appliedCredits), TRUE)
        BY <1>7 DEF renderCreditsTable
    <2>2. Len(statement.appliedCredits) \in Nat
        BY <1>4, <2>1 DEF renderTable
    <2> QED BY <1>1, <2>1, <2>2, TableDrawn
<1>8. CASE renderSummaryHeader
    BY <1>1, <1>8, SummaryBegun
<1>9. CASE renderSummaryItems
    BY <1>1, <1>9, SummaryListed
<1>10. CASE renderSummaryTotal
    BY <1>1, <1>10, TotalDrawn
<1> QED BY <1>2, <1>3, <1>5, <1>6, <1>7, <1>8, <1>9, <1>10 DEF generateStatementPDF

\* Without a PDF, and with the present one left as it is.
LEMMA LayoutCleared ==
    ASSUME section' = "none", page' = 1, y' = MARGIN_TOP, drawn' = <<>>
    PROVE  Layout'
    BY NothingDrawn, LayoutNumbers DEF Layout

LEMMA LayoutKept ==
    ASSUME Layout, UNCHANGED pdf, section = "none" \/ UNCHANGED vars
    PROVE  Layout'
<1>1. section' = section /\ page' = page /\ y' = y /\ drawn' = drawn
    BY DEF pdf
<1>2. section # "none" => (Calculated <=> Calculated')
    BY DEF Calculated, vars
<1> QED BY <1>1, <1>2 DEF Layout, OnSummaryPage, Last

LEMMA LayoutReadable == ASSUME TypeOK, Sums, Layout PROVE PdfReadable
<1>1. /\ \A i \in 1 .. Len(drawn) : drawn[i].bottom <= PAGE_HEIGHT
      /\ \A i \in 1 .. Len(drawn) - 1 : Follows(drawn[i], drawn[i + 1])
    BY DEF Layout, Readable
<1>2. ASSUME section = "saved", NEW i \in Len(drawn) - Len(SummaryItems(statement)) - 1 .. Len(drawn)
      PROVE  drawn[i].page = page /\ drawn[i].bottom <= PAGE_HEIGHT - MARGIN_BOTTOM
    <2>1. Len(SummaryItems(statement)) = 8 /\ OnSummaryPage(drawn, 10) /\ Len(drawn) \in Nat
        BY <1>2, StatementLengths, ItemsOf DEF Layout, Readable
    <2>2. i \in Len(drawn) - 10 + 1 .. Len(drawn)
        BY <1>2, <2>1
    <2> QED BY <2>1, <2>2 DEF OnSummaryPage, SummaryBottom
<1> QED BY <1>1, <1>2 DEF PdfReadable, Follows

------------------------------------------------------------------------------
(* Inputs. *)

\* A day picked is kept as its midnight UTC.
Picked(input) == input.picked # NotPicked => input.targetDate = valueAsDate(input.picked)

Kept == {input \in BillingInput : Picked(input)}

\* What the form holds, what the page holds and what was sent is of the form's
\* making; what is being calculated is what was sent.
FormKept == form \in Kept /\ billingInput \in Kept /\ sent \in Kept
SentIsRequest == client = "form" /\ pc # "idle" => request = Body(sent)

LEMMA WithoutType ==
    ASSUME NEW S, NEW list \in Seq(S), NEW i \in DOMAIN list
    PROVE  Without(list, i) \in Seq(S)
<1>1. Len(list) \in Nat /\ DOMAIN list = 1 .. Len(list) /\ \A j \in 1 .. Len(list) : list[j] \in S
    BY LenProperties, ElementOfSeq
<1>2. SubSeq(list, 1, i - 1) \in Seq(S)
    <2>1. \A j \in 1 .. i - 1 : list[j] \in S
        BY <1>1
    <2> QED BY <1>1, <2>1, SubSeqProperties
<1>3. SubSeq(list, i + 1, Len(list)) \in Seq(S)
    <2>1. \A j \in i + 1 .. Len(list) : list[j] \in S
        BY <1>1
    <2> QED BY <1>1, <2>1, SubSeqProperties
<1> QED BY <1>2, <1>3, ConcatProperties DEF Without

LEMMA ChangedItemType ==
    ASSUME NEW S, NEW list \in Seq(S), NEW i \in DOMAIN list, NEW item \in S
    PROVE  [list EXCEPT ![i] = item] \in Seq(S)
<1>1. i \in 1 .. Len(list)
    BY LenProperties
<1> QED BY <1>1, ExceptSeq

\* A form with one field of its type changed, the date apart.
LEMMA ChangedField ==
    ASSUME NEW input \in Kept
    PROVE  /\ \A v \in BOOLEAN : [input EXCEPT !.named = v] \in Kept
           /\ \A v \in Nat : [input EXCEPT !.unpaidAmount = v] \in Kept
           /\ \A v \in BOOLEAN : [input EXCEPT !.isOverdue = v] \in Kept
           /\ \A v \in Seq(UsageEntry) : [input EXCEPT !.usage = v] \in Kept
           /\ \A v \in Seq(Nat) : [input EXCEPT !.credits = v] \in Kept
           /\ \A v \in Seq(AdjustmentEntry) : [input EXCEPT !.adjustments = v] \in Kept
    BY DEF Kept, Picked, BillingInput

LEMMA AtLeastZeroType == ASSUME NEW n \in Int PROVE AtLeastZero(n) \in Nat
    BY DEF AtLeastZero

LEMMA ClampedType == ASSUME NEW n \in Int PROVE AtMostHundred(AtLeastZero(n)) \in Nat
    BY DEF AtMostHundred, AtLeastZero

LEMMA DefaultsKept == ASSUME NEW now \in Now PROVE Defaults(now) \in Kept
<1>1. now \in Nat /\ NotPicked = -1
    BY TimeAssumption DEF NotPicked
<1>2. <<>> \in Seq(UsageEntry) /\ <<>> \in Seq(Nat) /\ <<>> \in Seq(AdjustmentEntry)
    BY EmptySeq
<1> QED BY <1>1, <1>2 DEF Defaults, Kept, Picked, BillingInput

LEMMA StoredKept == ASSUME NEW entry \in DOMAIN Stored PROVE Stored[entry] \in Kept
    BY StoredAssumption DEF Kept, Picked

LEMMA FieldTypes ==
    ASSUME NEW input \in Kept
    PROVE  /\ input.targetDate \in Nat /\ input.named \in BOOLEAN
           /\ input.unpaidAmount \in Nat /\ input.isOverdue \in BOOLEAN
           /\ input.usage \in Seq(UsageEntry) /\ input.credits \in Seq(Nat)
           /\ input.adjustments \in Seq(AdjustmentEntry)
    BY DEF Kept, BillingInput

------------------------------------------------------------------------------
(* The form. *)

LEMMA UsageKept ==
    ASSUME FormKept, addUsage \/ removeUsage \/ updateUsage \/ updateInstanceType
    PROVE  form' \in Kept
<1>0. form \in Kept /\ form.usage \in Seq(UsageEntry)
    BY FieldTypes DEF FormKept
<1>1. CASE addUsage
    <2>1. PICK default \in Instance :
             form' = [form EXCEPT !.usage = Append(form.usage, [counterName |-> default, counterVolume |-> 0])]
        BY <1>1 DEF addUsage, Edit
    <2>2. [counterName |-> default, counterVolume |-> 0] \in UsageEntry
        BY DEF UsageEntry
    <2>3. Append(form.usage, [counterName |-> default, counterVolume |-> 0]) \in Seq(UsageEntry)
        BY <1>0, <2>2, AppendProperties
    <2> QED BY <1>0, <2>1, <2>3, ChangedField
<1>2. CASE removeUsage
    <2>1. PICK i \in DOMAIN form.usage : form' = [form EXCEPT !.usage = Without(form.usage, i)]
        BY <1>2 DEF removeUsage, Edit
    <2>2. Without(form.usage, i) \in Seq(UsageEntry)
        BY <1>0, WithoutType
    <2> QED BY <1>0, <2>1, <2>2, ChangedField
<1>3. CASE updateUsage \/ updateInstanceType
    <2>1. PICK i \in DOMAIN form.usage, entry \in UsageEntry :
             form' = [form EXCEPT !.usage = [form.usage EXCEPT ![i] = entry]]
        <3>1. CASE updateUsage
            <4>1. PICK i \in DOMAIN form.usage, n \in Typed :
                     form' = [form EXCEPT !.usage[i].counterVolume = AtLeastZero(n)]
                BY <3>1 DEF updateUsage, Edit
            <4> DEFINE entry == [form.usage[i] EXCEPT !.counterVolume = AtLeastZero(n)]
            <4>2. form.usage[i] \in UsageEntry /\ AtLeastZero(n) \in Nat
                BY <1>0, AtLeastZeroType, TypedAssumption, LenProperties, ElementOfSeq
            <4>3. entry \in UsageEntry
                BY <4>2 DEF UsageEntry
            <4>4. form' = [form EXCEPT !.usage = [form.usage EXCEPT ![i] = entry]]
                BY <4>1
            <4> QED BY <4>3, <4>4
        <3>2. CASE updateInstanceType
            <4>1. PICK i \in DOMAIN form.usage, name \in Instance :
                     form' = [form EXCEPT !.usage[i].counterName = name]
                BY <3>2 DEF updateInstanceType, Edit
            <4> DEFINE entry == [form.usage[i] EXCEPT !.counterName = name]
            <4>2. form.usage[i] \in UsageEntry
                BY <1>0, LenProperties, ElementOfSeq
            <4>3. entry \in UsageEntry
                BY <4>2 DEF UsageEntry
            <4>4. form' = [form EXCEPT !.usage = [form.usage EXCEPT ![i] = entry]]
                BY <4>1
            <4> QED BY <4>3, <4>4
        <3> QED BY <1>3, <3>1, <3>2
    <2>2. [form.usage EXCEPT ![i] = entry] \in Seq(UsageEntry)
        BY <1>0, ChangedItemType
    <2> QED BY <1>0, <2>1, <2>2, ChangedField
<1> QED BY <1>1, <1>2, <1>3

LEMMA CreditsKept ==
    ASSUME FormKept, addCredit \/ removeCredit \/ updateCredit
    PROVE  form' \in Kept
<1>0. form \in Kept /\ form.credits \in Seq(Nat)
    BY FieldTypes DEF FormKept
<1>1. PICK list \in Seq(Nat) : form' = [form EXCEPT !.credits = list]
    <2>1. CASE addCredit
        <3>1. Append(form.credits, 0) \in Seq(Nat)
            BY <1>0, AppendProperties
        <3> QED BY <2>1, <3>1 DEF addCredit, Edit
    <2>2. CASE removeCredit
        <3>1. PICK i \in DOMAIN form.credits : form' = [form EXCEPT !.credits = Without(form.credits, i)]
            BY <2>2 DEF removeCredit, Edit
        <3>2. Without(form.credits, i) \in Seq(Nat)
            BY <1>0, WithoutType
        <3> QED BY <3>1, <3>2
    <2>3. CASE updateCredit
        <3>1. PICK i \in DOMAIN form.credits, n \in Typed :
                 n >= 0 /\ form' = [form EXCEPT !.credits = [form.credits EXCEPT ![i] = n]]
            BY <2>3 DEF updateCredit, Edit
        <3>2. n \in Nat
            BY <3>1, TypedAssumption
        <3>3. [form.credits EXCEPT ![i] = n] \in Seq(Nat)
            BY <1>0, <3>2, ChangedItemType
        <3> QED BY <3>1, <3>3
    <2> QED BY <2>1, <2>2, <2>3
<1> QED BY <1>0, <1>1, ChangedField

AdjustmentChange ==
    \/ addAdjustment \/ removeAdjustment
    \/ updateAdjustmentType \/ updateAdjustmentMethod \/ updateAdjustmentValue

LEMMA AdjustmentsKept ==
    ASSUME FormKept, AdjustmentChange
    PROVE  form' \in Kept
<1>0. form \in Kept /\ form.adjustments \in Seq(AdjustmentEntry)
    BY FieldTypes DEF FormKept
<1>1. \A i \in DOMAIN form.adjustments : form.adjustments[i] \in AdjustmentEntry
    BY <1>0, LenProperties, ElementOfSeq
<1>2. ASSUME NEW i \in DOMAIN form.adjustments, NEW entry \in AdjustmentEntry,
             form' = [form EXCEPT !.adjustments = [form.adjustments EXCEPT ![i] = entry]]
      PROVE  form' \in Kept
    <2>1. [form.adjustments EXCEPT ![i] = entry] \in Seq(AdjustmentEntry)
        BY <1>0, ChangedItemType
    <2> QED BY <1>0, <1>2, <2>1, ChangedField
<1>3. CASE addAdjustment
    <2> DEFINE entry == [legacy |-> FALSE, type |-> "DISCOUNT", method |-> "RATE", value |-> 0]
    <2>1. entry \in AdjustmentEntry
        BY DEF AdjustmentEntry
    <2>2. Append(form.adjustments, entry) \in Seq(AdjustmentEntry)
        BY <1>0, <2>1, AppendProperties
    <2>3. form' = [form EXCEPT !.adjustments = Append(form.adjustments, entry)]
        BY <1>3 DEF addAdjustment, Edit
    <2> QED BY <1>0, <2>2, <2>3, ChangedField
<1>4. CASE removeAdjustment
    <2>1. PICK i \in DOMAIN form.adjustments :
             form' = [form EXCEPT !.adjustments = Without(form.adjustments, i)]
        BY <1>4 DEF removeAdjustment, Edit
    <2>2. Without(form.adjustments, i) \in Seq(AdjustmentEntry)
        BY <1>0, WithoutType
    <2> QED BY <1>0, <2>1, <2>2, ChangedField
<1>5. CASE updateAdjustmentType
    <2>1. PICK i \in DOMAIN form.adjustments, type \in {"DISCOUNT", "SURCHARGE"} :
             form' = [form EXCEPT !.adjustments[i].type = type]
        BY <1>5 DEF updateAdjustmentType, Edit
    <2> DEFINE entry == [form.adjustments[i] EXCEPT !.type = type]
    <2>2. entry \in AdjustmentEntry
        BY <1>1 DEF AdjustmentEntry
    <2>3. form' = [form EXCEPT !.adjustments = [form.adjustments EXCEPT ![i] = entry]]
        BY <2>1
    <2> QED BY <1>2, <2>2, <2>3
<1>6. CASE updateAdjustmentMethod
    <2>1. PICK i \in DOMAIN form.adjustments, method \in {"FIXED", "RATE"} :
             form' = [form EXCEPT !.adjustments[i].method = method]
        BY <1>6 DEF updateAdjustmentMethod, Edit
    <2> DEFINE entry == [form.adjustments[i] EXCEPT !.method = method]
    <2>2. entry \in AdjustmentEntry
        BY <1>1 DEF AdjustmentEntry
    <2>3. form' = [form EXCEPT !.adjustments = [form.adjustments EXCEPT ![i] = entry]]
        BY <2>1
    <2> QED BY <1>2, <2>2, <2>3
<1>7. CASE updateAdjustmentValue
    <2>1. PICK i \in DOMAIN form.adjustments, value \in Nat :
             form' = [form EXCEPT !.adjustments[i].value = value]
        BY <1>7, TypedAssumption, AtLeastZeroType, ClampedType DEF updateAdjustmentValue, Edit
    <2> DEFINE entry == [form.adjustments[i] EXCEPT !.value = value]
    <2>2. entry \in AdjustmentEntry
        BY <1>1 DEF AdjustmentEntry
    <2>3. form' = [form EXCEPT !.adjustments = [form.adjustments EXCEPT ![i] = entry]]
        BY <2>1
    <2> QED BY <1>2, <2>2, <2>3
<1> QED BY <1>3, <1>4, <1>5, <1>6, <1>7 DEF AdjustmentChange

LEMMA ChangeKept == ASSUME FormKept, Change PROVE form' \in Kept
<1>0. form \in Kept
    BY DEF FormKept
<1>1. CASE setTargetDate
    <2>1. PICK day \in Day : form' = [form EXCEPT !.targetDate = valueAsDate(day), !.picked = day]
        BY <1>1 DEF setTargetDate, Edit
    <2>2. day \in Nat /\ valueAsDate(day) \in Nat
        BY TimeAssumption DEF valueAsDate
    <2> QED BY <1>0, <2>1, <2>2 DEF Kept, Picked, BillingInput
<1>2. CASE setNames \/ setIsOverdue
    <2>1. form.named \in BOOLEAN /\ form.isOverdue \in BOOLEAN
        BY <1>0, FieldTypes
    <2> QED BY <1>0, <1>2, <2>1, ChangedField DEF setNames, setIsOverdue, Edit
<1>3. CASE setUnpaidAmount
    <2>1. PICK n \in Typed : n >= 0 /\ form' = [form EXCEPT !.unpaidAmount = n]
        BY <1>3 DEF setUnpaidAmount, Edit
    <2>2. n \in Nat
        BY <2>1, TypedAssumption
    <2> QED BY <1>0, <2>1, <2>2, ChangedField
<1> QED BY <1>1, <1>2, <1>3, UsageKept, CreditsKept, AdjustmentsKept DEF Change, AdjustmentChange

\* Every step of the page leaves the form with an input of its making.
PageStep == Change \/ RefuseCalculate \/ LeaveForm \/ OpenForm \/ StartNew \/ LoadEntry

LEMMA PageKept ==
    ASSUME FormKept, PageStep
    PROVE  form' \in Kept /\ billingInput' \in Kept
<1>0. form \in Kept /\ billingInput \in Kept
    BY DEF FormKept
<1>1. CASE Change
    <2>1. billingInput' = billingInput
        BY <1>1 DEF Change, setTargetDate, setNames, setUnpaidAmount, setIsOverdue, addUsage, removeUsage,
                    updateUsage, updateInstanceType, addCredit, removeCredit, updateCredit, addAdjustment,
                    removeAdjustment, updateAdjustmentType, updateAdjustmentMethod,
                    updateAdjustmentValue, Edit
    <2> QED BY <1>0, <1>1, <2>1, ChangeKept
<1>2. CASE RefuseCalculate \/ LeaveForm
    BY <1>0, <1>2 DEF RefuseCalculate, LeaveForm
<1>3. CASE OpenForm
    BY <1>0, <1>3, DefaultsKept DEF OpenForm
<1>4. CASE StartNew
    BY <1>4, DefaultsKept DEF StartNew
<1>5. CASE LoadEntry
    BY <1>0, <1>5, StoredKept DEF LoadEntry
<1> QED BY <1>1, <1>2, <1>3, <1>4, <1>5 DEF PageStep

------------------------------------------------------------------------------
(* What is sent.                                                             *)

LEMMA BodyAccepted ==
    ASSUME NEW input \in Kept
    PROVE  Body(input) \in BillingRequest /\ AcceptedInput(Body(input))
<1> DEFINE body == Body(input)
<1>1. /\ body.usage \in Seq(UsageEntry) /\ body.credits \in Seq(Nat)
      /\ body.adjustments \in Seq(AdjustmentEntry)
      /\ body.unpaidAmount \in Nat /\ body.isOverdue \in BOOLEAN /\ body.targetDate \in Nat
    BY FieldTypes DEF Body
<1>2. UsageEntry \subseteq UsageItem /\ AdjustmentEntry \subseteq AdjustmentItemInput /\ Nat \subseteq Int
    <2>1. ASSUME NEW entry \in UsageEntry PROVE entry \in UsageItem
        <3>1. entry = [counterName |-> entry.counterName, counterVolume |-> entry.counterVolume]
            BY DEF UsageEntry
        <3>2. entry.counterName \in Instance /\ entry.counterVolume \in Nat
            BY DEF UsageEntry
        <3>3. entry.counterName \in STRING
            BY <3>2, InstanceAssumption, Zenon
        <3>4. entry.counterVolume \in Int
            BY <3>2
        <3> QED BY <3>1, <3>3, <3>4, Zenon DEF UsageItem
    <2>2. ASSUME NEW entry \in AdjustmentEntry PROVE entry \in AdjustmentItemInput
        <3>1. entry = [legacy |-> entry.legacy, type |-> entry.type, method |-> entry.method,
                       value |-> entry.value]
            BY DEF AdjustmentEntry
        <3>2. /\ entry.legacy \in {FALSE} /\ entry.type \in AdjustmentType
              /\ entry.method \in AdjustmentMethod /\ entry.value \in Nat
            BY DEF AdjustmentEntry, AdjustmentType, AdjustmentMethod
        <3>3. entry.legacy \in BOOLEAN
            BY <3>2, Zenon
        <3>4. entry.value \in Int
            BY <3>2
        <3> QED BY <3>1, <3>2, <3>3, <3>4, Zenon DEF AdjustmentItemInput
    <2> QED BY <2>1, <2>2
<1>3. /\ body.usage \in Seq(UsageItem) /\ body.credits \in Seq(Int)
      /\ body.adjustments \in Seq(AdjustmentItemInput)
    BY <1>1, <1>2, SeqMonotonic
<1>4. body \in BillingRequest
    BY <1>1, <1>3 DEF Body, BillingRequest
<1>5. \A i \in 1 .. Len(body.usage) : body.usage[i].counterVolume >= 0
    <2>1. \A i \in 1 .. Len(body.usage) : body.usage[i] \in UsageEntry
        BY <1>1, ElementOfSeq
    <2> QED BY <2>1 DEF UsageEntry
<1>6. NoDebts(body.credits)
    <2>1. \A i \in 1 .. Len(body.credits) : body.credits[i] \in Nat
        BY <1>1, ElementOfSeq
    <2> QED BY <2>1 DEF NoDebts
<1>7. \A i \in 1 .. Len(body.adjustments) : Valid(body.adjustments[i])
    <2>1. \A i \in 1 .. Len(body.adjustments) : body.adjustments[i] \in AdjustmentEntry
        BY <1>1, ElementOfSeq
    <2>2. ASSUME NEW entry \in AdjustmentEntry PROVE Valid(entry)
        BY DEF AdjustmentEntry, Valid, AdjustmentType, AdjustmentMethod
    <2> QED BY <2>1, <2>2
<1>8. body.unpaidAmount >= 0 /\ body.targetDate # BadDate
    BY <1>1 DEF BadDate
<1> QED BY <1>4, <1>5, <1>6, <1>7, <1>8 DEF AcceptedInput

\* A body that is taken up, whether or not another client could send it.
LEMMA TakeStep ==
    ASSUME NEW body \in BillingRequest, TypeOK, Take(body)
    PROVE  WorkerInv' /\ request' = body /\ pc' = "normalize"
<1>1. vatRate' \in Nat
    BY VatAssumption DEF Take, getVatRate, DEFAULT_RATE
<1>2. TypeOK'
    BY <1>1 DEF Take, TypeOK
<1>3. Answerable' /\ AcceptedInputAnswered' /\ Sums' /\ request' = body /\ pc' = "normalize"
    BY DEF Take, Answerable, AcceptedInputAnswered, Sums, Worked, Calculated
<1>4. InOrder'
    <2>1. appliedCredits' = <<>> /\ pc' = "normalize" /\ ~Calculated'
        BY DEF Take, Calculated
    <2> QED BY <1>2, <2>1, NoCreditsYet DEF InOrder
<1> QED BY <1>2, <1>3, <1>4 DEF WorkerInv

\* The steps of a calculation keep its request.
LEMMA CalculateKeeps ==
    Calculate => request' = request /\ pc # "idle" /\ pc # "answered" /\ pc' # "idle"
    BY DEF Calculate, Normalize, NormalizeFails, NormalizeDone, AddUsage, UsageDone, AddAdjustment,
           AdjustmentsDone, ApplyCredit, Respond, RespondFails, Answer, GoTo

------------------------------------------------------------------------------
(* The flow.                                                                 *)

FlowInv == WorkerInv /\ FormKept /\ SentIsRequest /\ Layout

LEMMA FlowInit == InitFlow => FlowInv
<1> SUFFICES ASSUME InitFlow PROVE FlowInv
    OBVIOUS
<1>1. WorkerInv
    BY WorkerInit DEF InitFlow, InitView
<1>2. FormKept
    BY DefaultsKept DEF InitFlow, InitForm, FormKept
<1>3. SentIsRequest
    BY DEF InitFlow, InitView, Init, SentIsRequest
<1>4. Layout
    BY NothingDrawn, LayoutNumbers DEF InitFlow, InitView, Layout
<1> QED BY <1>1, <1>2, <1>3, <1>4 DEF FlowInv

\* The page and the PDF leave the worker as it is.
LEMMA WorkerUntouched ==
    ASSUME FlowInv, UNCHANGED <<vars, client, sent>>
    PROVE  WorkerInv' /\ SentIsRequest'
<1>1. WorkerInv'
    BY WorkerStays DEF FlowInv
<1> QED BY <1>1 DEF FlowInv, SentIsRequest, vars, Body

LEMMA FlowStep == FlowInv /\ [NextFlow]_flowVars => FlowInv'
<1> SUFFICES ASSUME FlowInv, [NextFlow]_flowVars PROVE FlowInv'
    OBVIOUS
<1>1. CASE UsePage
    <2>1. UNCHANGED <<vars, client, sent>> /\ PageStep /\ ClearView
        BY <1>1 DEF UsePage, PageStep
    <2>2. FormKept'
        BY <2>1, PageKept DEF FlowInv, FormKept
    <2>3. Layout'
        BY <2>1, LayoutCleared DEF ClearView
    <2> QED BY <2>1, <2>2, <2>3, WorkerUntouched DEF FlowInv
<1>2. CASE Post
    <2>1. form \in Kept /\ form' = form /\ billingInput' = form /\ sent' = form /\ client' = client
        BY <1>2 DEF FlowInv, FormKept, Post, handleCalculate
    <2>2. WorkerInv' /\ request' = Body(form) /\ pc' = "normalize"
        <3>1. Body(form) \in BillingRequest /\ TypeOK /\ Take(Body(form))
            BY <1>2, <2>1, BodyAccepted DEF FlowInv, WorkerInv, Post
        <3> QED BY <3>1, TakeStep
    <2>3. Layout'
        BY <1>2, LayoutCleared DEF Post, ClearView
    <2> QED BY <2>1, <2>2, <2>3 DEF FlowInv, FormKept, SentIsRequest
<1>3. CASE Work
    <2>1. Calculate /\ client = "form" /\ UNCHANGED <<form, billingInput, client, sent>> /\ UNCHANGED pdf
        BY <1>3 DEF Work, onComplete, CalculationFailed, formVars
    <2>2. request' = request /\ pc # "idle" /\ pc # "answered"
        BY <2>1, CalculateKeeps
    <2>3. WorkerInv'
        BY <2>1, WorkerStays DEF FlowInv, Next
    <2>4. Layout'
        <3>1. section = "none"
            BY <2>2 DEF FlowInv, Layout, Calculated
        <3> QED BY <2>1, <3>1, LayoutKept DEF FlowInv
    <2> QED BY <2>1, <2>2, <2>3, <2>4 DEF FlowInv, FormKept, SentIsRequest, Body
<1>4. CASE OtherClient
    <2>1. Next /\ client = "other" /\ UNCHANGED <<form, billingInput, client, sent>>
        BY <1>4 DEF OtherClient, WorkerStep, formVars
    <2>2. WorkerInv'
        BY <2>1, WorkerStays DEF FlowInv
    <2>3. Layout'
        BY <1>4, LayoutCleared DEF OtherClient, WorkerStep
    <2> QED BY <2>1, <2>2, <2>3 DEF FlowInv, FormKept, SentIsRequest
<1>5. CASE generateStatementPDF /\ UNCHANGED <<formVars, client, sent>>
    <2>1. UNCHANGED <<vars, client, sent>> /\ UNCHANGED <<form, billingInput, sent>>
        BY <1>5 DEF generateStatementPDF, formVars
    <2>2. Layout'
        BY <1>5, LayoutDrawn DEF FlowInv, WorkerInv
    <2> QED BY <2>1, <2>2, WorkerUntouched DEF FlowInv, FormKept
<1>6. CASE UNCHANGED flowVars
    <2>1. UNCHANGED <<vars, client, sent>> /\ UNCHANGED <<form, billingInput, sent>> /\ UNCHANGED pdf
        BY <1>6 DEF flowVars, formVars
    <2>2. Layout'
        BY <2>1, LayoutKept DEF FlowInv
    <2> QED BY <2>1, <2>2, WorkerUntouched DEF FlowInv, FormKept
<1> QED BY <1>1, <1>2, <1>3, <1>4, <1>5, <1>6 DEF NextFlow

LEMMA FlowInvariant == SpecFlow => []FlowInv
    BY FlowInit, FlowStep, PTL DEF SpecFlow

\* Whatever is typed, picked, removed, loaded and changed, in lists of any length,
\* the form posts what the worker accepts.
THEOREM FormSends == SpecFlow => []FormSendsAcceptedInput
<1>1. FlowInv => FormSendsAcceptedInput
    <2> SUFFICES ASSUME FlowInv, client = "form", pc # "idle" PROVE AcceptedInput(request)
        BY DEF FormSendsAcceptedInput
    <2>1. sent \in Kept /\ request = Body(sent)
        BY DEF FlowInv, FormKept, SentIsRequest
    <2> QED BY <2>1, BodyAccepted
<1> QED BY <1>1, FlowInvariant, PTL

FormAnswered == client = "form" /\ pc = "answered" => status = 200

\* So that the worker never refuses a calculation from the form: the errors its
\* user sees are of the way to the worker, not of what he entered.
THEOREM FormIsAnswered == SpecFlow => []FormAnswered
<1>1. FlowInv => FormAnswered
    <2> SUFFICES ASSUME FlowInv, client = "form", pc = "answered" PROVE status = 200
        BY DEF FormAnswered
    <2>1. sent \in Kept /\ request = Body(sent)
        BY DEF FlowInv, FormKept, SentIsRequest
    <2>2. AcceptedInput(request)
        BY <2>1, BodyAccepted
    <2> QED BY <2>2 DEF FlowInv, WorkerInv, AcceptedInputAnswered
<1> QED BY <1>1, FlowInvariant, PTL

\* A day picked in the form is billed to its month, whatever the time zone.
THEOREM PickedMonth == SpecFlow => []PickedMonthIsBilled
<1>1. FlowInv => PickedMonthIsBilled
    <2> SUFFICES ASSUME FlowInv, client = "form", Calculated, sent.picked # NotPicked
                 PROVE  statement.month = sent.picked \div DaysPerMonth
        BY DEF PickedMonthIsBilled
    <2>1. sent \in Kept /\ request = Body(sent) /\ statement.month = extractMonth(request.targetDate)
        <3>1. statement = Statement
            BY DEF FlowInv, WorkerInv, Sums
        <3> QED BY <3>1 DEF FlowInv, FormKept, SentIsRequest, Calculated, Statement
    <2>2. sent.picked \in Nat /\ request.targetDate = sent.picked * 24
        BY <2>1 DEF Kept, Picked, BillingInput, Body, valueAsDate
    <2>3. statement.month = (sent.picked * 24) \div 720
        BY <2>1, <2>2 DEF extractMonth, HoursPerMonth
    <2>4. DaysPerMonth = 30
        BY DEF DaysPerMonth, HoursPerMonth
    <2> HIDE DEF DaysPerMonth
    <2> QED BY <2>2, <2>3, <2>4
<1> QED BY <1>1, FlowInvariant, PTL

\* What is true of the worker's statements for its other clients is true of those
\* the form is answered with, whose requests are not a given set but all that can
\* be entered.
THEOREM BillIsRight ==
    SpecFlow => [](CreditsSpentInOrder /\ StatementAddsUp /\ RoundingBounded /\ AcceptedInputAnswered)
<1>1. FlowInv => CreditsSpentInOrder /\ StatementAddsUp /\ RoundingBounded /\ AcceptedInputAnswered
    BY SumsAddUp, SumsRounding DEF FlowInv, WorkerInv, InOrder
<1> QED BY <1>1, FlowInvariant, PTL

\* Whatever is in a statement, the page and the PDF tell the same of it.
THEOREM ViewsTellTheSame == SpecFlow => []ViewsAgree
<1>1. FlowInv => ViewsAgree
    BY ViewsOfStatement DEF FlowInv, WorkerInv
<1> QED BY <1>1, FlowInvariant, PTL

\* However many line items, adjustments and credits there are, and however high
\* their rows up to 200 mm, nothing of the PDF is drawn over or off a page.
THEOREM PdfIsReadable == SpecFlow => []PdfReadable
<1>1. FlowInv => PdfReadable
    BY LayoutReadable DEF FlowInv, WorkerInv
<1> QED BY <1>1, FlowInvariant, PTL
=============================================================================
