----------------------- MODULE HistoryStorage_proofs -----------------------
(***************************************************************************)
(* Proofs about HistoryStorage, for any tabs, ids and limit, and whatever  *)
(* an older version or damage left in the storage, however long and with   *)
(* whatever ids: the types, that what is written is what is read, and that *)
(* tabs which take turns make one list.                                    *)
(*                                                                         *)
(* What Gather computes is proved by induction on the number of positions, *)
(* from SetInduction.                                                      *)
(***************************************************************************)
EXTENDS HistoryStorage, FiniteSetTheorems, SequenceTheorems, TLAPS

------------------------------------------------------------------------------
(* Sequences.                                                                *)

\* A number that is not in T would make the successor an injection of the smaller
\* ones in T, which are finitely many, into themselves that misses 0.
LEMMA SetInduction ==
    ASSUME NEW T, 0 \in T, \A n \in Nat : n \in T => n + 1 \in T
    PROVE  \A n \in Nat : n \in T
<1> SUFFICES ASSUME NEW n \in Nat, n \notin T PROVE FALSE
    OBVIOUS
<1> DEFINE S == {k \in 0 .. n : k \in T}
           f == [k \in S |-> k + 1]
<1>1. IsFiniteSet(S)
    <2>1. IsFiniteSet(0 .. n)
        BY FS_Interval
    <2> QED BY <2>1, FS_Subset
<1>2. f \in Injection(S, S)
    <2>1. \A k \in S : k \in Nat /\ k + 1 \in S
        OBVIOUS
    <2> HIDE DEF S
    <2> QED BY <2>1 DEF Injection, IsInjective
<1>3. f \in Surjection(S, S)
    <2> HIDE DEF f, S
    <2> QED BY <1>1, <1>2, FS_Injection
<1>4. 0 \in S
    OBVIOUS
<1>5. \A k \in S : f[k] # 0
    OBVIOUS
<1> HIDE DEF f, S
<1> QED BY <1>3, <1>4, <1>5 DEF Surjection

LEMMA ItemsOf ==
    ASSUME NEW S, NEW s \in Seq(S)
    PROVE  Len(s) \in Nat /\ \A i \in 1 .. Len(s) : s[i] \in S
    BY LenProperties, ElementOfSeq

\* The first items of a sequence, and one more.
LEMMA FirstItems ==
    ASSUME NEW S, NEW s \in Seq(S)
    PROVE  /\ SubSeq(s, 1, 0) = <<>> /\ SubSeq(s, 1, Len(s)) = s
           /\ \A n \in 0 .. Len(s) - 1 : SubSeq(s, 1, n + 1) = Append(SubSeq(s, 1, n), s[n + 1])
<1>1. SubSeq(s, 1, 0) = <<>> /\ SubSeq(s, 1, Len(s)) = s
    BY SubSeqEmpty, SubSeqFull
<1>2. ASSUME NEW n \in 0 .. Len(s) - 1
      PROVE  SubSeq(s, 1, n + 1) = Append(SubSeq(s, 1, n), s[n + 1])
    <2>1. /\ Len(s) \in Nat /\ n \in Nat /\ 1 \in 1 .. Len(s) /\ n + 1 \in 1 .. Len(s)
          /\ \A i \in 1 .. n : s[i] \in S
        BY ItemsOf
    <2>2. SubSeq(s, 1, n + 1) = SubSeq(s, 1, n + 1 - 1) \o <<s[n + 1]>>
        BY <2>1, SubSeqRecursiveSecond
    <2>3. n + 1 - 1 = n /\ SubSeq(s, 1, n) \in Seq(S) /\ s[n + 1] \in S
        BY <2>1, ItemsOf, SubSeqProperties
    <2>4. Append(SubSeq(s, 1, n), s[n + 1]) = SubSeq(s, 1, n) \o <<s[n + 1]>>
        BY <2>3, AppendIsConcat
    <2> QED BY <2>2, <2>3, <2>4
<1> QED BY <1>1, <1>2

------------------------------------------------------------------------------
(* Gather, and what migrate and Without make with it.                        *)

\* What it has gathered of the first positions, up to the n-th.
Gathers(g, n, kept, item) ==
    g = [i \in 0 .. n |->
            IF i = 0 THEN <<>>
            ELSE IF i \in kept THEN Append(g[i - 1], item[i])
            ELSE g[i - 1]]

\* The same, position by position.
StepByStep(g, n, kept, item) ==
    /\ g[0] = <<>>
    /\ \A i \in 0 .. n - 1 :
          g[i + 1] = IF i + 1 \in kept THEN Append(g[i], item[i + 1]) ELSE g[i]

LEMMA GathersSteps ==
    ASSUME NEW kept, NEW item, NEW n \in Nat, NEW g, Gathers(g, n, kept, item)
    PROVE  StepByStep(g, n, kept, item)
<1>0. ASSUME NEW j \in 0 .. n
      PROVE  g[j] = IF j = 0 THEN <<>>
                    ELSE IF j \in kept THEN Append(g[j - 1], item[j])
                    ELSE g[j - 1]
    BY DEF Gathers
<1>1. g[0] = <<>>
    <2>1. 0 \in 0 .. n
        OBVIOUS
    <2> QED BY <1>0, <2>1, Zenon
<1>2. ASSUME NEW i \in 0 .. n - 1
      PROVE  g[i + 1] = IF i + 1 \in kept THEN Append(g[i], item[i + 1]) ELSE g[i]
    <2>1. i + 1 \in 0 .. n /\ i + 1 # 0 /\ i + 1 - 1 = i
        OBVIOUS
    <2>2. g[i + 1] = IF i + 1 \in kept THEN Append(g[i + 1 - 1], item[i + 1])
                     ELSE g[i + 1 - 1]
        BY <1>0, <2>1
    <2> QED BY <2>1, <2>2
<1> QED BY <1>1, <1>2 DEF StepByStep

LEMMA GathersExists ==
    ASSUME NEW kept, NEW item
    PROVE  \A n \in Nat : \E g : Gathers(g, n, kept, item)
<1> DEFINE T == {n \in Nat : \E g : Gathers(g, n, kept, item)}
<1>1. 0 \in T
    <2> DEFINE g == [i \in 0 .. 0 |-> <<>>]
    <2>1. Gathers(g, 0, kept, item)
        BY DEF Gathers
    <2> QED BY <2>1
<1>2. ASSUME NEW n \in Nat, n \in T PROVE n + 1 \in T
    <2>1. PICK g : Gathers(g, n, kept, item)
        BY <1>2
    <2> DEFINE last == IF n + 1 \in kept THEN Append(g[n], item[n + 1]) ELSE g[n]
               h == [i \in 0 .. n + 1 |-> IF i = n + 1 THEN last ELSE g[i]]
    <2>2. ASSUME NEW i \in 0 .. n + 1
          PROVE  h[i] = IF i = 0 THEN <<>>
                        ELSE IF i \in kept THEN Append(h[i - 1], item[i])
                        ELSE h[i - 1]
        <3> HIDE DEF last
        <3>1. CASE i = n + 1
            <4>1. h[i] = last /\ i # 0 /\ i - 1 \in 0 .. n + 1 /\ h[i - 1] = g[n]
                BY <3>1
            <4> QED BY <3>1, <4>1 DEF last
        <3>2. CASE i # n + 1
            <4>1. i \in 0 .. n /\ h[i] = g[i]
                BY <3>2
            <4>2. g[i] = IF i = 0 THEN <<>>
                         ELSE IF i \in kept THEN Append(g[i - 1], item[i])
                         ELSE g[i - 1]
                BY <2>1, <4>1 DEF Gathers
            <4>3. i # 0 => h[i - 1] = g[i - 1]
                BY <4>1
            <4> QED BY <4>1, <4>2, <4>3
        <3> QED BY <3>1, <3>2
    <2>3. h = [i \in 0 .. n + 1 |-> h[i]]
        OBVIOUS
    <2> HIDE DEF h
    <2>4. Gathers(h, n + 1, kept, item)
        BY <2>2, <2>3 DEF Gathers
    <2> QED BY <2>4
<1>3. \A n \in Nat : n \in T
    <2> HIDE DEF T
    <2> QED BY <1>1, <1>2, SetInduction
<1> QED BY <1>3

LEMMA GatherIsLast ==
    ASSUME NEW n \in Nat, NEW kept, NEW item
    PROVE  \E g : Gathers(g, n, kept, item) /\ Gather(n, kept, item) = g[n]
<1> DEFINE c == CHOOSE g : Gathers(g, n, kept, item)
<1>1. Gather(n, kept, item) = c[n]
    BY DEF Gather, Gathers
<1>2. Gathers(c, n, kept, item)
    BY GathersExists
<1> HIDE DEF c
<1> QED BY <1>1, <1>2

\* u has the items of the kept positions up to the n-th, and from says where each
\* of them was.
InOrder(from, u, n, kept, item) ==
    /\ from \in [1 .. Len(u) -> Nat]
    /\ \A j \in 1 .. Len(u) : from[j] \in 1 .. n /\ from[j] \in kept /\ u[j] = item[from[j]]
    /\ \A j, k \in 1 .. Len(u) : j < k => from[j] < from[k]
    /\ \A i \in 1 .. n : i \in kept => \E j \in 1 .. Len(u) : from[j] = i

\* One position more.
LEMMA InOrderStep ==
    ASSUME NEW S, NEW u \in Seq(S), NEW n \in Nat, NEW kept, NEW item, NEW from,
           InOrder(from, u, n, kept, item),
           n + 1 \in kept => item[n + 1] \in S
    PROVE  LET v == IF n + 1 \in kept THEN Append(u, item[n + 1]) ELSE u
           IN  v \in Seq(S) /\ Len(v) <= Len(u) + 1 /\ \E f : InOrder(f, v, n + 1, kept, item)
<1>0. Len(u) \in Nat
    BY ItemsOf
<1>1. CASE n + 1 \notin kept
    <2>1. InOrder(from, u, n + 1, kept, item)
        <3>1. \A i \in 1 .. n + 1 : i \in kept => i \in 1 .. n
            BY <1>1
        <3> QED BY <3>1 DEF InOrder
    <2> QED BY <1>0, <1>1, <2>1
<1>2. CASE n + 1 \in kept
    <2> DEFINE v == Append(u, item[n + 1])
               f == [j \in 1 .. Len(u) + 1 |-> IF j = Len(u) + 1 THEN n + 1 ELSE from[j]]
    <2>1. /\ v \in Seq(S) /\ Len(v) = Len(u) + 1 /\ v[Len(u) + 1] = item[n + 1]
          /\ \A j \in 1 .. Len(u) : v[j] = u[j]
        BY <1>2, AppendProperties
    <2> HIDE DEF v
    <2>2. /\ f \in [1 .. Len(u) + 1 -> Nat] /\ f[Len(u) + 1] = n + 1
          /\ \A j \in 1 .. Len(u) : f[j] = from[j]
        BY <1>0 DEF InOrder
    <2> HIDE DEF f
    <2>3. ASSUME NEW j \in 1 .. Len(u) + 1
          PROVE  f[j] \in 1 .. n + 1 /\ f[j] \in kept /\ v[j] = item[f[j]]
        <3>1. CASE j = Len(u) + 1
            BY <1>2, <2>1, <2>2, <3>1
        <3>2. CASE j # Len(u) + 1
            <4>1. j \in 1 .. Len(u)
                BY <1>0, <3>2
            <4> QED BY <2>1, <2>2, <4>1 DEF InOrder
        <3> QED BY <3>1, <3>2
    <2>4. ASSUME NEW j \in 1 .. Len(u) + 1, NEW k \in 1 .. Len(u) + 1, j < k
          PROVE  f[j] < f[k]
        <3>1. j \in 1 .. Len(u) /\ f[j] = from[j] /\ from[j] \in 1 .. n
            BY <1>0, <2>2, <2>4 DEF InOrder
        <3>2. CASE k = Len(u) + 1
            BY <2>2, <3>1, <3>2
        <3>3. CASE k # Len(u) + 1
            <4>1. k \in 1 .. Len(u) /\ f[k] = from[k]
                BY <1>0, <2>2, <3>3
            <4> QED BY <2>4, <3>1, <4>1 DEF InOrder
        <3> QED BY <3>2, <3>3
    <2>5. ASSUME NEW i \in 1 .. n + 1, i \in kept
          PROVE  \E j \in 1 .. Len(u) + 1 : f[j] = i
        <3>1. CASE i = n + 1
            BY <1>0, <2>2, <3>1
        <3>2. CASE i # n + 1
            <4>1. PICK j \in 1 .. Len(u) : from[j] = i
                BY <2>5, <3>2 DEF InOrder
            <4> QED BY <1>0, <2>2, <4>1
        <3> QED BY <3>1, <3>2
    <2>6. InOrder(f, v, n + 1, kept, item)
        BY <2>1, <2>2, <2>3, <2>4, <2>5 DEF InOrder
    <2> QED BY <1>0, <1>2, <2>1, <2>6 DEF v
<1> QED BY <1>1, <1>2

\* It gathers the items of the kept positions, in their order.
LEMMA GatherInOrder ==
    ASSUME NEW S, NEW n \in Nat, NEW kept, NEW item,
           \A i \in 1 .. n : i \in kept => item[i] \in S
    PROVE  LET u == Gather(n, kept, item)
           IN  u \in Seq(S) /\ Len(u) <= n /\ \E from : InOrder(from, u, n, kept, item)
<1>1. PICK g : Gathers(g, n, kept, item) /\ Gather(n, kept, item) = g[n]
    BY GatherIsLast
<1>6. StepByStep(g, n, kept, item)
    BY <1>1, GathersSteps
<1> DEFINE P(k) == /\ g[k] \in Seq(S) /\ Len(g[k]) <= k
                   /\ \E from : InOrder(from, g[k], k, kept, item)
           T == {k \in Nat : k <= n => P(k)}
<1>2. 0 \in T
    <2> DEFINE none == [j \in 1 .. 0 |-> 0]
    <2>1. <<>> \in Seq(S) /\ Len(<<>>) = 0
        BY EmptySeq
    <2>2. InOrder(none, <<>>, 0, kept, item)
        BY <2>1 DEF InOrder
    <2> HIDE DEF none
    <2>3. P(0)
        BY <1>6, <2>1, <2>2 DEF StepByStep
    <2> HIDE DEF P
    <2> QED BY <2>3
<1>3. ASSUME NEW k \in Nat, k \in T PROVE k + 1 \in T
    <2> SUFFICES ASSUME k + 1 <= n PROVE P(k + 1)
        OBVIOUS
    <2>1. k \in 0 .. n - 1 /\ k + 1 \in 1 .. n /\ P(k)
        BY <1>3
    <2>2. g[k + 1] = IF k + 1 \in kept THEN Append(g[k], item[k + 1]) ELSE g[k]
        BY <1>6, <2>1 DEF StepByStep
    <2>3. PICK from : InOrder(from, g[k], k, kept, item)
        BY <2>1
    <2>4. k + 1 \in kept => item[k + 1] \in S
        BY <2>1
    <2>5. g[k] \in Seq(S) /\ Len(g[k]) <= k /\ Len(g[k]) \in Nat
        BY <2>1, ItemsOf
    <2>6. /\ g[k + 1] \in Seq(S) /\ Len(g[k + 1]) <= Len(g[k]) + 1
          /\ \E f : InOrder(f, g[k + 1], k + 1, kept, item)
        BY <2>2, <2>3, <2>4, <2>5, InOrderStep
    <2>7. Len(g[k + 1]) <= k + 1
        BY <2>5, <2>6, ItemsOf
    <2> QED BY <2>6, <2>7
<1>4. \A k \in Nat : k \in T
    <2> HIDE DEF T
    <2> QED BY <1>2, <1>3, SetInduction
<1>5. P(n)
    BY <1>4
<1> QED BY <1>1, <1>5

\* Where every position is kept, it leaves the items as they are.
LEMMA GatherAll ==
    ASSUME NEW S, NEW items \in Seq(S), NEW kept, NEW item,
           \A i \in 1 .. Len(items) : i \in kept /\ item[i] = items[i]
    PROVE  Gather(Len(items), kept, item) = items
<1> DEFINE n == Len(items)
<1>1. n \in Nat
    BY ItemsOf
<1>2. PICK g : Gathers(g, n, kept, item) /\ Gather(n, kept, item) = g[n]
    BY <1>1, GatherIsLast
<1>9. StepByStep(g, n, kept, item)
    BY <1>1, <1>2, GathersSteps
<1>3. /\ SubSeq(items, 1, 0) = <<>> /\ SubSeq(items, 1, n) = items
      /\ \A k \in 0 .. n - 1 : SubSeq(items, 1, k + 1) = Append(SubSeq(items, 1, k), items[k + 1])
    BY FirstItems
<1>4. \A i \in 1 .. n : i \in kept /\ item[i] = items[i]
    OBVIOUS
<1> HIDE DEF n
<1> DEFINE T == {k \in Nat : k <= n => g[k] = SubSeq(items, 1, k)}
<1>5. 0 \in T
    BY <1>1, <1>3, <1>9 DEF StepByStep
<1>6. ASSUME NEW k \in Nat, k \in T PROVE k + 1 \in T
    <2> SUFFICES ASSUME k + 1 <= n PROVE g[k + 1] = SubSeq(items, 1, k + 1)
        OBVIOUS
    <2>1. k \in 0 .. n - 1 /\ k + 1 \in 1 .. n /\ g[k] = SubSeq(items, 1, k)
        BY <1>1, <1>6
    <2>2. g[k + 1] = IF k + 1 \in kept THEN Append(g[k], item[k + 1]) ELSE g[k]
        BY <1>9, <2>1 DEF StepByStep
    <2> QED BY <1>3, <1>4, <2>1, <2>2
<1>7. \A k \in Nat : k \in T
    <2> HIDE DEF T
    <2> QED BY <1>5, <1>6, SetInduction
<1>8. g[n] = SubSeq(items, 1, n)
    BY <1>1, <1>7
<1> QED BY <1>2, <1>3, <1>8 DEF n

\* What migrate gives is complete, whatever was stored.
LEMMA MigrateCompletes ==
    ASSUME NEW items \in Seq(SerializedItem)
    PROVE  migrate(items) \in Seq(Item)
<1> DEFINE n == Len(items)
           kept == {i \in 1 .. n : Complete(items[i])}
           item == [i \in 1 .. n |-> migrated(items[i])]
<1>1. n \in Nat /\ \A i \in 1 .. n : items[i] \in SerializedItem
    BY ItemsOf
<1>2. ASSUME NEW i \in 1 .. n, i \in kept PROVE item[i] \in Item
    <2>1. items[i] \in SerializedItem /\ Complete(items[i]) /\ item[i] = migrated(items[i])
        BY <1>1, <1>2
    <2> QED BY <2>1 DEF Complete, migrated, SerializedItem, Item, GeneratedId, None
<1>3. migrate(items) = Gather(n, kept, item)
    BY DEF migrate
<1> HIDE DEF n, kept, item
<1> QED BY <1>1, <1>2, <1>3, GatherInOrder

\* It leaves what is complete as it is.
LEMMA MigrateKeeps ==
    ASSUME NEW items \in Seq(Item)
    PROVE  migrate(items) = items
<1> DEFINE kept == {i \in 1 .. Len(items) : Complete(items[i])}
           item == [i \in 1 .. Len(items) |-> migrated(items[i])]
<1>1. ASSUME NEW i \in 1 .. Len(items) PROVE i \in kept /\ item[i] = items[i]
    <2>1. items[i] \in Item
        BY ItemsOf
    <2>2. items[i].complete = TRUE /\ items[i].id \in ItemId \cup {GeneratedId}
        BY <2>1 DEF Item
    <2>3. items[i].id # None
        BY <2>2, IdAssumption DEF GeneratedId, None
    <2>4. Complete(items[i]) /\ migrated(items[i]) = items[i]
        BY <2>1, <2>2, <2>3 DEF Complete, migrated, Item
    <2> QED BY <2>4
<1>2. migrate(items) = Gather(Len(items), kept, item)
    BY DEF migrate
<1> HIDE DEF kept, item
<1> QED BY <1>1, <1>2, GatherAll
------------------------------------------------------------------------------
(* Entries, written and read.                                                *)

\* Whatever is readable is read as a complete entry of the same id.
LEMMA DeserializeCompletes ==
    ASSUME NEW e \in SerializedHistoryEntry, TypeGuard(e), Readable(e)
    PROVE  deserializeHistoryEntry(e) \in HistoryEntry /\ deserializeHistoryEntry(e).id = e.id
<1> DEFINE read == [name \in ListName |-> IF name \in e.lists THEN migrate(e.items[name]) ELSE <<>>]
           date == IF e.transactionDate = BadDate THEN e.timestamp ELSE e.transactionDate
<1>1. /\ e.id \in EntryId /\ e.timestamp \in Nat /\ e.targetDate \in Nat
      /\ e.statement \in Nat \cup {None}
      /\ e.items \in [ListName -> Seq(SerializedItem)]
    BY DEF SerializedHistoryEntry, TypeGuard, Readable
<1>2. date \in Nat \cup {None}
    BY <1>1 DEF SerializedHistoryEntry
<1>3. read \in [ListName -> Seq(Item)]
    BY <1>1, MigrateCompletes, EmptySeq
<1>4. deserializeHistoryEntry(e) =
          [id |-> e.id, timestamp |-> e.timestamp, targetDate |-> e.targetDate, items |-> read,
           statement |-> e.statement, transactionDate |-> date]
    BY DEF deserializeHistoryEntry
<1> HIDE DEF read, date
<1> QED BY <1>1, <1>2, <1>3, <1>4 DEF HistoryEntry

\* What is written of an entry can be read, and reads as that entry.
LEMMA ReadAsWritten ==
    ASSUME NEW entry \in HistoryEntry
    PROVE  LET e == serializeHistoryEntry(entry)
           IN  /\ e \in SerializedHistoryEntry /\ e.id = entry.id
               /\ TypeGuard(e) /\ Readable(e) /\ deserializeHistoryEntry(e) = entry
<1> DEFINE e == serializeHistoryEntry(entry)
<1>1. /\ entry.id \in EntryId /\ entry.timestamp \in Nat /\ entry.targetDate \in Nat
      /\ entry.items \in [ListName -> Seq(Item)]
      /\ entry.statement \in Nat \cup {None} /\ entry.transactionDate \in Nat \cup {None}
    BY DEF HistoryEntry
<1>2. /\ e.id = entry.id /\ e.timestamp = entry.timestamp /\ e.input = "object"
      /\ e.targetDate = entry.targetDate /\ e.lists = ListName /\ e.items = entry.items
      /\ e.statement = entry.statement /\ e.transactionDate = entry.transactionDate
    BY DEF serializeHistoryEntry, ListsWritten
<1>3. e \in SerializedHistoryEntry
    <2>1. entry.items \in [ListName -> Seq(SerializedItem)]
        <3>1. Item \subseteq SerializedItem
            BY DEF Item, SerializedItem
        <3> QED BY <1>1, <3>1, SeqMonotonic
    <2> QED BY <1>1, <2>1 DEF serializeHistoryEntry, ListsWritten, SerializedHistoryEntry
<1> HIDE DEF e
<1>4. entry.timestamp # BadDate /\ entry.targetDate # BadDate /\ entry.transactionDate # BadDate
    BY <1>1 DEF BadDate, None
<1>5. TypeGuard(e)
    <2>1. entry.id # None
        BY <1>1, IdAssumption
    <2> QED BY <1>2, <1>4, <2>1 DEF TypeGuard
<1>6. Readable(e)
    BY <1>2, <1>4 DEF Readable, ListName
<1>7. deserializeHistoryEntry(e) = entry
    <2> DEFINE read == [name \in ListName |-> IF name \in e.lists THEN migrate(e.items[name]) ELSE <<>>]
    <2>1. read = entry.items
        BY <1>1, <1>2, MigrateKeeps
    <2>2. deserializeHistoryEntry(e) =
              [id |-> entry.id, timestamp |-> entry.timestamp, targetDate |-> entry.targetDate,
               items |-> read, statement |-> entry.statement, transactionDate |-> entry.transactionDate]
        BY <1>2, <1>4 DEF deserializeHistoryEntry
    <2> HIDE DEF read
    <2> QED BY <2>1, <2>2 DEF HistoryEntry
<1> QED BY <1>2, <1>3, <1>5, <1>6, <1>7 DEF e

------------------------------------------------------------------------------
(* Histories.                                                                *)

\* What a tab may hold, and what the storage may; sound, if it was found so.
History(found, h) == h \in Seq(HistoryEntry) /\ (found => Sound(h))
Stored(found, s) == s \in StoredState /\ (found => Sound(s.history))

LEMMA NoEntries == ASSUME NEW found PROVE History(found, <<>>)
<1>1. <<>> \in Seq(HistoryEntry) /\ Len(<<>>) = 0
    BY EmptySeq
<1> QED BY <1>1, HistoryAssumption DEF History, Sound, IdsDiffer

\* The storage is read as a history.
LEMMA MergeIsHistory == ASSUME NEW found, NEW s, Stored(found, s) PROVE History(found, merge(s))
<1> DEFINE n == Len(s.history)
           h == [i \in 1 .. n |-> deserializeHistoryEntry(s.history[i])]
<1>1. n \in Nat /\ \A i \in 1 .. n : s.history[i] \in SerializedHistoryEntry
    <2>1. s.history \in Seq(SerializedHistoryEntry)
        BY DEF Stored, StoredState
    <2> QED BY <2>1, ItemsOf DEF Stored
<1>2. CASE isPersistedState(s) /\ \A i \in 1 .. n : Readable(s.history[i])
    <2>1. ASSUME NEW i \in 1 .. n
          PROVE  h[i] \in HistoryEntry /\ h[i].id = s.history[i].id
        <3>1. s.history[i] \in SerializedHistoryEntry /\ TypeGuard(s.history[i]) /\ Readable(s.history[i])
            BY <1>1, <1>2 DEF isPersistedState
        <3> QED BY <3>1, DeserializeCompletes
    <2>2. merge(s) = h
        BY <1>2 DEF merge
    <2>3. h \in [1 .. n -> HistoryEntry]
        <3>1. h = [i \in 1 .. n |-> h[i]]
            OBVIOUS
        <3> HIDE DEF h
        <3> QED BY <2>1, <3>1
    <2> HIDE DEF h
    <2>4. h \in Seq(HistoryEntry) /\ Len(h) = n
        BY <1>1, <2>3
    <2>5. ASSUME found PROVE Sound(h)
        <3>1. n <= MAX_ENTRIES /\ IdsDiffer(s.history)
            BY <2>5 DEF Stored, Sound
        <3>2. IdsDiffer(h)
            BY <2>1, <2>4, <3>1 DEF IdsDiffer
        <3> QED BY <2>4, <3>1, <3>2 DEF Sound
    <2> QED BY <2>2, <2>4, <2>5 DEF History
<1>3. CASE ~(isPersistedState(s) /\ \A i \in 1 .. n : Readable(s.history[i]))
    <2>1. merge(s) = <<>>
        BY <1>3 DEF merge
    <2> QED BY <2>1, NoEntries
<1> QED BY <1>2, <1>3

\* A history that is written can be stored, and is read as it was.
LEMMA MergePartialize ==
    ASSUME NEW found, NEW h, History(found, h)
    PROVE  Stored(found, partialize(h)) /\ merge(partialize(h)) = h
<1> DEFINE n == Len(h)
           written == [i \in 1 .. n |-> serializeHistoryEntry(h[i])]
           s == partialize(h)
<1>1. /\ n \in Nat /\ \A i \in 1 .. n : h[i] \in HistoryEntry
      /\ h = [i \in 1 .. n |-> h[i]]
    <2>1. h \in Seq(HistoryEntry)
        BY DEF History
    <2>2. h = [i \in 1 .. n |-> h[i]]
        BY <2>1
    <2> QED BY <2>1, <2>2, ItemsOf DEF History
<1>2. s.isState = TRUE /\ s.history = written /\ s = [isState |-> TRUE, history |-> written]
    BY DEF partialize
<1>3. ASSUME NEW i \in 1 .. n
      PROVE  /\ written[i] \in SerializedHistoryEntry /\ written[i].id = h[i].id
             /\ TypeGuard(written[i]) /\ Readable(written[i])
             /\ deserializeHistoryEntry(written[i]) = h[i]
    <2>1. h[i] \in HistoryEntry /\ written[i] = serializeHistoryEntry(h[i])
        BY <1>1
    <2> QED BY <2>1, ReadAsWritten
<1>4. written \in [1 .. n -> SerializedHistoryEntry]
    <2>1. written = [i \in 1 .. n |-> written[i]]
        OBVIOUS
    <2> HIDE DEF written
    <2> QED BY <1>3, <2>1
<1> HIDE DEF written, s
<1>5. written \in Seq(SerializedHistoryEntry) /\ Len(written) = n
    BY <1>1, <1>4
<1>6. Stored(found, s)
    <2>1. s \in StoredState
        BY <1>2, <1>5 DEF StoredState
    <2>2. ASSUME found PROVE Sound(written)
        <3>1. n <= MAX_ENTRIES /\ IdsDiffer(h)
            BY <2>2 DEF History, Sound, n
        <3>2. IdsDiffer(written)
            BY <1>1, <1>3, <1>5, <3>1 DEF IdsDiffer, n
        <3> QED BY <1>5, <3>1, <3>2 DEF Sound
    <2> QED BY <1>2, <2>1, <2>2 DEF Stored
<1>7. isPersistedState(s) /\ \A i \in 1 .. Len(s.history) : Readable(s.history[i])
    BY <1>2, <1>3, <1>5 DEF isPersistedState
<1>8. merge(s) = [i \in 1 .. Len(s.history) |-> deserializeHistoryEntry(s.history[i])]
    BY <1>7 DEF merge
<1>9. merge(s) = [i \in 1 .. n |-> h[i]]
    BY <1>2, <1>3, <1>5, <1>8
<1> QED BY <1>1, <1>6, <1>9 DEF s
------------------------------------------------------------------------------
(* The operations, on a history.                                             *)

\* In front, and the last one out when there is no room.
LEMMA AddedEntry ==
    ASSUME NEW found, NEW h, History(found, h), NEW e \in HistoryEntry, e.id \notin IdsOf(h)
    PROVE  LET g == FirstOf(<<e>> \o h)
           IN  History(found, g) /\ g # <<>> /\ Head(g) = e
<1> DEFINE n == Len(h)
           longer == <<e>> \o h
           g == FirstOf(longer)
<1>1. h \in Seq(HistoryEntry) /\ n \in Nat /\ MAX_ENTRIES \in Nat \ {0}
    BY ItemsOf, HistoryAssumption DEF History
<1>2. /\ longer \in Seq(HistoryEntry) /\ Len(longer) = n + 1
      /\ \A i \in 1 .. n + 1 : longer[i] = IF i = 1 THEN e ELSE h[i - 1]
    <2>1. <<e>> \in Seq(HistoryEntry) /\ Len(<<e>>) = 1 /\ <<e>>[1] = e
        OBVIOUS
    <2>2. /\ longer \in Seq(HistoryEntry) /\ Len(longer) = 1 + n
          /\ \A i \in 1 .. 1 + n : longer[i] = IF i <= 1 THEN <<e>>[i] ELSE h[i - 1]
        BY <1>1, <2>1, ConcatProperties
    <2>3. ASSUME NEW i \in 1 .. n + 1 PROVE longer[i] = IF i = 1 THEN e ELSE h[i - 1]
        BY <1>1, <2>1, <2>2
    <2> QED BY <1>1, <2>2, <2>3
<1> HIDE DEF longer
<1>3. /\ g \in Seq(HistoryEntry) /\ Len(g) \in 1 .. MAX_ENTRIES /\ Len(g) <= n + 1
      /\ \A i \in 1 .. Len(g) : g[i] = longer[i]
    <2>1. CASE n + 1 > MAX_ENTRIES
        <3>1. g = SubSeq(longer, 1, MAX_ENTRIES)
            BY <1>2, <2>1 DEF FirstOf
        <3>2. \A i \in 1 .. MAX_ENTRIES : longer[i] \in HistoryEntry
            BY <1>1, <1>2, <2>1, ElementOfSeq
        <3>3. /\ SubSeq(longer, 1, MAX_ENTRIES) \in Seq(HistoryEntry)
              /\ Len(SubSeq(longer, 1, MAX_ENTRIES)) = IF 1 <= MAX_ENTRIES THEN MAX_ENTRIES - 1 + 1 ELSE 0
              /\ \A i \in 1 .. MAX_ENTRIES - 1 + 1 :
                    SubSeq(longer, 1, MAX_ENTRIES)[i] = longer[1 + i - 1]
            BY <1>1, <3>2, SubSeqProperties
        <3>4. Len(g) = MAX_ENTRIES /\ g \in Seq(HistoryEntry)
            BY <1>1, <3>1, <3>3
        <3>5. \A i \in 1 .. MAX_ENTRIES : g[i] = longer[i]
            BY <1>1, <3>1, <3>3
        <3> QED BY <1>1, <2>1, <3>4, <3>5
    <2>2. CASE ~(n + 1 > MAX_ENTRIES)
        <3>1. g = longer
            BY <1>2, <2>2 DEF FirstOf
        <3> QED BY <1>1, <1>2, <2>2, <3>1
    <2> QED BY <2>1, <2>2
<1> HIDE DEF g
<1>4. ASSUME found PROVE IdsDiffer(g)
    <2>0. IdsDiffer(h)
        BY <1>4 DEF History, Sound
    <2>1. \A i \in 1 .. n : h[i].id # e.id
        BY DEF IdsOf
    <2>2. ASSUME NEW i \in 1 .. Len(g), NEW j \in 1 .. Len(g), g[i].id = g[j].id
          PROVE  i = j
        <3>1. /\ i \in 1 .. n + 1 /\ j \in 1 .. n + 1
              /\ g[i] = IF i = 1 THEN e ELSE h[i - 1]
              /\ g[j] = IF j = 1 THEN e ELSE h[j - 1]
            BY <1>1, <1>2, <1>3
        <3>2. (i # 1 => i - 1 \in 1 .. n) /\ (j # 1 => j - 1 \in 1 .. n)
            BY <1>1, <3>1
        <3>3. i # 1 /\ j # 1 => i - 1 = j - 1
            BY <1>1, <2>0, <2>2, <3>1, <3>2 DEF IdsDiffer
        <3> QED BY <1>1, <2>1, <2>2, <3>1, <3>2, <3>3
    <2> QED BY <2>2 DEF IdsDiffer
<1>5. g # <<>> /\ Head(g) = e
    <2>1. g[1] = longer[1] /\ longer[1] = e /\ Len(g) # 0
        BY <1>1, <1>2, <1>3
    <2> QED BY <1>3, <2>1
<1> QED BY <1>1, <1>3, <1>4, <1>5 DEF History, Sound, g, longer

UpdatedBy(h, id, content) ==
    [i \in 1 .. Len(h) |-> IF h[i].id = id THEN With(h[i], content) ELSE h[i]]

LEMMA WithType ==
    ASSUME NEW id \in EntryId, NEW now \in Nat, NEW content \in Content, NEW entry,
           entry.id = id, entry.timestamp = now
    PROVE  /\ With(entry, content) \in HistoryEntry
           /\ With(entry, content).id = id /\ With(entry, content).timestamp = now
    BY ContentAssumption DEF With, HistoryEntry, ContentType

LEMMA UpdatedEntry ==
    ASSUME NEW found, NEW h, History(found, h), NEW id \in EntryId, NEW content \in Content
    PROVE  LET g == UpdatedBy(h, id, content)
           IN  /\ History(found, g) /\ Len(g) = Len(h)
               /\ \A i \in 1 .. Len(h) :
                     /\ g[i].id = h[i].id /\ g[i].timestamp = h[i].timestamp
                     /\ h[i].id # id => g[i] = h[i]
<1> DEFINE g == UpdatedBy(h, id, content)
<1>1. /\ h \in Seq(HistoryEntry) /\ Len(h) \in Nat
      /\ \A i \in 1 .. Len(h) : h[i] \in HistoryEntry
    BY ItemsOf DEF History
<1>2. /\ g = [i \in 1 .. Len(h) |-> g[i]]
      /\ \A i \in 1 .. Len(h) : g[i] = IF h[i].id = id THEN With(h[i], content) ELSE h[i]
    BY DEF UpdatedBy
<1> HIDE DEF g
<1>3. ASSUME NEW i \in 1 .. Len(h)
      PROVE  /\ g[i] \in HistoryEntry /\ g[i].id = h[i].id /\ g[i].timestamp = h[i].timestamp
             /\ h[i].id # id => g[i] = h[i]
    <2>1. h[i] \in HistoryEntry /\ h[i].id \in EntryId /\ h[i].timestamp \in Nat
        BY <1>1 DEF HistoryEntry
    <2>2. /\ With(h[i], content) \in HistoryEntry /\ With(h[i], content).id = h[i].id
          /\ With(h[i], content).timestamp = h[i].timestamp
        BY <2>1, WithType
    <2> QED BY <1>2, <2>1, <2>2
<1>4. g \in Seq(HistoryEntry) /\ Len(g) = Len(h)
    <2>1. g \in [1 .. Len(h) -> HistoryEntry]
        BY <1>2, <1>3
    <2> QED BY <1>1, <2>1
<1>5. ASSUME found PROVE Sound(g)
    BY <1>3, <1>4, <1>5 DEF History, Sound, IdsDiffer
<1> QED BY <1>3, <1>4, <1>5 DEF History, g

\* What is left when the entries of an id are deleted: the others, in their order.
LEMMA DeletedEntry ==
    ASSUME NEW found, NEW h, History(found, h), NEW id
    PROVE  LET g == Without(h, id)
               kept == {i \in 1 .. Len(h) : h[i].id # id}
           IN  /\ History(found, g)
               /\ \E from : InOrder(from, g, Len(h), kept, h)
<1> DEFINE n == Len(h)
           kept == {i \in 1 .. Len(h) : h[i].id # id}
           g == Without(h, id)
<1>1. h \in Seq(HistoryEntry) /\ n \in Nat /\ \A i \in 1 .. n : h[i] \in HistoryEntry
    BY ItemsOf DEF History
<1>2. g = Gather(n, kept, h)
    BY DEF Without
<1> HIDE DEF g, n, kept
<1>3. g \in Seq(HistoryEntry) /\ Len(g) <= n /\ \E from : InOrder(from, g, n, kept, h)
    BY <1>1, <1>2, GatherInOrder
<1>4. PICK from : InOrder(from, g, n, kept, h)
    BY <1>3
<1>5. ASSUME found PROVE Sound(g)
    <2>1. n <= MAX_ENTRIES /\ MAX_ENTRIES \in Nat
          /\ \A i, j \in 1 .. n : h[i].id = h[j].id => i = j
        BY <1>5, HistoryAssumption DEF History, Sound, IdsDiffer, n
    <2>2. Len(g) \in Nat /\ Len(g) <= MAX_ENTRIES
        BY <1>1, <1>3, <2>1, ItemsOf
    <2>3. ASSUME NEW j \in 1 .. Len(g), NEW k \in 1 .. Len(g), g[j].id = g[k].id
          PROVE  j = k
        <3>1. /\ from[j] \in 1 .. n /\ from[k] \in 1 .. n
              /\ g[j] = h[from[j]] /\ g[k] = h[from[k]]
            BY <1>4 DEF InOrder
        <3>2. from[j] = from[k] /\ from[j] \in Nat /\ from[k] \in Nat
            BY <1>1, <2>1, <2>3, <3>1
        <3>3. ~(j < k) /\ ~(k < j)
            BY <1>4, <3>2 DEF InOrder
        <3> QED BY <2>2, <3>3
    <2>4. IdsDiffer(g)
        BY <2>3 DEF IdsDiffer
    <2> QED BY <2>2, <2>4 DEF Sound
<1>6. History(found, g)
    BY <1>3, <1>5 DEF History
<1> QED BY <1>4, <1>6 DEF g, n, kept
------------------------------------------------------------------------------
(* The store.                                                                *)

\* The types, and that what the last tab wrote is read as what it holds: the
\* storage then holds a history itself, so that Load gives one.
Inv ==
    /\ \A tab \in Tab : History(foundSound, memory[tab])
    /\ memory = [tab \in Tab |-> memory[tab]]
    /\ Stored(foundSound, stored)
    /\ lastWriter \in Tab \cup {NoTab} /\ inTurn \in BOOLEAN /\ foundSound \in BOOLEAN
    /\ ReloadKeepsHistory

LEMMA TypesOfInv == Inv => TypeOK
    BY DEF Inv, TypeOK, History, Stored

LEMMA InvInit == Init => Inv
<1> SUFFICES ASSUME Init PROVE Inv
    OBVIOUS
<1>1. Stored(foundSound, stored)
    BY WrittenAssumption DEF Init, Stored
<1>2. History(foundSound, merge(stored))
    BY <1>1, MergeIsHistory
<1>3. foundSound \in BOOLEAN
    BY DEF Init, Sound, IdsDiffer
<1> QED BY <1>1, <1>2, <1>3 DEF Init, Inv, ReloadKeepsHistory

\* What a new entry is.
NewEntry(id, now, content) == With([id |-> id, timestamp |-> now], content)

LEMMA AddedIsHistory ==
    ASSUME Inv, NEW tab \in Tab, NEW id \in EntryId \ UsedIds, NEW now \in Now, NEW content \in Content
    PROVE  LET e == NewEntry(id, now, content)
               h == FirstOf(<<e>> \o memory[tab])
           IN  /\ History(foundSound, h) /\ h # <<>> /\ Head(h) = e
               /\ e.id \notin IdsOf(memory[tab])
<1> DEFINE e == NewEntry(id, now, content)
           record == [id |-> id, timestamp |-> now]
<1>1. now \in Nat /\ record.id = id /\ record.timestamp = now
    BY ContentAssumption
<1> HIDE DEF record
<1>2. With(record, content) \in HistoryEntry /\ With(record, content).id = id
    BY <1>1, WithType
<1>3. e = With(record, content)
    BY DEF NewEntry, record
<1>4. id \notin IdsOf(memory[tab])
    BY DEF UsedIds
<1> HIDE DEF e
<1> QED BY <1>2, <1>3, <1>4, AddedEntry DEF Inv, e

\* Every operation but a load writes a history.
LEMMA OperationSets ==
    ASSUME Inv, NEW tab \in Tab, addEntry(tab) \/ updateEntry(tab) \/ deleteEntry(tab) \/ clearHistory(tab)
    PROVE  \E h : History(foundSound, h) /\ set(tab, h)
<1>1. CASE addEntry(tab)
    <2>1. PICK id \in EntryId \ UsedIds, now \in Now, content \in Content :
              set(tab, FirstOf(<<NewEntry(id, now, content)>> \o memory[tab]))
        BY <1>1 DEF addEntry, NewEntry
    <2>2. History(foundSound, FirstOf(<<NewEntry(id, now, content)>> \o memory[tab]))
        BY AddedIsHistory
    <2> QED BY <2>1, <2>2
<1>2. CASE updateEntry(tab)
    <2>1. PICK id \in EntryId, content \in Content : set(tab, UpdatedBy(memory[tab], id, content))
        BY <1>2 DEF updateEntry, UpdatedBy
    <2>2. History(foundSound, UpdatedBy(memory[tab], id, content))
        BY UpdatedEntry DEF Inv
    <2> QED BY <2>1, <2>2
<1>3. CASE deleteEntry(tab)
    <2>1. PICK id \in IdsOf(memory[tab]) : set(tab, Without(memory[tab], id))
        BY <1>3 DEF deleteEntry
    <2>2. History(foundSound, Without(memory[tab], id))
        BY DeletedEntry DEF Inv
    <2> QED BY <2>1, <2>2
<1>4. CASE clearHistory(tab)
    BY <1>4, NoEntries DEF clearHistory
<1> QED BY <1>1, <1>2, <1>3, <1>4

LEMMA SetKeeps ==
    ASSUME Inv, NEW tab \in Tab, NEW h, History(foundSound, h), set(tab, h)
    PROVE  Inv' /\ merge(stored') = h
<1>1. /\ memory' = [memory EXCEPT ![tab] = h] /\ stored' = partialize(h)
      /\ lastWriter' = tab /\ inTurn' = inTurn /\ foundSound' = foundSound
    BY DEF set
<1>2. Stored(foundSound, stored') /\ merge(stored') = h
    BY <1>1, MergePartialize
<1>3. memory' = [t \in Tab |-> IF t = tab THEN h ELSE memory[t]]
    BY <1>1 DEF Inv
<1>4. memory'[tab] = h /\ \A t \in Tab : History(foundSound, memory'[t])
    BY <1>3 DEF Inv
<1>5. memory' = [t \in Tab |-> memory'[t]]
    BY <1>3
<1>6. ReloadKeepsHistory'
    BY <1>1, <1>2, <1>4 DEF ReloadKeepsHistory
<1> QED BY <1>1, <1>2, <1>4, <1>5, <1>6 DEF Inv

LEMMA LoadKeeps ==
    ASSUME Inv, NEW tab \in Tab, Load(tab)
    PROVE  Inv' /\ UNCHANGED <<stored, inTurn>>
<1> DEFINE h == merge(stored)
<1>1. /\ memory' = [memory EXCEPT ![tab] = h]
      /\ UNCHANGED <<stored, lastWriter, inTurn, foundSound>>
    BY DEF Load
<1>2. History(foundSound, h)
    BY MergeIsHistory DEF Inv
<1>3. ReloadKeepsHistory /\ lastWriter # NoTab => h = memory[lastWriter]
    BY DEF ReloadKeepsHistory
<1>4. merge(stored') = h
    BY <1>1
<1> HIDE DEF h
<1>5. memory' = [t \in Tab |-> IF t = tab THEN h ELSE memory[t]]
    BY <1>1 DEF Inv
<1>6. memory'[tab] = h /\ \A t \in Tab : History(foundSound, memory'[t])
    BY <1>2, <1>5 DEF Inv
<1>7. memory' = [t \in Tab |-> memory'[t]]
    BY <1>5
<1>8. ReloadKeepsHistory'
    <2> SUFFICES ASSUME lastWriter' # NoTab PROVE h = memory'[lastWriter']
        BY <1>4 DEF ReloadKeepsHistory
    <2>1. lastWriter' = lastWriter /\ lastWriter \in Tab /\ h = memory[lastWriter]
        BY <1>1, <1>3 DEF Inv
    <2> QED BY <1>5, <2>1
<1>9. Stored(foundSound, stored')
    BY <1>1 DEF Inv
<1> QED BY <1>1, <1>6, <1>7, <1>8, <1>9 DEF Inv

LEMMA InvStep == Inv /\ [Next]_vars => Inv'
<1> SUFFICES ASSUME Inv, [Next]_vars PROVE Inv'
    OBVIOUS
<1>1. ASSUME NEW tab \in Tab, addEntry(tab) \/ updateEntry(tab) \/ deleteEntry(tab) \/ clearHistory(tab)
      PROVE  Inv'
    <2>1. PICK h : History(foundSound, h) /\ set(tab, h)
        BY <1>1, OperationSets
    <2> QED BY <2>1, SetKeeps
<1>2. ASSUME NEW tab \in Tab, Load(tab) PROVE Inv'
    BY <1>2, LoadKeeps
<1>3. CASE UNCHANGED vars
    BY <1>3 DEF vars, Inv, ReloadKeepsHistory
<1> QED BY <1>1, <1>2, <1>3 DEF Next

THEOREM InvAlways == Spec => []Inv
    BY InvInit, InvStep, PTL DEF Spec

\* Whatever an older version or damage left in the storage, a tab holds complete
\* entries; and if the storage was sound to begin with, no more than MAX_ENTRIES,
\* each with an id of its own.
THEOREM TypeCorrect == Spec => []TypeOK
    BY InvAlways, TypesOfInv, PTL

\* What the store wrote last is what a tab that is loaded reads.
THEOREM WrittenIsRead == Spec => []ReloadKeepsHistory
<1>1. Inv => ReloadKeepsHistory
    BY DEF Inv
<1> QED BY InvAlways, <1>1, PTL

------------------------------------------------------------------------------
(* One list.                                                                 *)

\* Steps of tabs that take turns, as steps of the list.
LEMMA AddsToList ==
    ASSUME Inv, inTurn, NEW tab \in Tab, addEntry(tab)
    PROVE  OneList!Add
<1>1. PICK id \in EntryId \ UsedIds, now \in Now, content \in Content :
          set(tab, FirstOf(<<NewEntry(id, now, content)>> \o memory[tab]))
    BY DEF addEntry, NewEntry
<1> DEFINE e == NewEntry(id, now, content)
           h == FirstOf(<<e>> \o memory[tab])
<1>2. /\ History(foundSound, h) /\ h # <<>> /\ Head(h) = e /\ e.id \notin IdsOf(memory[tab])
    BY AddedIsHistory
<1> HIDE DEF e
<1>3. merge(stored') = h
    BY <1>1, <1>2, SetKeeps DEF e
<1>4. memory[tab] = merge(stored)
    BY <1>1 DEF set, UpToDate
<1>5. h = IF Len(<<e>> \o memory[tab]) > MAX_ENTRIES
             THEN SubSeq(<<e>> \o memory[tab], 1, MAX_ENTRIES) ELSE <<e>> \o memory[tab]
    BY DEF FirstOf
<1> HIDE DEF h
<1> QED BY <1>2, <1>3, <1>4, <1>5 DEF OneList!Add, OneList!Id, IdsOf

LEMMA UpdatesList ==
    ASSUME Inv, inTurn, NEW tab \in Tab, updateEntry(tab)
    PROVE  OneList!Update \/ merge(stored') = merge(stored)
<1>1. PICK id \in EntryId, content \in Content : set(tab, UpdatedBy(memory[tab], id, content))
    BY DEF updateEntry, UpdatedBy
<1> DEFINE l == memory[tab]
           g == UpdatedBy(l, id, content)
<1>2. /\ History(foundSound, g) /\ Len(g) = Len(l)
      /\ \A i \in 1 .. Len(l) :
            g[i].id = l[i].id /\ g[i].timestamp = l[i].timestamp /\ (l[i].id # id => g[i] = l[i])
    BY UpdatedEntry DEF Inv
<1>3. merge(stored') = g
    BY <1>1, <1>2, SetKeeps
<1>4. merge(stored) = l /\ History(foundSound, l)
    BY <1>1 DEF set, UpToDate, Inv
<1> HIDE DEF g, l
<1>5. g \in Seq(HistoryEntry) /\ l \in Seq(HistoryEntry)
    BY <1>2, <1>4 DEF History
<1>6. CASE \E i \in 1 .. Len(l) : l[i].id = id
    <2>1. id \in OneList!Id(l)
        BY <1>6 DEF OneList!Id
    <2> QED BY <1>2, <1>3, <1>4, <2>1 DEF OneList!Update, OneList!Id
<1>7. CASE ~ \E i \in 1 .. Len(l) : l[i].id = id
    <2>1. \A i \in 1 .. Len(g) : g[i] = l[i]
        BY <1>2, <1>7
    <2>2. g = l
        BY <1>2, <1>5, <2>1, SeqEqual
    <2> QED BY <1>3, <1>4, <2>2
<1> QED BY <1>6, <1>7

LEMMA DeletesFromList ==
    ASSUME Inv, inTurn, NEW tab \in Tab, deleteEntry(tab)
    PROVE  OneList!Delete
<1>1. PICK id \in IdsOf(memory[tab]) : set(tab, Without(memory[tab], id))
    BY DEF deleteEntry
<1> DEFINE l == memory[tab]
           g == Without(l, id)
           kept == {i \in 1 .. Len(l) : l[i].id # id}
<1>2. History(foundSound, g) /\ \E from : InOrder(from, g, Len(l), kept, l)
    BY DeletedEntry DEF Inv
<1>3. merge(stored') = g
    BY <1>1, <1>2, SetKeeps
<1>4. merge(stored) = l /\ id \in OneList!Id(l)
    BY <1>1 DEF set, UpToDate, IdsOf, OneList!Id
<1>5. \A i \in kept : i \in 1 .. Len(l)
    OBVIOUS
<1> HIDE DEF g, l
<1>6. PICK from : InOrder(from, g, Len(l), kept, l)
    BY <1>2
<1>7. /\ from \in [1 .. Len(g) -> 1 .. Len(l)]
      /\ \A j \in 1 .. Len(g) : g[j] = l[from[j]]
      /\ \A j, k \in 1 .. Len(g) : j < k => from[j] < from[k]
    BY <1>6 DEF InOrder
<1>8. {from[j] : j \in 1 .. Len(g)} = kept
    <2> HIDE DEF kept
    <2> QED BY <1>5, <1>6 DEF InOrder
<1> QED BY <1>3, <1>4, <1>7, <1>8 DEF OneList!Delete

LEMMA ClearsList ==
    ASSUME Inv, NEW tab \in Tab, clearHistory(tab)
    PROVE  OneList!Clear
    BY NoEntries, SetKeeps DEF clearHistory, OneList!Clear

LEMMA TurnKept == ASSUME Inv, Next PROVE inTurn' = inTurn
    BY DEF Next, addEntry, updateEntry, deleteEntry, clearHistory, Load, set

LEMMA ListStep == Inv /\ [Next]_vars => [OneList!Next]_<<merge(stored), inTurn>>
<1> SUFFICES ASSUME Inv, [Next]_vars PROVE [OneList!Next]_<<merge(stored), inTurn>>
    OBVIOUS
<1>1. CASE UNCHANGED vars
    BY <1>1 DEF vars
<1>2. CASE Next
    <2>1. inTurn' = inTurn
        BY <1>2, TurnKept
    <2>2. CASE ~inTurn
        BY <2>1, <2>2 DEF OneList!Next
    <2>3. CASE inTurn
        <3>1. PICK tab \in Tab :
                  addEntry(tab) \/ updateEntry(tab) \/ deleteEntry(tab) \/ clearHistory(tab) \/ Load(tab)
            BY <1>2 DEF Next
        <3>2. \/ OneList!Add \/ OneList!Update \/ OneList!Delete \/ OneList!Clear
              \/ merge(stored') = merge(stored)
            <4>1. Load(tab) => merge(stored') = merge(stored)
                BY LoadKeeps
            <4> QED BY <2>3, <3>1, <4>1, AddsToList, UpdatesList, DeletesFromList, ClearsList
        <3> QED BY <2>1, <3>2 DEF OneList!Next
    <2> QED BY <2>2, <2>3
<1> QED BY <1>1, <1>2

LEMMA ListInit == Init => OneList!Init
    BY DEF Init, OneList!Init

\* Tabs that take turns, each loaded before it is used, make one list: every
\* operation is that of HistoryList on what the storage is read as.
THEOREM TabsMakeOneList == Spec => ImplementsHistoryList
<1>1. Spec => OneList!Spec
    BY InvAlways, ListInit, ListStep, PTL DEF Spec, OneList!Spec, OneList!vars
<1> QED BY <1>1 DEF ImplementsHistoryList
=============================================================================
