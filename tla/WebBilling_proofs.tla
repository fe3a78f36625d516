-------------------------- MODULE WebBilling_proofs --------------------------
(***************************************************************************)
(* Proofs about WebBilling, for any number of calculations, payments,      *)
(* forms and entries, and the user who does all that the page lets him do: *)
(* what the page shows is what the history will give back, and an entry    *)
(* with a payment keeps one, in whatever order answers arrive.  Of the     *)
(* user who does one thing at a time (PatientInv), that the history is     *)
(* right.                                                                  *)
(***************************************************************************)
EXTENDS WebBilling, FiniteSetTheorems, SequenceTheorems, TLAPS

------------------------------------------------------------------------------
(* The history's operations. *)

LEMMA ItemsOf ==
    ASSUME NEW S, NEW h \in Seq(S)
    PROVE  Len(h) \in Nat /\ DOMAIN h = 1 .. Len(h) /\ \A i \in 1 .. Len(h) : h[i] \in S
    BY LenProperties, ElementOfSeq

LEMMA Added ==
    ASSUME NEW h \in Seq(Entry), Len(h) <= MAX_ENTRIES, NEW e \in Entry
    PROVE  LET g == addEntry(h, e)
           IN  /\ g \in Seq(Entry) /\ Len(g) \in 1 .. MAX_ENTRIES
               /\ g[1] = e
               /\ \A j \in 1 .. Len(g) : j # 1 => j - 1 \in 1 .. Len(h) /\ g[j] = h[j - 1]
<1> DEFINE longer == <<e>> \o h
           n == IF Len(h) < MAX_ENTRIES THEN Len(h) + 1 ELSE Len(h)
           g == SubSeq(longer, 1, n)
<1>1. Len(h) \in Nat /\ MAX_ENTRIES \in Nat \ {0} /\ <<e>> \in Seq(Entry) /\ Len(<<e>>) = 1 /\ <<e>>[1] = e
    BY ItemsOf, HistoryAssumption
<1>2. /\ longer \in Seq(Entry) /\ Len(longer) = Len(h) + 1
      /\ longer[1] = e
      /\ \A j \in 1 .. Len(h) + 1 : j # 1 => longer[j] = h[j - 1]
    <2>1. /\ longer \in Seq(Entry) /\ Len(longer) = 1 + Len(h)
          /\ \A j \in 1 .. 1 + Len(h) : longer[j] = IF j <= 1 THEN <<e>>[j] ELSE h[j - 1]
        BY <1>1, ConcatProperties
    <2> QED BY <1>1, <2>1
<1> HIDE DEF longer
<1>3. n \in 1 .. Len(h) + 1 /\ n <= MAX_ENTRIES
    BY <1>1
<1>4. \A j \in 1 .. n : longer[j] \in Entry
    BY <1>1, <1>2, <1>3, ItemsOf
<1> HIDE DEF n
<1>5. g \in Seq(Entry) /\ Len(g) = n /\ \A j \in 1 .. n : g[j] = longer[j]
    <2>1. /\ g \in Seq(Entry) /\ Len(g) = (IF 1 <= n THEN n - 1 + 1 ELSE 0)
          /\ \A j \in 1 .. n - 1 + 1 : g[j] = longer[1 + j - 1]
        BY <1>3, <1>4, SubSeqProperties
    <2> QED BY <1>1, <1>3, <2>1
<1>6. addEntry(h, e) = g
    BY DEF addEntry, longer, n
<1> HIDE DEF g
<1> QED BY <1>1, <1>2, <1>3, <1>5, <1>6

\* An entry that is not there changes nothing, whatever is to be written into it.
LEMMA Updated ==
    ASSUME NEW h \in Seq(Entry), NEW e, NEW k, e.id = k, k \in EntryId => e \in Entry
    PROVE  /\ updateEntry(h, e) \in Seq(Entry) /\ Len(updateEntry(h, e)) = Len(h)
           /\ \A j \in 1 .. Len(h) : updateEntry(h, e)[j] = IF h[j].id = k THEN e ELSE h[j]
<1> DEFINE g == updateEntry(h, e)
<1>1. Len(h) \in Nat /\ \A j \in 1 .. Len(h) : h[j] \in Entry
    BY ItemsOf
<1>2. \A j \in 1 .. Len(h) : h[j].id \in EntryId
    BY <1>1 DEF Entry
<1>3. g = [j \in 1 .. Len(h) |-> IF h[j].id = k THEN e ELSE h[j]]
    BY DEF updateEntry
<1> HIDE DEF g
<1>4. \A j \in 1 .. Len(h) : (IF h[j].id = k THEN e ELSE h[j]) \in Entry
    BY <1>1, <1>2
<1>5. g \in Seq(Entry) /\ Len(g) = Len(h)
    BY <1>1, <1>3, <1>4, IsASeq, LenProperties
<1> QED BY <1>3, <1>5 DEF g

LEMMA Deleted ==
    ASSUME NEW h \in Seq(Entry), NEW i \in 1 .. Len(h)
    PROVE  LET g == deleteEntry(h, i)
           IN  /\ g \in Seq(Entry) /\ Len(g) = Len(h) - 1
               /\ \A j \in 1 .. Len(g) : g[j] = IF j < i THEN h[j] ELSE h[j + 1]
<1> DEFINE before == SubSeq(h, 1, i - 1)
           after == SubSeq(h, i + 1, Len(h))
<1>1. Len(h) \in Nat /\ \A j \in 1 .. Len(h) : h[j] \in Entry
    BY ItemsOf
<1>2. before \in Seq(Entry) /\ Len(before) = i - 1 /\ \A j \in 1 .. i - 1 : before[j] = h[j]
    <2>1. \A j \in 1 .. i - 1 : h[j] \in Entry
        BY <1>1
    <2>2. /\ before \in Seq(Entry) /\ Len(before) = (IF 1 <= i - 1 THEN i - 1 - 1 + 1 ELSE 0)
          /\ \A j \in 1 .. i - 1 - 1 + 1 : before[j] = h[1 + j - 1]
        BY <1>1, <2>1, SubSeqProperties
    <2> QED BY <1>1, <2>2
<1>3. /\ after \in Seq(Entry) /\ Len(after) = Len(h) - i
      /\ \A j \in 1 .. Len(h) - i : after[j] = h[i + j]
    <2>1. \A j \in i + 1 .. Len(h) : h[j] \in Entry
        BY <1>1
    <2>2. /\ after \in Seq(Entry)
          /\ Len(after) = (IF i + 1 <= Len(h) THEN Len(h) - (i + 1) + 1 ELSE 0)
          /\ \A j \in 1 .. Len(h) - (i + 1) + 1 : after[j] = h[i + 1 + j - 1]
        BY <1>1, <2>1, SubSeqProperties
    <2> QED BY <1>1, <2>2
<1>4. deleteEntry(h, i) = before \o after
    BY DEF deleteEntry
<1> HIDE DEF before, after
<1>5. /\ before \o after \in Seq(Entry) /\ Len(before \o after) = Len(before) + Len(after)
      /\ \A j \in 1 .. Len(before) + Len(after) :
            (before \o after)[j] = IF j <= Len(before) THEN before[j] ELSE after[j - Len(before)]
    BY <1>2, <1>3, ConcatProperties
<1>6. Len(before \o after) = Len(h) - 1
    BY <1>1, <1>2, <1>3, <1>5
<1>7. ASSUME NEW j \in 1 .. Len(h) - 1
      PROVE  (before \o after)[j] = IF j < i THEN h[j] ELSE h[j + 1]
    <2>1. j \in 1 .. Len(before) + Len(after) /\ j \in Nat /\ i \in Nat
        BY <1>1, <1>2, <1>3
    <2>2. CASE j < i
        <3>1. j <= Len(before) /\ j \in 1 .. i - 1
            BY <1>1, <1>2, <2>1, <2>2
        <3> QED BY <1>2, <1>5, <2>1, <2>2, <3>1
    <2>3. CASE ~(j < i)
        <3>1. ~(j <= Len(before)) /\ j - Len(before) = j - i + 1 /\ j - i + 1 \in 1 .. Len(h) - i
            BY <1>1, <1>2, <2>1, <2>3
        <3>2. i + (j - i + 1) = j + 1
            BY <2>1
        <3>3. (before \o after)[j] = after[j - i + 1] /\ after[j - i + 1] = h[j + 1]
            BY <1>3, <1>5, <2>1, <3>1, <3>2
        <3> QED BY <2>3, <3>3
    <2> QED BY <2>2, <2>3
<1> QED BY <1>4, <1>5, <1>6, <1>7

\* There are more ids than the history and the refs can hold.
LEMMA UnusedIds ==
    ASSUME history \in Seq(Entry), Len(history) <= MAX_ENTRIES
    PROVE  /\ UnusedId(history) \in EntryId /\ UnusedId(history) # savedEntry
           /\ \A i \in 1 .. Len(history) : history[i].id # UnusedId(history)
<1> DEFINE ids == {history[i].id : i \in 1 .. Len(history)}
           used == ids \cup {savedEntry}
<1>1. Len(history) \in Nat /\ MAX_ENTRIES \in Nat
    BY ItemsOf, HistoryAssumption
<1>2. IsFiniteSet(1 .. Len(history)) /\ Cardinality(1 .. Len(history)) = Len(history)
    <2>1. /\ IsFiniteSet(1 .. Len(history))
          /\ Cardinality(1 .. Len(history)) = IF 1 > Len(history) THEN 0 ELSE Len(history) - 1 + 1
        <3>1. 1 \in Int /\ Len(history) \in Int
            BY <1>1
        <3> QED BY <3>1, FS_Interval, Zenon
    <2> QED BY <1>1, <2>1
<1>3. IsFiniteSet(ids) /\ Cardinality(ids) <= Len(history)
    <2> DEFINE f == [i \in 1 .. Len(history) |-> history[i].id]
    <2>1. f \in Surjection(1 .. Len(history), ids)
        BY DEF Surjection
    <2> HIDE DEF f, ids
    <2> QED BY <1>2, <2>1, FS_Surjection
<1>4. IsFiniteSet(used) /\ Cardinality(used) <= Len(history) + 1
    <2>1. Cardinality(ids) \in Nat
        BY <1>3, FS_CardinalityType
    <2>2. IsFiniteSet(used) /\ Cardinality(used) = IF savedEntry \in ids THEN Cardinality(ids) ELSE Cardinality(ids) + 1
        BY <1>3, FS_AddElement
    <2> QED BY <1>1, <1>3, <2>1, <2>2
<1> HIDE DEF used
<1>5. Cardinality(EntryId) = MAX_ENTRIES + 2
    BY <1>1, FS_Interval DEF EntryId
<1>6. ~(EntryId \subseteq used)
    <2>1. Cardinality(used) \in Nat
        BY <1>4, FS_CardinalityType
    <2>2. EntryId \subseteq used => Cardinality(EntryId) <= Cardinality(used)
        BY <1>4, FS_Subset
    <2> QED BY <1>1, <1>4, <1>5, <2>1, <2>2
<1>7. \E id \in EntryId : id # savedEntry /\ \A i \in 1 .. Len(history) : history[i].id # id
    BY <1>6 DEF used
<1> QED BY <1>7 DEF UnusedId

------------------------------------------------------------------------------
(* The effect.                                                               *)

DistinctIds == \A i, j \in 1 .. Len(history) : history[i].id = history[j].id => i = j

Context == /\ forms \in Seq(Form) /\ Len(forms) <= MaxCalculations + 1
           /\ billingInput \in 0 .. Len(forms) /\ calculatedStatement \in 0 .. Len(forms)
           /\ paymentResult \in Payment \cup {None}

History == history \in Seq(Entry) /\ Len(history) <= MAX_ENTRIES /\ DistinctIds

\* Entries are known by their ids: what is in the history after the effect was there
\* before, or is what is shown; the one the refs then name is that.
LEMMA EffectOutcome ==
    ASSUME History, Context', NEW mounted \in BOOLEAN, NEW last, NEW saved \in EntryId \cup {None},
           Effect(mounted, last, saved)
    PROVE  /\ History'
           /\ savedEntry' \in EntryId \cup {None}
           /\ ~Saves(mounted) => lastSaved' = last /\ savedEntry' = saved /\ history' = history
           /\ Saves(mounted) =>
                 /\ lastSaved' = EntryKey(billingInput', calculatedStatement')
                 /\ \A j \in 1 .. Len(history') : history'[j].id = savedEntry' => history'[j] = Shown(savedEntry')
           /\ \A j \in 1 .. Len(history') :
                 \/ \E i \in 1 .. Len(history) : history'[j] = history[i]
                 \/ Saves(mounted) /\ history'[j] = Shown(savedEntry')
           /\ \A i \in 1 .. Len(history), j \in 1 .. Len(history') :
                 history[i].id = history'[j].id =>
                    \/ history'[j] = history[i]
                    \/ /\ Saves(mounted) /\ Updates(last, saved)
                       /\ history[i].id = saved /\ history'[j] = Shown(saved)
<1>1. /\ history \in Seq(Entry) /\ Len(history) \in Nat /\ Len(history) <= MAX_ENTRIES /\ DistinctIds
      /\ \A i \in 1 .. Len(history) : history[i] \in Entry
    BY ItemsOf DEF History
<1>2. \A i \in 1 .. Len(history) : history[i].id \in EntryId
    BY <1>1 DEF Entry
<1>3. Saves(mounted) => \A id \in EntryId : Shown(id) \in Entry
    <2> SUFFICES ASSUME Saves(mounted), NEW id \in EntryId PROVE Shown(id) \in Entry
        OBVIOUS
    <2>1. /\ billingInput' \in Number /\ calculatedStatement' \in Number
          /\ paymentResult' \in Payment \cup {None}
        <3>1. Len(forms') \in Nat /\ MaxCalculations \in Nat
            BY ItemsOf, BoundsAssumption DEF Context
        <3> QED BY <3>1 DEF Context, Saves, Number, None
    <2> QED BY <2>1 DEF Shown, Entry
<1>4. \A id : Shown(id).id = id
    BY DEF Shown
<1>5. CASE ~Saves(mounted)
    <2>1. lastSaved' = last /\ savedEntry' = saved /\ history' = history
        BY <1>5 DEF Effect
    <2> QED BY <1>1, <1>5, <2>1 DEF History, DistinctIds
<1>6. CASE Saves(mounted) /\ Updates(last, saved)
    <2>1. /\ history' = updateEntry(history, Shown(saved)) /\ savedEntry' = saved
          /\ lastSaved' = EntryKey(billingInput', calculatedStatement')
        BY <1>6 DEF Effect
    <2>2. Shown(saved).id \in EntryId => Shown(saved) \in Entry
        BY <1>3, <1>4, <1>6
    <2>3. /\ history' \in Seq(Entry) /\ Len(history') = Len(history)
          /\ \A j \in 1 .. Len(history) :
                history'[j] = IF history[j].id = saved THEN Shown(saved) ELSE history[j]
        <3>1. Shown(saved).id = saved /\ (saved \in EntryId => Shown(saved) \in Entry)
            BY <1>4, <2>2
        <3> QED BY <1>1, <2>1, <3>1, Updated
    <2>4. \A j \in 1 .. Len(history) : history'[j].id = history[j].id
        BY <1>4, <2>3
    <2>5. History'
        BY <1>1, <2>3, <2>4 DEF History, DistinctIds
    <2>6. \A j \in 1 .. Len(history') : history'[j].id = saved => history'[j] = Shown(saved)
        BY <2>3, <2>4
    <2>7. \A i \in 1 .. Len(history), j \in 1 .. Len(history') :
             history[i].id = history'[j].id =>
                \/ history'[j] = history[i]
                \/ history[i].id = saved /\ history'[j] = Shown(saved)
        BY <1>1, <2>3, <2>4 DEF DistinctIds
    <2> QED BY <1>6, <2>1, <2>3, <2>5, <2>6, <2>7
<1>7. CASE Saves(mounted) /\ ~Updates(last, saved)
    <2> DEFINE id == UnusedId(history)
    <2>1. /\ history' = addEntry(history, Shown(id)) /\ savedEntry' = id
          /\ lastSaved' = EntryKey(billingInput', calculatedStatement')
        BY <1>7 DEF Effect
    <2>2. id \in EntryId /\ \A i \in 1 .. Len(history) : history[i].id # id
        BY <1>1, UnusedIds
    <2> HIDE DEF id
    <2>3. /\ history' \in Seq(Entry) /\ Len(history') \in 1 .. MAX_ENTRIES
          /\ history'[1] = Shown(id)
          /\ \A j \in 1 .. Len(history') : j # 1 => j - 1 \in 1 .. Len(history) /\ history'[j] = history[j - 1]
        <3>1. Shown(id) \in Entry
            BY <1>3, <1>7, <2>2
        <3> QED BY <1>1, <2>1, <3>1, Added
    <2>4. history'[1].id = id /\ \A j \in 1 .. Len(history') : j # 1 => history'[j].id # id
        BY <1>4, <2>2, <2>3
    <2>5. History'
        <3>1. ASSUME NEW i \in 1 .. Len(history'), NEW j \in 1 .. Len(history'),
                     history'[i].id = history'[j].id
              PROVE  i = j
            <4>1. CASE i = 1 \/ j = 1
                BY <2>4, <3>1, <4>1
            <4>2. CASE i # 1 /\ j # 1
                <5>1. i - 1 = j - 1
                    BY <1>1, <2>3, <3>1, <4>2 DEF DistinctIds
                <5> QED BY <5>1
            <4> QED BY <4>1, <4>2
        <3>2. Len(history') <= MAX_ENTRIES
            BY <2>3, HistoryAssumption
        <3> QED BY <2>3, <3>1, <3>2 DEF History, DistinctIds
    <2>6. \A j \in 1 .. Len(history') : history'[j].id = id => history'[j] = Shown(id)
        BY <2>3, <2>4
    <2>7. \A j \in 1 .. Len(history') :
             (\E i \in 1 .. Len(history) : history'[j] = history[i]) \/ history'[j] = Shown(id)
        BY <2>3
    <2>8. ASSUME NEW i \in 1 .. Len(history), NEW j \in 1 .. Len(history'), history[i].id = history'[j].id
          PROVE  history'[j] = history[i]
        <3>1. j # 1
            BY <2>2, <2>4, <2>8
        <3>2. i = j - 1
            BY <1>1, <2>3, <2>8, <3>1 DEF DistinctIds
        <3> QED BY <2>3, <3>1, <3>2
    <2> QED BY <1>7, <2>1, <2>2, <2>5, <2>6, <2>7, <2>8
<1> QED BY <1>5, <1>6, <1>7

------------------------------------------------------------------------------
(* The invariant.                                                            *)

Refs == /\ lastSaved \in {Unsaved} \cup (Form \X (1 .. Len(forms)))
        /\ savedEntry \in EntryId \cup {None}
        /\ onPage \in BOOLEAN

Requests == /\ calculating \subseteq 1 .. Len(forms)
            /\ payments \in Seq(Nat) /\ Len(payments) <= MaxPayments
            /\ paying \subseteq 1 .. Len(payments)

Submitted == \A i \in 1 .. Len(history) :
                history[i].input <= Len(forms) /\ history[i].statement <= Len(forms)

\* A statement that is awaited is nowhere yet.
Unanswered ==
    /\ calculatedStatement \notin calculating
    /\ \A i \in 1 .. Len(history) : history[i].statement \notin calculating
    /\ lastSaved # Unsaved => lastSaved[2] \notin calculating

Unstated == \A i \in 1 .. Len(history) : history[i].statement = None => history[i].payment = None

OffPage == ~onPage => lastSaved = Unsaved /\ savedEntry = None

\* An entry that was loaded without a statement has no payment until it is saved.
LoadedUnpaid ==
    lastSaved = Unsaved =>
        \A i \in 1 .. Len(history) : history[i].id = savedEntry => history[i].payment = None

\* The statement saved last is not shown without an input.
ShownSaved == lastSaved # Unsaved /\ lastSaved[2] = calculatedStatement => billingInput # None

Inv == /\ Context /\ History /\ Refs /\ Requests
       /\ Submitted /\ Unanswered /\ Unstated /\ OffPage /\ LoadedUnpaid /\ ShownSaved
       /\ HistoryInSync

PaidKept == \A i \in 1 .. Len(history), j \in 1 .. Len(history') :
               history[i].id = history'[j].id /\ history[i].payment # None
                   => history'[j].payment # None

\* What a handler owes the effect that follows it: the refs it leaves, as they bear on
\* the context it leaves, and, when the effect will not save, an entry up to date.
HandlerLeaves(mounted, last, saved) ==
    /\ Context' /\ Requests' /\ onPage' \in BOOLEAN
    /\ last \in {Unsaved} \cup (Form \X (1 .. Len(forms'))) /\ saved \in EntryId \cup {None}
    /\ Len(forms) <= Len(forms') /\ \A n \in 1 .. Len(forms) : forms'[n] = forms[n]
    /\ \A n \in calculating' : n \in calculating \/ n > Len(forms)
    /\ calculatedStatement' \notin calculating'
    /\ last # Unsaved => last[2] \notin calculating'
    /\ ~onPage' => last = Unsaved /\ saved = None
    /\ last = Unsaved =>
          \A i \in 1 .. Len(history) : history[i].id = saved => history[i].payment = None
    /\ last # Unsaved /\ last[2] = calculatedStatement' => billingInput' # None
    /\ onPage' /\ billingInput' # None /\ calculatedStatement' # None /\ ~Saves(mounted) =>
          /\ last = EntryKey(billingInput', calculatedStatement')
          /\ \A i \in 1 .. Len(history) : history[i].id = saved => history[i] = Shown(saved)
    /\ Saves(mounted) /\ last = EntryKey(billingInput', calculatedStatement') =>
          \A i \in 1 .. Len(history) :
             history[i].id = saved /\ history[i].payment # None => paymentResult' # None

LEMMA KeyIsNotUnsaved ==
    ASSUME NEW a, NEW b
    PROVE  <<a, b>> # Unsaved
    BY DEF Unsaved

LEMMA KeptEntries ==
    ASSUME Inv
    PROVE  /\ Len(history) \in Nat /\ Len(forms) \in Nat /\ MAX_ENTRIES \in Nat
           /\ \A i \in 1 .. Len(history) :
                 /\ history[i] \in Entry /\ history[i].id \in EntryId /\ history[i].id # None
                 /\ history[i].input \in 1 .. Len(forms)
                 /\ history[i].statement \in 0 .. Len(forms)
                 /\ history[i].payment \in Payment \cup {None}
<1>1. /\ Len(history) \in Nat /\ Len(forms) \in Nat /\ MAX_ENTRIES \in Nat /\ MaxCalculations \in Nat
      /\ \A i \in 1 .. Len(history) : history[i] \in Entry
    BY ItemsOf, HistoryAssumption, BoundsAssumption DEF Inv, Context, History
<1>2. \A i \in 1 .. Len(history) : history[i].input <= Len(forms) /\ history[i].statement <= Len(forms)
    BY DEF Inv, Submitted
<1>3. \A e \in Entry : /\ e.id \in EntryId /\ e.input \in Number /\ e.statement \in Number \cup {None}
                       /\ e.payment \in Payment \cup {None}
    BY DEF Entry
<1>4. \A id \in EntryId : id # None
    BY DEF EntryId, None
<1>5. \A n \in Number : n \in Nat /\ n >= 1
    BY <1>1 DEF Number
<1> QED BY <1>1, <1>2, <1>3, <1>4, <1>5 DEF None

LEMMA EffectKeeps ==
    ASSUME Inv, NEW mounted \in BOOLEAN, NEW last, NEW saved,
           HandlerLeaves(mounted, last, saved), Effect(mounted, last, saved)
    PROVE  Inv' /\ PaidKept
<1>1. /\ Context' /\ Requests' /\ onPage' \in BOOLEAN /\ saved \in EntryId \cup {None}
      /\ Len(forms) \in Nat /\ Len(forms') \in Nat
    BY ItemsOf DEF HandlerLeaves, Context, Inv
<1>2. /\ History' /\ savedEntry' \in EntryId \cup {None}
      /\ ~Saves(mounted) => lastSaved' = last /\ savedEntry' = saved /\ history' = history
      /\ Saves(mounted) =>
            /\ lastSaved' = EntryKey(billingInput', calculatedStatement')
            /\ \A j \in 1 .. Len(history') : history'[j].id = savedEntry' => history'[j] = Shown(savedEntry')
      /\ \A j \in 1 .. Len(history') :
            \/ \E i \in 1 .. Len(history) : history'[j] = history[i]
            \/ Saves(mounted) /\ history'[j] = Shown(savedEntry')
      /\ \A i \in 1 .. Len(history), j \in 1 .. Len(history') :
            history[i].id = history'[j].id =>
               \/ history'[j] = history[i]
               \/ /\ Saves(mounted) /\ Updates(last, saved)
                  /\ history[i].id = saved /\ history'[j] = Shown(saved)
    BY <1>1, EffectOutcome DEF Inv
<1>3. Saves(mounted) =>
         /\ lastSaved' = <<forms'[billingInput'], calculatedStatement'>>
         /\ lastSaved' # Unsaved /\ lastSaved'[2] = calculatedStatement'
         /\ onPage' /\ billingInput' \in 1 .. Len(forms') /\ calculatedStatement' \in 1 .. Len(forms')
    BY <1>1, <1>2, KeyIsNotUnsaved DEF EntryKey, Saves, Context, None
<1>4. \A id : /\ Shown(id).input = billingInput' /\ Shown(id).statement = calculatedStatement'
              /\ Shown(id).payment = paymentResult'
    BY DEF Shown
<1>5. Refs'
    <2>1. Saves(mounted) => forms'[billingInput'] \in Form
        BY <1>1, <1>3, ItemsOf DEF Context
    <2>2. lastSaved' \in {Unsaved} \cup (Form \X (1 .. Len(forms')))
        <3>1. CASE Saves(mounted)
            BY <1>3, <2>1, <3>1
        <3>2. CASE ~Saves(mounted)
            BY <1>2, <3>2 DEF HandlerLeaves
        <3> QED BY <3>1, <3>2
    <2> QED BY <1>1, <1>2, <2>2 DEF Refs, HandlerLeaves, Unsaved
<1>6. Submitted'
    <2>1. ASSUME NEW i \in 1 .. Len(history)
          PROVE  history[i].input <= Len(forms') /\ history[i].statement <= Len(forms')
        <3>1. Len(forms) <= Len(forms') /\ history[i].input \in 1 .. Len(forms) /\ history[i].statement \in 0 .. Len(forms)
            BY KeptEntries DEF HandlerLeaves
        <3> QED BY <1>1, <3>1
    <2>2. billingInput' <= Len(forms') /\ calculatedStatement' <= Len(forms')
        BY <1>1 DEF Context
    <2> QED BY <1>2, <1>4, <2>1, <2>2 DEF Submitted
<1>7. Unanswered'
    <2>1. calculatedStatement' \notin calculating'
        BY DEF HandlerLeaves
    <2>2. ASSUME NEW i \in 1 .. Len(history)
          PROVE  history[i].statement \notin calculating'
        <3>1. history[i].statement \in 0 .. Len(forms) /\ history[i].statement \notin calculating
            BY KeptEntries DEF Inv, Unanswered
        <3> QED BY <1>1, <3>1 DEF HandlerLeaves
    <2>3. \A j \in 1 .. Len(history') : history'[j].statement \notin calculating'
        BY <1>2, <1>4, <2>1, <2>2
    <2>4. lastSaved' # Unsaved => lastSaved'[2] \notin calculating'
        BY <1>2, <1>3, <2>1 DEF HandlerLeaves
    <2> QED BY <2>1, <2>3, <2>4 DEF Unanswered, Unsaved
<1>8. Unstated'
    <2>1. Saves(mounted) => calculatedStatement' # None
        BY DEF Saves
    <2>2. \A j \in 1 .. Len(history') : history'[j].statement = None => history'[j].payment = None
        BY <1>2, <1>4, <2>1 DEF Inv, Unstated
    <2> QED BY <2>2 DEF Unstated, None
<1>9. OffPage'
    BY <1>2, <1>3 DEF OffPage, HandlerLeaves, Unsaved, None
<1>10. LoadedUnpaid'
    BY <1>2, <1>3 DEF LoadedUnpaid, HandlerLeaves, Unsaved, None
<1>11. ShownSaved'
    <2>1. Saves(mounted) => billingInput' # None
        BY DEF Saves
    <2> QED BY <1>2, <1>3, <2>1 DEF ShownSaved, HandlerLeaves, Unsaved, None
<1>12. HistoryInSync'
    BY <1>2 DEF HistoryInSync, HandlerLeaves, EntryKey, Shown, None
<1>13. PaidKept
    <2> SUFFICES ASSUME NEW i \in 1 .. Len(history), NEW j \in 1 .. Len(history'),
                        history[i].id = history'[j].id, history[i].payment # None,
                        Saves(mounted), Updates(last, saved),
                        history[i].id = saved, history'[j] = Shown(saved)
                 PROVE  history'[j].payment # None
        BY <1>2 DEF PaidKept
    <2>1. CASE last = EntryKey(billingInput', calculatedStatement')
        BY <1>4, <2>1 DEF HandlerLeaves
    <2>2. CASE last = Unsaved
        BY <2>2 DEF HandlerLeaves
    <2> QED BY <2>1, <2>2 DEF Updates
<1> QED BY <1>1, <1>2, <1>5, <1>6, <1>7, <1>8, <1>9, <1>10, <1>11, <1>12, <1>13 DEF Inv

\* Steps whose effect does not run, or saves nothing, and that write nothing new.
LEMMA QuietStep ==
    ASSUME Inv, Context', Requests', Refs', History', forms' = forms,
           calculating' \subseteq calculating,
           calculatedStatement' \in {None, calculatedStatement},
           \/ lastSaved' = lastSaved /\ savedEntry' = savedEntry
           \/ lastSaved' = Unsaved /\ savedEntry' = None,
           \A j \in 1 .. Len(history') : \E i \in 1 .. Len(history) : history'[j] = history[i],
           OffPage', ShownSaved',
           \/ context' = context /\ lastSaved' = lastSaved /\ savedEntry' = savedEntry /\ onPage' = onPage
           \/ ~onPage'
           \/ billingInput' = None
    PROVE  Inv' /\ PaidKept
<1>1. \A i \in 1 .. Len(history) : history[i].id \in EntryId /\ history[i].id # None
    BY KeptEntries
<1>2. Submitted'
    BY DEF Inv, Submitted
<1>3. Unanswered'
    <2>1. None \notin calculating'
        BY DEF Requests, None
    <2> QED BY <2>1 DEF Inv, Unanswered, Unsaved
<1>4. Unstated'
    BY DEF Inv, Unstated, None
<1>5. LoadedUnpaid'
    BY <1>1 DEF Inv, LoadedUnpaid, Unsaved, None
<1>6. HistoryInSync'
    BY DEF Inv, HistoryInSync, context, None
<1>7. PaidKept
    <2> SUFFICES ASSUME NEW i \in 1 .. Len(history), NEW j \in 1 .. Len(history'),
                        history[i].id = history'[j].id
                 PROVE  history'[j].payment = history[i].payment
        BY DEF PaidKept
    <2>1. PICK k \in 1 .. Len(history) : history'[j] = history[k]
        OBVIOUS
    <2>2. k = i
        BY <2>1 DEF Inv, History, DistinctIds
    <2> QED BY <2>1, <2>2
<1> QED BY <1>2, <1>3, <1>4, <1>5, <1>6, <1>7 DEF Inv

LEMMA CalculateKeeps == ASSUME Inv, Calculate PROVE Inv' /\ PaidKept
<1>1. /\ onPage /\ onPage' = onPage /\ paymentResult' = paymentResult
      /\ calculatedStatement' = calculatedStatement /\ billingInput' = Len(forms')
      /\ calculating' = calculating \cup {Len(forms')}
      /\ payments' = payments /\ paying' = paying
      /\ Effect(FALSE, lastSaved, savedEntry)
    BY DEF Calculate, EffectOfContext
<1>2. PICK f \in Form : forms' = Append(forms, f)
    BY DEF Calculate
<1>3. Len(forms) \in Nat /\ Len(forms) <= MaxCalculations /\ MaxCalculations \in Nat
    BY KeptEntries, BoundsAssumption DEF Calculate
<1>4. /\ forms' \in Seq(Form) /\ Len(forms') = Len(forms) + 1
      /\ \A n \in 1 .. Len(forms) : forms'[n] = forms[n]
    BY <1>2, AppendProperties DEF Inv, Context
<1>5. /\ billingInput \in 0 .. Len(forms) /\ calculatedStatement \in 0 .. Len(forms)
      /\ calculating \subseteq 1 .. Len(forms)
      /\ lastSaved \in {Unsaved} \cup (Form \X (1 .. Len(forms)))
    BY DEF Inv, Context, Refs, Requests
<1>6. billingInput' # billingInput /\ billingInput' # None
    BY <1>1, <1>3, <1>4, <1>5 DEF None
<1>7. Changed
    BY <1>6 DEF Changed, context
<1>8. Context' /\ Requests'
    <2>1. /\ Len(forms') <= MaxCalculations + 1 /\ billingInput' \in 0 .. Len(forms')
          /\ calculatedStatement' \in 0 .. Len(forms') /\ calculating' \subseteq 1 .. Len(forms')
        <3>1. Len(forms') \in Nat /\ Len(forms') <= MaxCalculations + 1
            BY <1>3, <1>4
        <3>2. billingInput' \in 0 .. Len(forms')
            BY <1>1, <3>1
        <3>3. calculatedStatement' \in 0 .. Len(forms')
            BY <1>1, <1>3, <1>4, <1>5
        <3>4. 1 .. Len(forms) \subseteq 1 .. Len(forms') /\ Len(forms') \in 1 .. Len(forms')
            BY <1>3, <1>4
        <3>5. calculating' \subseteq 1 .. Len(forms')
            BY <1>1, <1>5, <3>4
        <3> QED BY <3>1, <3>2, <3>3, <3>5
    <2>2. paymentResult' \in Payment \cup {None}
        BY <1>1 DEF Inv, Context
    <2>3. /\ payments' \in Seq(Nat) /\ Len(payments') <= MaxPayments
          /\ paying' \subseteq 1 .. Len(payments')
        BY <1>1 DEF Inv, Requests
    <2> QED BY <1>4, <2>1, <2>2, <2>3 DEF Context, Requests, None, Payment
<1>9. lastSaved # Unsaved => lastSaved[2] \in 1 .. Len(forms) /\ lastSaved[2] \notin calculating
    BY <1>5 DEF Inv, Unanswered
<1>10. Saves(FALSE) /\ lastSaved = EntryKey(billingInput', calculatedStatement') =>
          \A i \in 1 .. Len(history) :
             history[i].id = savedEntry /\ history[i].payment # None => paymentResult' # None
    <2> SUFFICES ASSUME Saves(FALSE), lastSaved = <<forms'[billingInput'], calculatedStatement'>>,
                        NEW i \in 1 .. Len(history), history[i].id = savedEntry, history[i].payment # None
                 PROVE  paymentResult' # None
        BY DEF EntryKey
    <2>1. lastSaved # Unsaved /\ lastSaved[2] = calculatedStatement /\ calculatedStatement # None
        BY <1>1, KeyIsNotUnsaved DEF Saves
    <2>2. billingInput # None
        BY <2>1 DEF Inv, ShownSaved
    <2>3. history[i].payment = paymentResult
        BY <1>1, <2>1, <2>2 DEF Inv, HistoryInSync
    <2> QED BY <1>1, <2>3
<1>11. HandlerLeaves(FALSE, lastSaved, savedEntry)
    <2>1. onPage' \in BOOLEAN /\ savedEntry \in EntryId \cup {None}
        BY <1>1 DEF Inv, Refs
    <2>2. lastSaved \in {Unsaved} \cup (Form \X (1 .. Len(forms')))
        BY <1>3, <1>4, <1>5
    <2>3. Len(forms) <= Len(forms') /\ \A n \in calculating' : n \in calculating \/ n > Len(forms)
        BY <1>1, <1>3, <1>4
    <2>4. calculatedStatement' \notin calculating'
        BY <1>1, <1>3, <1>4, <1>5 DEF Inv, Unanswered
    <2>5. lastSaved # Unsaved => lastSaved[2] \notin calculating'
        BY <1>1, <1>3, <1>4, <1>9
    <2>6. lastSaved = Unsaved =>
             \A i \in 1 .. Len(history) : history[i].id = savedEntry => history[i].payment = None
        BY DEF Inv, LoadedUnpaid
    <2>7. onPage' /\ billingInput' # None /\ calculatedStatement' # None => Saves(FALSE)
        BY <1>7 DEF Saves
    <2> QED BY <1>1, <1>4, <1>6, <1>8, <1>10, <2>1, <2>2, <2>3, <2>4, <2>5, <2>6, <2>7 DEF HandlerLeaves
<1> QED BY <1>1, <1>11, EffectKeeps

LEMMA AnswerKeeps ==
    ASSUME Inv, NEW n \in calculating, CalculationAnswered(n) PROVE Inv' /\ PaidKept
<1>1. /\ onPage' = onPage /\ paymentResult' = paymentResult /\ billingInput' = billingInput
      /\ calculatedStatement' = n /\ calculating' = calculating \ {n}
      /\ forms' = forms /\ payments' = payments /\ paying' = paying
      /\ Effect(FALSE, lastSaved, savedEntry)
    BY DEF CalculationAnswered, EffectOfContext
<1>2. /\ n \in 1 .. Len(forms) /\ Len(forms) \in Nat
      /\ lastSaved \in {Unsaved} \cup (Form \X (1 .. Len(forms)))
      /\ lastSaved # Unsaved => lastSaved[2] \notin calculating /\ lastSaved[2] # n
    BY KeptEntries DEF Inv, Refs, Requests, Unanswered
<1>3. Changed
    BY <1>1 DEF Changed, context, Inv, Unanswered
<1>4. Context' /\ Requests'
    BY <1>1, <1>2 DEF Inv, Context, Requests
<1>5. lastSaved # EntryKey(billingInput', calculatedStatement')
    BY <1>1, <1>2, KeyIsNotUnsaved DEF EntryKey
<1>6. HandlerLeaves(FALSE, lastSaved, savedEntry)
    <2>1. onPage' \in BOOLEAN /\ savedEntry \in EntryId \cup {None}
        BY <1>1 DEF Inv, Refs
    <2>2. ~onPage' => lastSaved = Unsaved /\ savedEntry = None
        BY <1>1 DEF Inv, OffPage
    <2>3. lastSaved = Unsaved =>
             \A i \in 1 .. Len(history) : history[i].id = savedEntry => history[i].payment = None
        BY DEF Inv, LoadedUnpaid
    <2>4. onPage' /\ billingInput' # None /\ calculatedStatement' # None => Saves(FALSE)
        BY <1>3 DEF Saves
    <2>5. /\ Len(forms) <= Len(forms') /\ \A m \in 1 .. Len(forms) : forms'[m] = forms[m]
          /\ lastSaved \in {Unsaved} \cup (Form \X (1 .. Len(forms')))
          /\ \A m \in calculating' : m \in calculating
          /\ calculatedStatement' \notin calculating'
          /\ lastSaved # Unsaved => lastSaved[2] \notin calculating' /\ lastSaved[2] # calculatedStatement'
        BY <1>1, <1>2
    <2> QED BY <1>4, <1>5, <2>1, <2>2, <2>3, <2>4, <2>5 DEF HandlerLeaves
<1> QED BY <1>1, <1>6, EffectKeeps

LEMMA PaidAnswerKeeps ==
    ASSUME Inv, NEW p \in paying, PaymentAnswered(p) PROVE Inv' /\ PaidKept
<1>1. /\ onPage' = onPage /\ paymentResult' = p /\ billingInput' = billingInput
      /\ calculatedStatement' = calculatedStatement /\ calculating' = calculating
      /\ forms' = forms /\ payments' = payments /\ paying' = paying \ {p}
      /\ Effect(FALSE, lastSaved, savedEntry)
    BY DEF PaymentAnswered, EffectOfContext
<1>2. p \in Payment /\ p # None
    <2>1. /\ p \in 1 .. Len(payments) /\ Len(payments) <= MaxPayments
          /\ Len(payments) \in Nat /\ MaxPayments \in Nat
        BY BoundsAssumption, LenProperties DEF Inv, Requests
    <2> QED BY <2>1 DEF Payment, None
<1>3. Context' /\ Requests'
    BY <1>1, <1>2 DEF Inv, Context, Requests
<1>4. onPage' /\ billingInput' # None /\ calculatedStatement' # None /\ ~Saves(FALSE) =>
          /\ lastSaved = EntryKey(billingInput', calculatedStatement')
          /\ \A i \in 1 .. Len(history) : history[i].id = savedEntry => history[i] = Shown(savedEntry)
    <2> SUFFICES ASSUME onPage', billingInput' # None, calculatedStatement' # None, ~Saves(FALSE)
                 PROVE  /\ lastSaved = EntryKey(billingInput', calculatedStatement')
                        /\ \A i \in 1 .. Len(history) : history[i].id = savedEntry => history[i] = Shown(savedEntry)
        OBVIOUS
    <2>1. context' = context
        BY DEF Saves, Changed
    <2>2. paymentResult' = paymentResult
        BY <2>1 DEF context
    <2> QED BY <1>1, <2>2 DEF Inv, HistoryInSync, EntryKey, Shown
<1>5. HandlerLeaves(FALSE, lastSaved, savedEntry)
    <2>1. onPage' \in BOOLEAN /\ savedEntry \in EntryId \cup {None}
        BY <1>1 DEF Inv, Refs
    <2>2. ~onPage' => lastSaved = Unsaved /\ savedEntry = None
        BY <1>1 DEF Inv, OffPage
    <2>3. /\ lastSaved = Unsaved =>
                \A i \in 1 .. Len(history) : history[i].id = savedEntry => history[i].payment = None
          /\ lastSaved # Unsaved /\ lastSaved[2] = calculatedStatement' => billingInput' # None
        BY <1>1 DEF Inv, LoadedUnpaid, ShownSaved
    <2>4. /\ calculatedStatement' \notin calculating'
          /\ lastSaved # Unsaved => lastSaved[2] \notin calculating'
        BY <1>1 DEF Inv, Unanswered
    <2>5. Len(forms) <= Len(forms') /\ lastSaved \in {Unsaved} \cup (Form \X (1 .. Len(forms')))
        BY <1>1, KeptEntries DEF Inv, Refs
    <2> QED BY <1>1, <1>2, <1>3, <1>4, <2>1, <2>2, <2>3, <2>4, <2>5 DEF HandlerLeaves
<1> QED BY <1>1, <1>5, EffectKeeps

LEMMA LoadKeeps == ASSUME Inv, LoadEntry PROVE Inv' /\ PaidKept
<1>1. PICK i \in 1 .. Len(history) :
         /\ billingInput' = history[i].input
         /\ calculatedStatement' = history[i].statement
         /\ paymentResult' = LoadedPayment(history[i])
         /\ UNCHANGED <<user, isCalculating, onPage, requests>>
         /\ Effect(FALSE, LoadedKey(history[i]), history[i].id)
    BY DEF LoadEntry
<1> DEFINE e == history[i]
           last == LoadedKey(e)
<1>2. /\ onPage /\ onPage' = onPage /\ forms' = forms /\ calculating' = calculating
      /\ payments' = payments /\ paying' = paying
    BY <1>1 DEF LoadEntry, requests
<1>3. /\ e \in Entry /\ e.id \in EntryId
      /\ e.input \in 1 .. Len(forms) /\ e.statement \in 0 .. Len(forms)
      /\ e.payment \in Payment \cup {None} /\ Len(forms) \in Nat
    BY KeptEntries
<1>4. /\ e.statement = None => last = Unsaved /\ paymentResult' = None /\ e.payment = None
      /\ e.statement # None =>
            /\ last = <<forms[e.input], e.statement>> /\ last # Unsaved /\ last[2] = e.statement
            /\ paymentResult' = e.payment
    BY <1>1, KeyIsNotUnsaved DEF LoadedKey, LoadedPayment, Inv, Unstated
<1>5. \A k \in 1 .. Len(history) : history[k].id = e.id => history[k] = e
    BY DEF Inv, History, DistinctIds
<1>6. e = [id |-> e.id, input |-> e.input, statement |-> e.statement, payment |-> e.payment]
    BY <1>3 DEF Entry
<1>7. e.statement # None => e = Shown(e.id)
    <2>1. Shown(e.id) = [id |-> e.id, input |-> e.input, statement |-> e.statement, payment |-> paymentResult']
        BY <1>1 DEF Shown
    <2> QED BY <1>4, <1>6, <2>1
<1>8. forms[e.input] \in Form
    BY <1>3, ItemsOf DEF Inv, Context
<1>9. e.statement \notin calculating
    BY DEF Inv, Unanswered
<1>10. billingInput' = e.input /\ calculatedStatement' = e.statement /\ Effect(FALSE, last, e.id)
    BY <1>1
<1> HIDE DEF e, last
<1>11. Context' /\ Requests'
    <2>1. billingInput' \in 0 .. Len(forms') /\ calculatedStatement' \in 0 .. Len(forms')
        BY <1>2, <1>3, <1>10
    <2>2. paymentResult' \in Payment \cup {None}
        BY <1>3, <1>4
    <2> QED BY <1>2, <2>1, <2>2 DEF Inv, Context, Requests
<1>12. HandlerLeaves(FALSE, last, e.id)
    <2>1. last \in {Unsaved} \cup (Form \X (1 .. Len(forms')))
        BY <1>2, <1>3, <1>4, <1>8 DEF None
    <2>2. /\ Len(forms) <= Len(forms') /\ onPage' \in BOOLEAN /\ onPage'
          /\ \A m \in 1 .. Len(forms) : forms'[m] = forms[m]
          /\ \A m \in calculating' : m \in calculating
        BY <1>2, <1>3 DEF Inv, Refs
    <2>3. calculatedStatement' \notin calculating' /\ (last # Unsaved => last[2] \notin calculating')
        BY <1>2, <1>4, <1>9, <1>10
    <2>4. last = Unsaved => \A k \in 1 .. Len(history) : history[k].id = e.id => history[k].payment = None
        BY <1>4, <1>5
    <2>5. billingInput' # None
        BY <1>3, <1>10 DEF None
    <2>6. calculatedStatement' # None =>
             /\ last = EntryKey(billingInput', calculatedStatement')
             /\ \A k \in 1 .. Len(history) : history[k].id = e.id => history[k] = Shown(e.id)
        BY <1>2, <1>4, <1>5, <1>7, <1>10 DEF EntryKey
    <2>7. last = EntryKey(billingInput', calculatedStatement') =>
             \A k \in 1 .. Len(history) :
                history[k].id = e.id /\ history[k].payment # None => paymentResult' # None
        <3>1. last = EntryKey(billingInput', calculatedStatement') => e.statement # None
            BY <1>4, KeyIsNotUnsaved DEF EntryKey
        <3> QED BY <1>4, <1>5, <3>1
    <2> QED BY <1>3, <1>11, <2>1, <2>2, <2>3, <2>4, <2>5, <2>6, <2>7 DEF HandlerLeaves
<1> QED BY <1>10, <1>12, EffectKeeps

LEMMA ReturnKeeps == ASSUME Inv, ReturnToPage PROVE Inv' /\ PaidKept
<1>1. /\ onPage' = TRUE /\ billingInput' = billingInput /\ calculatedStatement' = calculatedStatement
      /\ paymentResult' = paymentResult /\ forms' = forms /\ calculating' = calculating
      /\ payments' = payments /\ paying' = paying
      /\ Effect(TRUE, Unsaved, None)
    BY DEF ReturnToPage, context, requests
<1>2. Context' /\ Requests'
    BY <1>1 DEF Inv, Context, Requests
<1>3. \A i \in 1 .. Len(history) : history[i].id # None
    BY KeptEntries
<1>4. Unsaved # EntryKey(billingInput', calculatedStatement')
    BY KeyIsNotUnsaved DEF EntryKey
<1>5. HandlerLeaves(TRUE, Unsaved, None)
    <2>1. Len(forms) <= Len(forms') /\ onPage'
        BY <1>1, KeptEntries
    <2>2. calculatedStatement' \notin calculating'
        BY <1>1 DEF Inv, Unanswered
    <2>3. billingInput' # None /\ calculatedStatement' # None => Saves(TRUE)
        BY <1>1 DEF Saves
    <2> QED BY <1>1, <1>2, <1>3, <1>4, <2>1, <2>2, <2>3 DEF HandlerLeaves, Unsaved, None
<1> QED BY <1>1, <1>5, EffectKeeps

LEMMA StartKeeps == ASSUME Inv, StartNew PROVE Inv' /\ PaidKept
<1>1. /\ onPage' = onPage /\ billingInput' = None /\ calculatedStatement' = None
      /\ paymentResult' = None /\ forms' = forms /\ calculating' = calculating
      /\ payments' = payments /\ paying' = paying
      /\ Effect(FALSE, lastSaved, savedEntry)
    BY DEF StartNew, EffectOfContext, requests
<1>2. ~Saves(FALSE)
    BY <1>1 DEF Saves
<1>3. lastSaved' = lastSaved /\ savedEntry' = savedEntry /\ history' = history
    BY <1>1, <1>2 DEF Effect
<1>4. Len(forms) \in Nat
    BY KeptEntries
<1>5. Context' /\ Requests'
    BY <1>1, <1>4 DEF Inv, Context, Requests, None
<1>6. Refs' /\ History' /\ OffPage'
    BY <1>1, <1>3 DEF Inv, Refs, History, DistinctIds, OffPage, Unsaved, None, EntryId
<1>7. ShownSaved'
    <2>1. lastSaved # Unsaved => lastSaved[2] # None
        BY DEF Inv, Refs, None
    <2> QED BY <1>1, <1>3, <2>1 DEF ShownSaved, Unsaved, None
<1> QED BY <1>1, <1>3, <1>5, <1>6, <1>7, QuietStep

LEMMA DeleteKeeps == ASSUME Inv, DeleteEntry PROVE Inv' /\ PaidKept
<1>1. /\ context' = context /\ onPage' = onPage /\ lastSaved' = lastSaved /\ savedEntry' = savedEntry
      /\ forms' = forms /\ calculating' = calculating /\ payments' = payments /\ paying' = paying
    BY DEF DeleteEntry, refs, requests
<1>2. billingInput' = billingInput /\ calculatedStatement' = calculatedStatement
      /\ paymentResult' = paymentResult
    BY <1>1 DEF context
<1>3. PICK i \in 1 .. Len(history) : history' = deleteEntry(history, i)
    BY DEF DeleteEntry
<1>4. /\ Len(history) \in Nat /\ MAX_ENTRIES \in Nat /\ Len(history) <= MAX_ENTRIES
      /\ history \in Seq(Entry) /\ DistinctIds
    BY KeptEntries DEF Inv, History
<1>5. /\ history' \in Seq(Entry) /\ Len(history') = Len(history) - 1
      /\ \A j \in 1 .. Len(history') : history'[j] = IF j < i THEN history[j] ELSE history[j + 1]
    BY <1>3, <1>4, Deleted
<1>6. \A j \in 1 .. Len(history') :
         j \in 1 .. Len(history) /\ j + 1 \in 1 .. Len(history)
    BY <1>4, <1>5
<1>7. \A j \in 1 .. Len(history') : \E k \in 1 .. Len(history) : history'[j] = history[k]
    BY <1>5, <1>6
<1>8. History'
    <2>1. ASSUME NEW j \in 1 .. Len(history'), NEW k \in 1 .. Len(history'), history'[j].id = history'[k].id
          PROVE  j = k
        <3>1. (IF j < i THEN j ELSE j + 1) = (IF k < i THEN k ELSE k + 1)
            BY <1>4, <1>5, <1>6, <2>1 DEF DistinctIds
        <3> QED BY <3>1
    <2> QED BY <1>4, <1>5, <2>1 DEF History, DistinctIds
<1>9. Context' /\ Requests' /\ Refs' /\ OffPage' /\ ShownSaved'
    BY <1>1, <1>2 DEF Inv, Context, Requests, Refs, OffPage, ShownSaved, Unsaved, None, EntryId, Payment
<1> QED BY <1>1, <1>2, <1>7, <1>8, <1>9, QuietStep

\* The steps that leave the context, the refs and the history alone.
LEMMA RequestsOnly ==
    ASSUME Inv, Requests', context' = context, refs' = refs, history' = history,
           onPage' = onPage, forms' = forms, calculating' \subseteq calculating
    PROVE  Inv' /\ PaidKept
<1>1. /\ billingInput' = billingInput /\ calculatedStatement' = calculatedStatement
      /\ paymentResult' = paymentResult /\ lastSaved' = lastSaved /\ savedEntry' = savedEntry
    BY DEF context, refs
<1>2. Context' /\ Refs' /\ OffPage' /\ ShownSaved'
    BY <1>1 DEF Inv, Context, Refs, OffPage, ShownSaved, Unsaved, None, EntryId, Payment
<1>3. History'
    BY DEF Inv, History, DistinctIds
<1> QED BY <1>1, <1>2, <1>3, QuietStep

LEMMA PayKeeps == ASSUME Inv, Pay PROVE Inv' /\ PaidKept
<1>1. /\ context' = context /\ refs' = refs /\ history' = history /\ onPage' = onPage
      /\ forms' = forms /\ calculating' = calculating
      /\ payments' = Append(payments, calculatedStatement) /\ Len(payments) < MaxPayments
      /\ paying' = paying \cup {Len(payments')}
    BY DEF Pay
<1>2. payments \in Seq(Nat) /\ calculatedStatement \in Nat
    BY KeptEntries DEF Inv, Context, Requests
<1>3. payments' \in Seq(Nat) /\ Len(payments') = Len(payments) + 1 /\ Len(payments) \in Nat /\ MaxPayments \in Nat
    BY <1>1, <1>2, AppendProperties, LenProperties, BoundsAssumption
<1>4. Requests'
    <2>1. paying \subseteq 1 .. Len(payments) /\ calculating \subseteq 1 .. Len(forms)
        BY DEF Inv, Requests
    <2>2. 1 .. Len(payments) \subseteq 1 .. Len(payments') /\ Len(payments') \in 1 .. Len(payments')
        BY <1>3
    <2>3. paying' \subseteq 1 .. Len(payments')
        BY <1>1, <2>1, <2>2
    <2>4. Len(payments') <= MaxPayments
        BY <1>1, <1>3
    <2> QED BY <1>1, <1>3, <2>1, <2>3, <2>4 DEF Requests
<1> QED BY <1>1, <1>4, RequestsOnly

LEMMA ClearKeeps == ASSUME Inv, ClearHistory PROVE Inv' /\ PaidKept
<1>1. /\ context' = context /\ onPage' = onPage /\ lastSaved' = lastSaved /\ savedEntry' = savedEntry
      /\ forms' = forms /\ calculating' = calculating /\ payments' = payments /\ paying' = paying
      /\ history' = <<>>
    BY DEF ClearHistory, refs, requests
<1>2. billingInput' = billingInput /\ calculatedStatement' = calculatedStatement
      /\ paymentResult' = paymentResult
    BY <1>1 DEF context
<1>3. history' \in Seq(Entry) /\ Len(history') = 0
    BY <1>1, EmptySeq
<1>4. History'
    BY <1>3, HistoryAssumption DEF History, DistinctIds
<1>5. Context' /\ Requests' /\ Refs' /\ OffPage' /\ ShownSaved'
    BY <1>1, <1>2 DEF Inv, Context, Requests, Refs, OffPage, ShownSaved, Unsaved, None, EntryId, Payment
<1>6. \A j \in 1 .. Len(history') : \E i \in 1 .. Len(history) : history'[j] = history[i]
    BY <1>3
<1> QED BY <1>1, <1>2, <1>4, <1>5, <1>6, QuietStep

LEMMA LeaveKeeps == ASSUME Inv, LeavePage PROVE Inv' /\ PaidKept
<1>1. /\ context' = context /\ onPage' = FALSE /\ lastSaved' = Unsaved /\ savedEntry' = None
      /\ forms' = forms /\ calculating' = calculating /\ payments' = payments /\ paying' = paying
      /\ history' = history
    BY DEF LeavePage, requests
<1>2. billingInput' = billingInput /\ calculatedStatement' = calculatedStatement
      /\ paymentResult' = paymentResult
    BY <1>1 DEF context
<1>3. Context' /\ Requests' /\ Refs' /\ OffPage' /\ ShownSaved' /\ History'
    BY <1>1, <1>2 DEF Inv, Context, Requests, Refs, History, DistinctIds, OffPage, ShownSaved,
                      Unsaved, None, EntryId, Payment
<1> QED BY <1>1, <1>2, <1>3, QuietStep

LEMMA ReloadKeeps == ASSUME Inv, Reload PROVE Inv' /\ PaidKept
<1>1. /\ onPage' = TRUE /\ lastSaved' = Unsaved /\ savedEntry' = None
      /\ billingInput' = None /\ calculatedStatement' = None /\ paymentResult' = None
      /\ forms' = forms /\ calculating' = {} /\ payments' = payments /\ paying' = {}
      /\ history' = history
    BY DEF Reload
<1>2. Len(forms) \in Nat
    BY KeptEntries
<1>3. Context' /\ Requests' /\ Refs' /\ OffPage' /\ ShownSaved' /\ History'
    BY <1>1, <1>2 DEF Inv, Context, Requests, Refs, History, DistinctIds, OffPage, ShownSaved,
                      Unsaved, None, EntryId, Payment
<1> QED BY <1>1, <1>3, QuietStep

LEMMA Step == ASSUME Inv, [Next]_vars PROVE Inv' /\ PaidKept
<1>1. CASE Calculate
    BY <1>1, CalculateKeeps
<1>2. ASSUME NEW n \in calculating, CalculationAnswered(n) PROVE Inv' /\ PaidKept
    BY <1>2, AnswerKeeps
<1>3. ASSUME NEW n \in calculating, CalculationFails(n) PROVE Inv' /\ PaidKept
    <2>1. /\ context' = context /\ refs' = refs /\ history' = history /\ onPage' = onPage
          /\ forms' = forms /\ calculating' \subseteq calculating
          /\ payments' = payments /\ paying' = paying
        BY <1>3 DEF CalculationFails
    <2>2. Requests'
        BY <2>1 DEF Inv, Requests
    <2> QED BY <2>1, <2>2, RequestsOnly
<1>4. CASE Pay
    BY <1>4, PayKeeps
<1>5. ASSUME NEW p \in paying, PaymentAnswered(p) PROVE Inv' /\ PaidKept
    BY <1>5, PaidAnswerKeeps
<1>6. ASSUME NEW p \in paying, PaymentFails(p) PROVE Inv' /\ PaidKept
    <2>1. /\ context' = context /\ refs' = refs /\ history' = history /\ onPage' = onPage
          /\ forms' = forms /\ calculating' = calculating
          /\ payments' = payments /\ paying' \subseteq paying
        BY <1>6 DEF PaymentFails
    <2>2. Requests'
        BY <2>1 DEF Inv, Requests
    <2> QED BY <2>1, <2>2, RequestsOnly
<1>7. CASE StartNew
    BY <1>7, StartKeeps
<1>8. CASE LoadEntry
    BY <1>8, LoadKeeps
<1>9. CASE DeleteEntry
    BY <1>9, DeleteKeeps
<1>10. CASE ClearHistory
    BY <1>10, ClearKeeps
<1>11. CASE LeavePage
    BY <1>11, LeaveKeeps
<1>12. CASE ReturnToPage
    BY <1>12, ReturnKeeps
<1>13. CASE Reload
    BY <1>13, ReloadKeeps
<1>14. CASE UNCHANGED vars
    <2>1. /\ context' = context /\ refs' = refs /\ history' = history /\ onPage' = onPage
          /\ forms' = forms /\ calculating' = calculating
          /\ payments' = payments /\ paying' = paying
        BY <1>14 DEF vars, requests
    <2>2. Requests'
        BY <2>1 DEF Inv, Requests
    <2> QED BY <2>1, <2>2, RequestsOnly
<1> QED BY <1>1, <1>2, <1>3, <1>4, <1>5, <1>6, <1>7, <1>8, <1>9, <1>10, <1>11, <1>12, <1>13, <1>14 DEF Next

LEMMA InitInv == Init => Inv
<1> SUFFICES ASSUME Init PROVE Inv
    OBVIOUS
<1>1. PICK f \in Form : forms = <<f>>
    BY DEF Init
<1>2. forms \in Seq(Form) /\ Len(forms) = 1 /\ MaxCalculations \in Nat /\ MaxPayments \in Nat
    BY <1>1, BoundsAssumption
<1> DEFINE e == [id |-> 1, input |-> 1, statement |-> None, payment |-> None]
<1>3. e \in Entry
    <2>1. 1 \in EntryId /\ 1 \in Number
        BY <1>2, HistoryAssumption DEF EntryId, Number
    <2> QED BY <2>1 DEF Entry
<1>4. history = <<>> \/ history = <<e>>
    BY DEF Init
<1>5. e.input = 1 /\ e.statement = None /\ e.payment = None
    OBVIOUS
<1> HIDE DEF e
<1>6. /\ history \in Seq(Entry) /\ Len(history) \in {0, 1}
      /\ \A i \in 1 .. Len(history) : i = 1 /\ history[i] = e
    <2>1. CASE history = <<>>
        <3>1. history \in Seq(Entry) /\ Len(history) = 0
            BY <2>1, EmptySeq
        <3> QED BY <3>1
    <2>2. CASE history = <<e>>
        <3>1. history \in Seq(Entry) /\ Len(history) = 1 /\ history[1] = e
            BY <1>3, <2>2
        <3> QED BY <3>1
    <2> QED BY <1>4, <2>1, <2>2
<1>7. History
    BY <1>6, HistoryAssumption DEF History, DistinctIds
<1>8. Context /\ Requests
    <2>1. payments \in Seq(Nat) /\ Len(payments) = 0
        BY EmptySeq DEF Init
    <2> QED BY <1>2, <2>1 DEF Init, Context, Requests, None
<1>9. Refs /\ OffPage /\ ShownSaved /\ HistoryInSync /\ LoadedUnpaid
    BY <1>5, <1>6 DEF Init, Refs, OffPage, ShownSaved, HistoryInSync, LoadedUnpaid
<1>10. Submitted /\ Unstated /\ Unanswered
    BY <1>2, <1>5, <1>6 DEF Init, Submitted, Unstated, Unanswered, None
<1> QED BY <1>7, <1>8, <1>9, <1>10 DEF Inv

------------------------------------------------------------------------------
(* The theorems.                                                             *)

\* Whatever the user does while answers are awaited, and in whatever order they
\* come: an input with a statement on the page is in the history's entry that the
\* refs name, with its payment (the effect of web/src/app/page.tsx).
THEOREM ShownIsSaved == Spec => []HistoryInSync
<1>1. Inv /\ [Next]_vars => Inv'
    BY Step
<1>2. Inv => HistoryInSync
    BY DEF Inv
<1> QED BY <1>1, <1>2, InitInv, PTL DEF Spec

\* An entry with a payment is never left without one: not by a recalculation, a late
\* answer, a load or a return to the page (updateEntry of historyStore.ts).
THEOREM PaymentsAreKept == Spec => PaidEntriesStayPaid
<1> DEFINE Kept == \A i \in 1 .. Len(history), j \in 1 .. Len(history') :
                      history[i].id = history'[j].id /\ history[i].payment # None
                          => history'[j].payment # None
<1>1. Inv /\ [Next]_vars => Inv' /\ [Kept]_vars
    BY Step DEF PaidKept
<1> HIDE DEF Kept
<1>2. Spec => [][Kept]_vars
    BY <1>1, InitInv, PTL DEF Spec
<1> QED BY <1>2 DEF PaidEntriesStayPaid, Kept

\* The calculate button is never left disabled with no answer to come: whatever takes
\* an awaited answer away, also enables the button (web/src/components/BillingInputForm.tsx).
THEOREM ButtonIsEnabledAgain == Spec => []ButtonComesBack
<1>1. Init => ButtonComesBack
    BY DEF Init, ButtonComesBack
<1>2. ASSUME ButtonComesBack, [Next]_vars PROVE ButtonComesBack'
    <2>1. CASE Calculate
        BY <2>1 DEF Calculate, ButtonComesBack
    <2>2. CASE \E n \in calculating : CalculationAnswered(n) \/ CalculationFails(n)
        BY <2>2 DEF CalculationAnswered, CalculationFails, ButtonComesBack
    <2>3. CASE StartNew \/ Reload
        BY <2>3 DEF StartNew, Reload, ButtonComesBack
    <2>4. CASE Pay \/ \E p \in paying : PaymentAnswered(p) \/ PaymentFails(p)
        BY <1>2, <2>4 DEF Pay, PaymentAnswered, PaymentFails, ButtonComesBack
    <2>5. CASE LoadEntry \/ DeleteEntry \/ ClearHistory \/ LeavePage \/ ReturnToPage
        BY <1>2, <2>5 DEF LoadEntry, DeleteEntry, ClearHistory, LeavePage, ReturnToPage, requests, ButtonComesBack
    <2>6. CASE UNCHANGED vars
        BY <1>2, <2>6 DEF vars, requests, ButtonComesBack
    <2> QED BY <1>2, <2>1, <2>2, <2>3, <2>4, <2>5, <2>6 DEF Next
<1> QED BY <1>1, <1>2, PTL DEF Spec

------------------------------------------------------------------------------
(* The patient user.                                                         *)

\* He awaits at most one answer, and while he awaits a statement none is shown: the
\* statement shown is always that of the input shown.
OneThing ==
    /\ onPage
    /\ calculatedStatement \in {None, billingInput}
    /\ calculatedStatement = None => paymentResult = None
    /\ calculating # {} => calculating = {billingInput} /\ calculatedStatement = None /\ paying = {}
    /\ \A p \in paying : payments[p] = calculatedStatement /\ calculatedStatement # None

PaymentsMade ==
    /\ paymentResult \in 0 .. Len(payments)
    /\ \A i \in 1 .. Len(history) : history[i].payment \in 0 .. Len(payments)

\* The refs name the entry of the statement shown, where the history has one.
ShownOnce ==
    calculatedStatement # None =>
        \A i \in 1 .. Len(history) :
            history[i].statement = calculatedStatement => history[i].id = savedEntry

Right == StatementOfInput /\ PaymentOfStatement /\ NoDuplicates /\ PaymentsMade /\ ShownOnce

PatientInv == user = "patient" => OneThing /\ Right

\* The effect keeps the history right, when what is shown is right, and a statement that is
\* already in the history is to be saved in its own entry.
LEMMA EffectRight ==
    ASSUME Inv, Right, NEW mounted \in BOOLEAN, NEW last, NEW saved \in EntryId \cup {None},
           Effect(mounted, last, saved), Context', payments' = payments,
           calculatedStatement' \in {None, billingInput'},
           paymentResult' \in 0 .. Len(payments),
           paymentResult' # None => payments[paymentResult'] = calculatedStatement',
           calculatedStatement' # None =>
              \A i \in 1 .. Len(history) :
                 history[i].statement = calculatedStatement' =>
                    history[i].id = saved /\ (Saves(mounted) => Updates(last, saved))
    PROVE  Right'
<1>1. /\ History'
      /\ ~Saves(mounted) => savedEntry' = saved /\ history' = history
      /\ \A j \in 1 .. Len(history') :
            \/ \E i \in 1 .. Len(history) : history'[j] = history[i]
            \/ Saves(mounted) /\ history'[j] = Shown(savedEntry')
    BY EffectOutcome DEF Inv
<1>2. Saves(mounted) /\ Updates(last, saved) => savedEntry' = saved
    BY DEF Effect
<1>3. Saves(mounted) => calculatedStatement' # None
    BY DEF Saves
<1>4. \A id : /\ Shown(id).id = id /\ Shown(id).input = billingInput'
              /\ Shown(id).statement = calculatedStatement'
              /\ Shown(id).payment = paymentResult'
    BY DEF Shown
<1>5. StatementOfInput'
    BY <1>1, <1>4 DEF Right, StatementOfInput, None
<1>6. PaymentsMade'
    BY <1>1, <1>4 DEF Right, PaymentsMade
<1>7. PaymentOfStatement'
    BY <1>1, <1>4 DEF Right, PaymentOfStatement, None
<1>8. ShownOnce'
    <2> SUFFICES ASSUME calculatedStatement' # None, NEW j \in 1 .. Len(history'),
                        history'[j].statement = calculatedStatement'
                 PROVE  history'[j].id = savedEntry'
        BY DEF ShownOnce, None
    <2>1. CASE Saves(mounted) /\ history'[j] = Shown(savedEntry')
        BY <1>4, <2>1
    <2>2. CASE \E i \in 1 .. Len(history) : history'[j] = history[i]
        <3>1. PICK i \in 1 .. Len(history) : history'[j] = history[i]
            BY <2>2
        <3>2. history[i].id = saved /\ (Saves(mounted) => Updates(last, saved))
            BY <3>1
        <3> QED BY <1>1, <1>2, <3>1, <3>2
    <2> QED BY <1>1, <2>1, <2>2
<1>9. NoDuplicates'
    <2> SUFFICES ASSUME NEW j \in 1 .. Len(history'), NEW k \in 1 .. Len(history'),
                        history'[j].statement # None, history'[j].statement = history'[k].statement
                 PROVE  j = k
        BY DEF NoDuplicates, None
    <2>1. history'[j].id = history'[k].id
        <3>1. CASE history'[j].statement = calculatedStatement'
            BY <1>8, <3>1 DEF ShownOnce, None
        <3>2. CASE history'[j].statement # calculatedStatement'
            <4>1. /\ \E i \in 1 .. Len(history) : history'[j] = history[i]
                  /\ \E i \in 1 .. Len(history) : history'[k] = history[i]
                BY <1>1, <1>4, <3>2
            <4> QED BY <4>1 DEF Right, NoDuplicates
        <3> QED BY <3>1, <3>2
    <2> QED BY <1>1, <2>1 DEF History, DistinctIds
<1> QED BY <1>5, <1>6, <1>7, <1>8, <1>9 DEF Right

\* So do the steps that write nothing into the history.
LEMMA QuietRight ==
    ASSUME Inv', Right, Len(payments) \in Nat, Len(payments') \in Nat, Len(payments) <= Len(payments'),
           \A q \in 1 .. Len(payments) : payments'[q] = payments[q],
           \A j \in 1 .. Len(history') : \E i \in 1 .. Len(history) : history'[j] = history[i],
           \/ context' = context /\ savedEntry' = savedEntry
           \/ calculatedStatement' = None /\ paymentResult' = None
    PROVE  Right'
<1>1. StatementOfInput'
    BY DEF Right, StatementOfInput, None
<1>2. PaymentsMade'
    <2>1. paymentResult' \in {paymentResult, None}
        BY DEF context
    <2> QED BY <2>1 DEF Right, PaymentsMade, None
<1>3. ASSUME NEW p \in 0 .. Len(payments), p # None
      PROVE  payments'[p] = payments[p]
    <2>1. p \in 1 .. Len(payments)
        BY <1>3 DEF None
    <2> QED BY <2>1
<1>4. PaymentOfStatement'
    <2>1. paymentResult' # None => payments'[paymentResult'] = calculatedStatement'
        BY <1>3 DEF Right, PaymentOfStatement, PaymentsMade, context
    <2>2. ASSUME NEW j \in 1 .. Len(history'), history'[j].payment # None
          PROVE  payments'[history'[j].payment] = history'[j].statement
        <3>1. PICK i \in 1 .. Len(history) : history'[j] = history[i]
            OBVIOUS
        <3>2. /\ history[i].payment \in 0 .. Len(payments)
              /\ history[i].payment # None => payments[history[i].payment] = history[i].statement
            BY DEF Right, PaymentOfStatement, PaymentsMade
        <3> QED BY <1>3, <2>2, <3>1, <3>2
    <2> QED BY <2>1, <2>2 DEF PaymentOfStatement, None
<1>5. ShownOnce'
    BY DEF Right, ShownOnce, context, None
<1>6. NoDuplicates'
    <2> SUFFICES ASSUME NEW j \in 1 .. Len(history'), NEW k \in 1 .. Len(history'),
                        history'[j].statement # None, history'[j].statement = history'[k].statement
                 PROVE  j = k
        BY DEF NoDuplicates, None
    <2>1. PICK a \in 1 .. Len(history) : history'[j] = history[a]
        OBVIOUS
    <2>2. PICK b \in 1 .. Len(history) : history'[k] = history[b]
        OBVIOUS
    <2>3. a = b
        BY <2>1, <2>2 DEF Right, NoDuplicates
    <2> QED BY <2>1, <2>2, <2>3 DEF Inv, History, DistinctIds
<1> QED BY <1>1, <1>2, <1>4, <1>5, <1>6 DEF Right

LEMMA PaymentCount ==
    ASSUME Inv
    PROVE  payments \in Seq(Nat) /\ Len(payments) \in Nat
    BY LenProperties DEF Inv, Requests

LEMMA PatientCalculates ==
    ASSUME Inv, Inv', user = "patient", OneThing, Right, Calculate
    PROVE  OneThing' /\ Right'
<1>1. /\ onPage' = onPage /\ calculatedStatement' = calculatedStatement /\ paymentResult' = paymentResult
      /\ billingInput' = Len(forms') /\ calculating' = calculating \cup {Len(forms')}
      /\ payments' = payments /\ paying' = paying
      /\ calculatedStatement = None /\ calculating = {} /\ paying = {}
      /\ Effect(FALSE, lastSaved, savedEntry)
    BY DEF Calculate, EffectOfContext, Quiet, Waiting
<1>2. OneThing'
    BY <1>1 DEF OneThing, None
<1>3. paymentResult' = None /\ 0 \in 0 .. Len(payments)
    BY <1>1, PaymentCount DEF OneThing
<1>4. Right'
    BY <1>1, <1>3, EffectRight DEF Inv, Refs, None
<1> QED BY <1>2, <1>4

LEMMA PatientIsAnswered ==
    ASSUME Inv, Inv', OneThing, Right, NEW n \in calculating, CalculationAnswered(n)
    PROVE  OneThing' /\ Right'
<1>1. /\ onPage' = onPage /\ paymentResult' = paymentResult /\ billingInput' = billingInput
      /\ calculatedStatement' = n /\ calculating' = calculating \ {n}
      /\ payments' = payments /\ paying' = paying
      /\ Effect(FALSE, lastSaved, savedEntry)
    BY DEF CalculationAnswered, EffectOfContext
<1>2. n = billingInput /\ calculating = {n} /\ paying = {} /\ paymentResult = None /\ n # None
    BY DEF OneThing, Inv, Requests, None
<1>3. OneThing'
    BY <1>1, <1>2 DEF OneThing, None
<1>4. \A i \in 1 .. Len(history) : history[i].statement # n
    BY DEF Inv, Unanswered
<1>5. Right'
    <2>1. 0 \in 0 .. Len(payments) /\ savedEntry \in EntryId \cup {None}
        BY PaymentCount DEF Inv, Refs
    <2> QED BY <1>1, <1>2, <1>4, <2>1, EffectRight DEF Inv, None
<1> QED BY <1>3, <1>5

LEMMA PatientPays ==
    ASSUME Inv, Inv', user = "patient", OneThing, Right, Pay
    PROVE  OneThing' /\ Right'
<1>1. /\ context' = context /\ refs' = refs /\ history' = history /\ onPage' = onPage
      /\ calculating' = calculating /\ paying' = paying \cup {Len(payments')}
      /\ payments' = Append(payments, calculatedStatement)
      /\ calculatedStatement # None /\ paying = {}
    BY DEF Pay, Quiet, Waiting
<1>2. /\ payments \in Seq(Nat) /\ Len(payments) \in Nat /\ calculatedStatement \in Nat
    BY PaymentCount, KeptEntries DEF Inv, Context
<1>3. /\ Len(payments') = Len(payments) + 1 /\ payments'[Len(payments')] = calculatedStatement
      /\ \A q \in 1 .. Len(payments) : payments'[q] = payments[q]
    BY <1>1, <1>2, AppendProperties
<1>4. OneThing'
    BY <1>1, <1>3 DEF OneThing, context, Waiting, None
<1>5. Right'
    <2>1. Len(payments') \in Nat /\ Len(payments) <= Len(payments')
        BY <1>2, <1>3
    <2>2. savedEntry' = savedEntry
        BY <1>1 DEF refs
    <2> QED BY <1>1, <1>2, <1>3, <2>1, <2>2, QuietRight
<1> QED BY <1>4, <1>5

LEMMA PatientHasPaid ==
    ASSUME Inv, Inv', OneThing, Right, NEW p \in paying, PaymentAnswered(p)
    PROVE  OneThing' /\ Right'
<1>1. /\ onPage' = onPage /\ paymentResult' = p /\ billingInput' = billingInput
      /\ calculatedStatement' = calculatedStatement /\ calculating' = calculating
      /\ forms' = forms /\ payments' = payments /\ paying' = paying \ {p}
      /\ Effect(FALSE, lastSaved, savedEntry)
    BY DEF PaymentAnswered, EffectOfContext
<1>2. /\ payments[p] = calculatedStatement /\ calculatedStatement # None
      /\ billingInput = calculatedStatement /\ p \in 0 .. Len(payments)
    BY PaymentCount DEF OneThing, Inv, Requests
<1>3. OneThing'
    BY <1>1, <1>2 DEF OneThing, None
<1>4. lastSaved = EntryKey(billingInput', calculatedStatement')
    <2>1. lastSaved = <<forms[billingInput], calculatedStatement>>
        BY <1>2 DEF OneThing, Inv, HistoryInSync
    <2> QED BY <1>1, <2>1 DEF EntryKey
<1>5. Updates(lastSaved, savedEntry)
    BY <1>4 DEF Updates
<1>6. Right'
    <2>1. \A i \in 1 .. Len(history) :
             history[i].statement = calculatedStatement' => history[i].id = savedEntry
        BY <1>1, <1>2 DEF Right, ShownOnce
    <2>2. savedEntry \in EntryId \cup {None} /\ calculatedStatement' \in {None, billingInput'} /\ Context'
        BY <1>1, <1>2 DEF Inv, Refs
    <2> QED BY <1>1, <1>2, <1>5, <2>1, <2>2, EffectRight
<1> QED BY <1>3, <1>6

LEMMA PatientLoads ==
    ASSUME Inv, Inv', user = "patient", OneThing, Right, LoadEntry
    PROVE  OneThing' /\ Right'
<1>1. PICK i \in 1 .. Len(history) :
         /\ billingInput' = history[i].input
         /\ calculatedStatement' = history[i].statement
         /\ paymentResult' = LoadedPayment(history[i])
         /\ UNCHANGED <<user, isCalculating, onPage, requests>>
         /\ Effect(FALSE, LoadedKey(history[i]), history[i].id)
    BY DEF LoadEntry
<1>2. /\ onPage' = onPage /\ forms' = forms /\ calculating' = calculating
      /\ payments' = payments /\ paying' = paying /\ calculating = {} /\ paying = {}
    BY <1>1 DEF LoadEntry, requests, Quiet, Waiting
<1>3. calculatedStatement' \in {None, billingInput'}
    BY <1>1 DEF Right, StatementOfInput
<1>4. /\ paymentResult' \in {None, history[i].payment}
      /\ calculatedStatement' = None => paymentResult' = None
    BY <1>1 DEF LoadedPayment
<1>5. OneThing'
    BY <1>2, <1>3, <1>4 DEF OneThing, None
<1>6. /\ paymentResult' \in 0 .. Len(payments)
      /\ paymentResult' # None => payments[paymentResult'] = calculatedStatement'
    BY <1>1, <1>4, PaymentCount DEF Right, PaymentsMade, PaymentOfStatement, None
<1>7. ASSUME calculatedStatement' # None
      PROVE  /\ Updates(LoadedKey(history[i]), history[i].id)
             /\ \A k \in 1 .. Len(history) :
                    history[k].statement = calculatedStatement' => history[k].id = history[i].id
    <2>1. LoadedKey(history[i]) = EntryKey(billingInput', calculatedStatement')
        BY <1>1, <1>2, <1>7 DEF LoadedKey, EntryKey
    <2>2. \A k \in 1 .. Len(history) : history[k].statement = calculatedStatement' => k = i
        BY <1>1, <1>7 DEF Right, NoDuplicates
    <2> QED BY <2>1, <2>2 DEF Updates
<1>8. Right'
    <2>1. history[i].id \in EntryId \cup {None} /\ Context'
        BY KeptEntries DEF Inv
    <2> QED BY <1>1, <1>2, <1>3, <1>6, <1>7, <2>1, EffectRight
<1> QED BY <1>5, <1>8

\* The steps that leave the payments and what the history says alone.
LEMMA PatientElse ==
    ASSUME Inv, Inv', user = "patient", OneThing, Right,
           \/ \E n \in calculating : CalculationFails(n)
           \/ \E p \in paying : PaymentFails(p)
           \/ StartNew \/ DeleteEntry \/ ClearHistory \/ Reload
           \/ UNCHANGED vars
    PROVE  OneThing' /\ Right'
<1>1. /\ payments' = payments /\ onPage'
      /\ calculating' \subseteq calculating /\ paying' \subseteq paying
      /\ calculating' # {} \/ paying' # {} => context' = context
    BY DEF CalculationFails, PaymentFails, StartNew, DeleteEntry, ClearHistory, Reload, vars,
           requests, Quiet, Waiting, OneThing
<1>2. \/ context' = context /\ savedEntry' = savedEntry
      \/ billingInput' = None /\ calculatedStatement' = None /\ paymentResult' = None
    BY DEF CalculationFails, PaymentFails, StartNew, DeleteEntry, ClearHistory, Reload, vars, refs
<1>3. OneThing'
    BY <1>1, <1>2 DEF OneThing, context, None
<1>4. \A j \in 1 .. Len(history') : \E i \in 1 .. Len(history) : history'[j] = history[i]
    <2>1. CASE DeleteEntry
        <3>1. PICK i \in 1 .. Len(history) : history' = deleteEntry(history, i)
            BY <2>1 DEF DeleteEntry
        <3>2. /\ Len(history) \in Nat /\ history \in Seq(Entry)
            BY KeptEntries DEF Inv, History
        <3>3. /\ Len(history') = Len(history) - 1
              /\ \A j \in 1 .. Len(history') : history'[j] = IF j < i THEN history[j] ELSE history[j + 1]
            BY <3>1, <3>2, Deleted
        <3>4. \A j \in 1 .. Len(history') :
                 j \in 1 .. Len(history) /\ j + 1 \in 1 .. Len(history)
            BY <3>2, <3>3
        <3> QED BY <3>3, <3>4
    <2>2. CASE ClearHistory
        <3>1. Len(history') = 0
            BY <2>2, EmptySeq DEF ClearHistory
        <3> QED BY <3>1
    <2>3. CASE StartNew
        <3>1. history' = history
            BY <2>3 DEF StartNew, EffectOfContext, Effect, Saves
        <3> QED BY <3>1
    <2>4. CASE ~(DeleteEntry \/ ClearHistory \/ StartNew)
        <3>1. history' = history
            BY <2>4 DEF CalculationFails, PaymentFails, Reload, vars
        <3> QED BY <3>1
    <2> QED BY <2>1, <2>2, <2>3, <2>4
<1>5. Right'
    BY <1>1, <1>2, <1>4, PaymentCount, QuietRight
<1> QED BY <1>3, <1>5

LEMMA PatientStep ==
    ASSUME Inv, PatientInv, [Next]_vars
    PROVE  PatientInv'
<1>1. Inv'
    BY Step
<1>2. user' = user
    BY DEF Next, Calculate, CalculationAnswered, CalculationFails, Pay, PaymentAnswered, PaymentFails,
           StartNew, LoadEntry, DeleteEntry, ClearHistory, LeavePage, ReturnToPage, Reload, vars
<1> SUFFICES ASSUME user = "patient", OneThing, Right
             PROVE  OneThing' /\ Right'
    BY <1>2 DEF PatientInv
<1>3. ~LeavePage /\ ~ReturnToPage
    BY DEF LeavePage, ReturnToPage, OneThing
<1> QED BY <1>1, <1>3, PatientCalculates, PatientIsAnswered, PatientPays, PatientHasPaid, PatientLoads,
           PatientElse DEF Next

\* A user who does one thing at a time: the statement of every entry was computed from the
\* entry's input, its payment was made for that statement, and no statement is there twice,
\* whichever entries he loads, deletes and recalculates in between.
THEOREM PatientIsRight == Spec => []PatientHistoryRight
<1>1. Init => PatientInv
    <2> SUFFICES ASSUME Init PROVE OneThing /\ Right
        BY DEF PatientInv
    <2>1. OneThing
        BY DEF Init, OneThing
    <2>2. /\ Len(payments) = 0
          /\ calculatedStatement = None /\ paymentResult = None
        BY EmptySeq DEF Init
    <2>3. \/ Len(history) = 0
          \/ Len(history) = 1 /\ history[1].statement = None /\ history[1].payment = None
        BY DEF Init
    <2>4. Right
        BY <2>2, <2>3 DEF Right, StatementOfInput, PaymentOfStatement, NoDuplicates, PaymentsMade, ShownOnce, None
    <2> QED BY <2>1, <2>4
<1>2. (Inv /\ PatientInv) /\ [Next]_vars => (Inv /\ PatientInv)'
    BY Step, PatientStep
<1>3. PatientInv => PatientHistoryRight
    BY DEF PatientInv, Right, PatientHistoryRight
<1> QED BY <1>1, <1>2, <1>3, InitInv, PTL DEF Spec
==============================================================================
