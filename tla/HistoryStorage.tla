--------------------------- MODULE HistoryStorage ---------------------------
(***************************************************************************)
(* The history store (web/src/stores/historyStore.ts): every tab of the    *)
(* browser keeps the history in memory and, at each change, writes all of  *)
(* it to the storage they share; it reads the storage when it is loaded,   *)
(* and only then.                                                          *)
(*                                                                         *)
(* Of an entry are kept: its dates, whether the items of its three lists   *)
(* are complete and have ids, and which statement it has.  Fields that may *)
(* be missing and are then left out are not.  Writing always succeeds.     *)
(*                                                                         *)
(* External: zustand's persist, which calls partialize and merge.          *)
(***************************************************************************)
EXTENDS Integers, Sequences

CONSTANTS
    Tab,
    EntryId,        \* what generateEntryId may give
    ItemId,
    MAX_ENTRIES,
    Content,        \* what the page adds: a calculation, paid for or not
    Now,            \* times at which it does
    Written,        \* what the storage may hold to begin with
    NoTab

ASSUME HistoryAssumption == MAX_ENTRIES \in Nat \ {0} /\ NoTab \notin Tab

VARIABLES
    memory,     \* of each tab, newest first
    stored,     \* billing-history-storage
    lastWriter, \* history: the tab whose memory was written last, NoTab before one
    inTurn,     \* do the tabs take turns?
    foundSound  \* history: was the storage sound (Sound) to begin with?

vars == <<memory, stored, lastWriter, inTurn, foundSound>>

(* Operators named Thing_Bug are mutants of Thing. *)

\* Dates are numbers.
None == -1
BadDate == -2
GeneratedId == 0

ASSUME IdAssumption == None \notin EntryId \cup ItemId

ListName == {"usage", "credits", "adjustments"}
Item == [complete : {TRUE}, id : ItemId \cup {GeneratedId}]
SerializedItem == [complete : BOOLEAN, id : ItemId \cup {GeneratedId, None}]

ContentType ==
    [targetDate : Nat, items : [ListName -> Seq(Item)], statement : Nat \cup {None},
     transactionDate : Nat \cup {None}]

ASSUME ContentAssumption == Content \subseteq ContentType /\ Now \subseteq Nat

\* The fields of an entry and its input.  Without a payment there is no
\* transactionDate.
HistoryEntry ==
    [id : EntryId, timestamp : Nat, targetDate : Nat, items : [ListName -> Seq(Item)],
     statement : Nat \cup {None}, transactionDate : Nat \cup {None}]

\* Older versions left out lists, items' ids and fields, and anyone can write to
\* the storage, as many entries as he likes and of the same id.  input is whether there is an object, or null, or nothing.
SerializedHistoryEntry ==
    [id : EntryId \cup {None}, timestamp : Nat \cup {BadDate},
     input : {"object", "null", "missing"}, targetDate : Nat \cup {BadDate},
     lists : SUBSET ListName, items : [ListName -> Seq(SerializedItem)],
     statement : Nat \cup {None}, transactionDate : Nat \cup {None, BadDate}]

\* Without the key, or with what is not JSON or has no history, there is no state.
StoredState == [isState : BOOLEAN, history : Seq(SerializedHistoryEntry)]
NoState == [isState |-> FALSE, history |-> <<>>]

IdsDiffer(history) == \A i, j \in 1 .. Len(history) : history[i].id = history[j].id => i = j

\* What the store keeps of a history and nobody checks of one that is read.
Sound(history) == Len(history) <= MAX_ENTRIES /\ IdsDiffer(history)

ASSUME WrittenAssumption == Written \subseteq StoredState

\* filter and map: of n positions, the items of those that are kept, in order.
Gather(n, kept, item) ==
    LET upTo[i \in 0 .. n] ==
            IF i = 0 THEN <<>>
            ELSE IF i \in kept THEN Append(upTo[i - 1], item[i])
            ELSE upTo[i - 1]
    IN  upTo[n]

------------------------------------------------------------------------------
(* Reading.                                                                  *)

\* migrateUsageInput, migrateCreditInput, migrateAdjustmentInput.
Complete_Any(item) == TRUE
Complete(item) == item.complete
migrated(item) == [item EXCEPT !.id = IF @ = None THEN GeneratedId ELSE @]

migrate(items) ==
    Gather(Len(items), {i \in 1 .. Len(items) : Complete(items[i])},
           [i \in 1 .. Len(items) |-> migrated(items[i])])

TypeGuard(e) == e.id # None /\ e.timestamp # BadDate /\ e.input # "missing"
isPersistedState(s) == s.isState /\ \A i \in 1 .. Len(s.history) : TypeGuard(s.history[i])

\* Otherwise deserializeHistoryEntry throws: null has no targetDate, and a list of
\* credits is taken to be there.
Readable(e) == e.input = "object" /\ e.targetDate # BadDate /\ "credits" \in e.lists

deserializeHistoryEntry(e) ==
    [id |-> e.id, timestamp |-> e.timestamp, targetDate |-> e.targetDate,
     items |-> [name \in ListName |-> IF name \in e.lists THEN migrate(e.items[name]) ELSE <<>>],
     statement |-> e.statement,
     transactionDate |-> IF e.transactionDate = BadDate THEN e.timestamp ELSE e.transactionDate]

\* One entry that cannot be read, and there is no history; the storage is left as
\* it is until the next change.
merge(s) ==
    IF isPersistedState(s) /\ \A i \in 1 .. Len(s.history) : Readable(s.history[i])
       THEN [i \in 1 .. Len(s.history) |-> deserializeHistoryEntry(s.history[i])]
       ELSE <<>>

------------------------------------------------------------------------------
(* Writing.                                                                  *)

ListsWritten_Used(entry) == {name \in ListName : entry.items[name] # <<>>}
ListsWritten(entry) == ListName

serializeHistoryEntry(entry) ==
    [id |-> entry.id, timestamp |-> entry.timestamp, input |-> "object",
     targetDate |-> entry.targetDate, lists |-> ListsWritten(entry), items |-> entry.items,
     statement |-> entry.statement, transactionDate |-> entry.transactionDate]

partialize(history) ==
    [isState |-> TRUE,
     history |-> [i \in 1 .. Len(history) |-> serializeHistoryEntry(history[i])]]

\* A tab whose user takes turns has been loaded since another one wrote.
UpToDate(tab) == inTurn => memory[tab] = merge(stored)

set(tab, history) ==
    /\ UpToDate(tab)
    /\ memory' = [memory EXCEPT ![tab] = history]
    /\ stored' = partialize(history)
    /\ lastWriter' = tab
    /\ UNCHANGED <<inTurn, foundSound>>

------------------------------------------------------------------------------
(* The store's operations, in a tab.                                         *)

IdsOf(history) == {history[i].id : i \in 1 .. Len(history)}
UsedIds == UNION {IdsOf(memory[tab]) : tab \in Tab} \cup IdsOf(stored.history)

With(entry, content) ==
    [id |-> entry.id, timestamp |-> entry.timestamp, targetDate |-> content.targetDate,
     items |-> content.items, statement |-> content.statement,
     transactionDate |-> content.transactionDate]

FirstOf_All(history) == history
FirstOf(history) == IF Len(history) > MAX_ENTRIES THEN SubSeq(history, 1, MAX_ENTRIES) ELSE history

addEntry(tab) ==
    \E id \in EntryId \ UsedIds, now \in Now, content \in Content :
        LET newEntry == With([id |-> id, timestamp |-> now], content)
        IN  set(tab, FirstOf(<<newEntry>> \o memory[tab]))

\* The page updates the entry it shows, which may have been deleted.
updateEntry(tab) ==
    \E id \in EntryId, content \in Content :
        set(tab, [i \in 1 .. Len(memory[tab]) |->
                     IF memory[tab][i].id = id THEN With(memory[tab][i], content) ELSE memory[tab][i]])

\* The entries of other ids.
Without(history, id) ==
    Gather(Len(history), {i \in 1 .. Len(history) : history[i].id # id}, history)

deleteEntry(tab) == \E id \in IdsOf(memory[tab]) : set(tab, Without(memory[tab], id))

clearHistory(tab) == set(tab, <<>>)

\* The tab is loaded, or loaded again.
Load(tab) ==
    /\ memory' = [memory EXCEPT ![tab] = merge(stored)]
    /\ UNCHANGED <<stored, lastWriter, inTurn, foundSound>>

Init ==
    /\ stored \in Written
    /\ memory = [tab \in Tab |-> merge(stored)]
    /\ lastWriter = NoTab
    /\ inTurn \in BOOLEAN
    /\ foundSound = Sound(stored.history)

Next ==
    \E tab \in Tab :
        \/ addEntry(tab) \/ updateEntry(tab) \/ deleteEntry(tab) \/ clearHistory(tab)
        \/ Load(tab)

Spec == Init /\ [][Next]_vars

------------------------------------------------------------------------------
(* Properties.                                                               *)

\* A tab holds complete entries, whatever it read them from, and if the storage
\* was sound to begin with, no more than MAX_ENTRIES of them and each with an id
\* of its own.  (What is read is checked for neither, so a longer history stays
\* one until an entry is added, and ids that are the same stay the same.)
TypeOK ==
    /\ \A tab \in Tab :
          /\ memory[tab] \in Seq(HistoryEntry)
          /\ foundSound => Sound(memory[tab])
    /\ stored \in StoredState
    /\ lastWriter \in Tab \cup {NoTab}
    /\ inTurn \in BOOLEAN /\ foundSound \in BOOLEAN

\* What the store writes it can read, and reads as what was written: a tab that is
\* loaded has the history of the one that wrote last, of entries of an older
\* version that one had read as of its own.
ReloadKeepsHistory == lastWriter # NoTab => merge(stored) = memory[lastWriter]

\* The tabs of a user who uses one at a time, and loads it before, make one list
\* of what the storage is read as.
OneList == INSTANCE HistoryList WITH list <- merge(stored)
ImplementsHistoryList == OneList!Spec
==============================================================================
