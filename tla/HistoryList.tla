---------------------------- MODULE HistoryList ----------------------------
(***************************************************************************)
(* What the history of calculations promises: one list, newest first, to   *)
(* which an entry is added, and it is then MAX_ENTRIES long at most; in    *)
(* which the entry of an id is changed; and from which that, or all, are   *)
(* removed.  (Where several have the id, all those are changed or removed: *)
(* of the list it starts with nothing is asked.)                           *)
(*                                                                         *)
(* The promise is to a user whose tabs take turns, each starting from what *)
(* the last one left.  To another none is made.                            *)
(***************************************************************************)
EXTENDS Naturals, Sequences

CONSTANT MAX_ENTRIES

VARIABLES
    list,
    inTurn  \* do the tabs take turns?  It does not change.

vars == <<list, inTurn>>

Id(entries) == {entries[i].id : i \in 1 .. Len(entries)}

\* The entry it is about is the one the list then has.
Add ==
    /\ list' # <<>> /\ Head(list').id \notin Id(list)
    /\ LET longer == <<Head(list')>> \o list
       IN  list' = IF Len(longer) > MAX_ENTRIES THEN SubSeq(longer, 1, MAX_ENTRIES) ELSE longer

Update ==
    \E id \in Id(list) :
        /\ Len(list') = Len(list)
        /\ \A i \in 1 .. Len(list) :
              /\ list'[i].id = list[i].id /\ list'[i].timestamp = list[i].timestamp
              /\ list[i].id # id => list'[i] = list[i]

\* from is where in the list each entry that is left was.
Delete ==
    \E id \in Id(list) : \E from \in [1 .. Len(list') -> 1 .. Len(list)] :
        /\ {from[j] : j \in 1 .. Len(list')} = {i \in 1 .. Len(list) : list[i].id # id}
        /\ \A j, k \in 1 .. Len(list') : j < k => from[j] < from[k]
        /\ \A j \in 1 .. Len(list') : list'[j] = list[from[j]]

Clear == list' = <<>>

Init == inTurn \in BOOLEAN

Next == inTurn' = inTurn /\ (inTurn => Add \/ Update \/ Delete \/ Clear)

Spec == Init /\ [][Next]_vars
============================================================================
