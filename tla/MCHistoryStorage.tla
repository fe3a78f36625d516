-------------------------- MODULE MCHistoryStorage --------------------------
(***************************************************************************)
(* Two tabs, and a storage left by an older version or damaged, or with    *)
(* more entries than the store keeps, or two of the same id.               *)
(***************************************************************************)
EXTENDS HistoryStorage

ItemOf(complete, id) == [complete |-> complete, id |-> id]
Lists(usage, credits, adjustments) ==
    [name \in ListName |->
        CASE name = "usage" -> usage [] name = "credits" -> credits [] name = "adjustments" -> adjustments]

\* Calculated, and paid for.
MCContent ==
    {[targetDate |-> 5, items |-> Lists(<<ItemOf(TRUE, 1)>>, <<>>, <<>>),
      statement |-> 1, transactionDate |-> None],
     [targetDate |-> 6, items |-> Lists(<<ItemOf(TRUE, 1)>>, <<ItemOf(TRUE, 2)>>, <<>>),
      statement |-> 1, transactionDate |-> 7]}

\* Complete, with an item that is not and one without an id.
Old ==
    [id |-> 1, timestamp |-> 3, input |-> "object", targetDate |-> 2, lists |-> ListName,
     items |-> Lists(<<ItemOf(TRUE, None)>>, <<ItemOf(FALSE, 1), ItemOf(TRUE, 2)>>, <<>>),
     statement |-> None, transactionDate |-> None]

\* With one thing missing or damaged.
Damaged ==
    {[Old EXCEPT !.id = None], [Old EXCEPT !.timestamp = BadDate],
     [Old EXCEPT !.input = "null"], [Old EXCEPT !.input = "missing"],
     [Old EXCEPT !.targetDate = BadDate], [Old EXCEPT !.transactionDate = BadDate],
     [Old EXCEPT !.lists = {"usage", "adjustments"}], [Old EXCEPT !.lists = {"credits"}]}

\* More than MAX_ENTRIES of them, and an id that is that of two.
Unsound ==
    {<<[Old EXCEPT !.id = 2], Old, [Old EXCEPT !.id = 3]>>,
     <<Old, [Old EXCEPT !.timestamp = 4], [Old EXCEPT !.id = 2]>>,
     <<[Old EXCEPT !.timestamp = 4], Old>>}

MCWritten ==
    {NoState} \cup
    {[isState |-> TRUE, history |-> <<[Old EXCEPT !.id = 2], e>>] : e \in {Old} \cup Damaged}
    \cup {[isState |-> TRUE, history |-> h] : h \in Unsound}
=============================================================================
