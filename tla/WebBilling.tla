----------------------------- MODULE WebBilling -----------------------------
(***************************************************************************)
(* The billing calculator's page in the browser: the billing context       *)
(* (web/src/contexts/BillingContext.tsx), the form and the payment section *)
(* that call the API and await its answers, the history persisted by       *)
(* web/src/stores/historyStore.ts, and the effect of web/src/app/page.tsx  *)
(* that keeps an entry of that history equal to what the page shows.       *)
(*                                                                         *)
(* A calculation is told by its number: input n is what the user submitted *)
(* in it, statement n what the API answered to that (statement ids are     *)
(* unique).  Of an input only what the effect compares is kept: its form,  *)
(* that is uuid, billing group and date.  A payment is told by its number, *)
(* and payments says which statement each was for.                         *)
(*                                                                         *)
(* Granularity.  The browser runs one handler at a time, up to an await;   *)
(* React batches the updates a handler makes, so a step is a handler, or   *)
(* what follows an await in it, with the render and the effect after it.   *)
(* The sections of the page are not modelled: the step indicator opens any *)
(* of them at any time, which also re-enables a payment button.            *)
(***************************************************************************)
EXTENDS Integers, Sequences

CONSTANTS
    User,             \* the users considered, see below
    Form,             \* forms an input can have
    MAX_ENTRIES,      \* entries the history keeps
    MaxCalculations,  \* bound: calculations in a behaviour
    MaxPayments       \* bound: payments in a behaviour

\* A "hasty" user does whatever the page lets him do.  A "steady" one does
\* nothing while an answer is awaited, and stays on the page.  A "patient" one,
\* besides, starts a new calculation only when no statement is shown.
ASSUME UserAssumption == User \subseteq {"hasty", "steady", "patient"}
ASSUME HistoryAssumption == MAX_ENTRIES \in Nat \ {0}
ASSUME BoundsAssumption == MaxCalculations \in Nat /\ MaxPayments \in Nat

VARIABLES
    user,                 \* the user of this behaviour
    billingInput,         \* BillingContext: the input, None if null
    calculatedStatement,  \* BillingContext: the statement shown
    paymentResult,        \* BillingContext: the payment shown
    isCalculating,        \* BillingContext: the calculate button is disabled
    onPage,               \* the page is mounted (not /docs and the like)
    lastSaved,            \* lastSavedRef: key of what was saved last
    savedEntry,           \* savedEntryIdRef: the entry it was saved in
    history,              \* the persisted entries, newest first
    forms,                \* forms[n]: the form of input n
    calculating,          \* calculations whose answer is awaited
    payments,             \* payments[p]: the statement payment p is for
    paying                \* payments whose answer is awaited

context == <<billingInput, calculatedStatement, paymentResult>>
refs == <<lastSaved, savedEntry>>
requests == <<forms, calculating, payments, paying>>
vars == <<user, context, isCalculating, onPage, refs, history, requests>>

(* Operators named Thing_Bug are mutants of Thing. *)

None == 0
Number == 1 .. MaxCalculations + 1
Payment == 1 .. MaxPayments
\* Ids are random in the code; here an unused one of as many as can be in use.
EntryId == 1 .. MAX_ENTRIES + 2

\* undefined, and the key of an input with a statement.
Unsaved == <<>>
EntryKey(input, statement) == <<forms'[input], statement>>

Entry == [id : EntryId, input : Number, statement : Number \cup {None},
          payment : Payment \cup {None}]

Waiting == calculating # {} \/ paying # {}
Quiet == user # "hasty" => ~Waiting

------------------------------------------------------------------------------
(* historyStore. *)

addEntry(h, e) == SubSeq(<<e>> \o h, 1, IF Len(h) < MAX_ENTRIES THEN Len(h) + 1 ELSE Len(h))

updateEntry_KeepsInput(h, e) ==
    [i \in 1 .. Len(h) |-> IF h[i].id = e.id THEN [e EXCEPT !.input = h[i].input] ELSE h[i]]
updateEntry(h, e) == [i \in 1 .. Len(h) |-> IF h[i].id = e.id THEN e ELSE h[i]]

\* The code keeps the entries of other ids; an id is that of one entry (updateEntry
\* leaves ids alone, addEntry brings an unused one).
deleteEntry(h, i) == SubSeq(h, 1, i - 1) \o SubSeq(h, i + 1, Len(h))

UnusedId(h) == CHOOSE id \in EntryId : id # savedEntry /\ \A i \in 1 .. Len(h) : h[i].id # id

------------------------------------------------------------------------------
(* The effect of the page. *)

\* What is to be saved, after the step: the context under an id.
Shown(id) == [id |-> id, input |-> billingInput', statement |-> calculatedStatement',
              payment |-> paymentResult']

\* The effect depends on input, statement and payment, and saves only when
\* there are an input and a statement.
Changed_NotPayment ==
    <<billingInput', calculatedStatement'>> # <<billingInput, calculatedStatement>>
Changed == context' # context
Saves(mounted) ==
    /\ onPage' /\ (mounted \/ Changed)
    /\ billingInput' # None /\ calculatedStatement' # None

\* The same calculation as the one saved last, or a loaded entry that had no
\* statement: that entry is updated.
Updates(last, saved) ==
    \/ last = EntryKey(billingInput', calculatedStatement')
    \/ last = Unsaved /\ saved # None

\* The effect, after a handler that has left the refs as given.
Effect(mounted, last, saved) ==
    \/ /\ ~Saves(mounted)
       /\ lastSaved' = last /\ savedEntry' = saved
       /\ UNCHANGED history
    \/ /\ Saves(mounted) /\ Updates(last, saved)
       /\ history' = updateEntry(history, Shown(saved))
       /\ lastSaved' = EntryKey(billingInput', calculatedStatement') /\ savedEntry' = saved
    \/ /\ Saves(mounted) /\ ~Updates(last, saved)
       /\ history' = addEntry(history, Shown(UnusedId(history)))
       /\ lastSaved' = EntryKey(billingInput', calculatedStatement')
       /\ savedEntry' = UnusedId(history)

\* The effect after a change of the context alone.
EffectOfContext == Effect(FALSE, lastSaved, savedEntry)

------------------------------------------------------------------------------
(* The form: handleCalculate.  (An input that is not valid is not submitted:  *)
(* only the message shown changes.)                                           *)

Calculate ==
    /\ onPage /\ ~isCalculating
    /\ Quiet
    /\ user = "patient" => calculatedStatement = None
    /\ Len(forms) <= MaxCalculations
    /\ \E f \in Form : forms' = Append(forms, f)
    /\ billingInput' = Len(forms')
    /\ isCalculating' = TRUE
    /\ calculating' = calculating \cup {Len(forms')}
    /\ UNCHANGED <<user, calculatedStatement, paymentResult, onPage, payments, paying>>
    /\ EffectOfContext

\* The answer is shown, whatever has become of the page meanwhile.
CalculationAnswered(n) ==
    /\ n \in calculating
    /\ calculating' = calculating \ {n}
    /\ calculatedStatement' = n
    /\ isCalculating' = FALSE
    /\ UNCHANGED <<user, billingInput, paymentResult, onPage, forms, payments, paying>>
    /\ EffectOfContext

\* An error status, a timeout, an answer that is not a statement.
CalculationFails_Busy(n) ==
    /\ n \in calculating
    /\ calculating' = calculating \ {n}
    /\ UNCHANGED <<user, context, isCalculating, onPage, refs, history, forms, payments, paying>>
CalculationFails(n) ==
    /\ n \in calculating
    /\ calculating' = calculating \ {n}
    /\ isCalculating' = FALSE
    /\ UNCHANGED <<user, context, onPage, refs, history, forms, payments, paying>>

------------------------------------------------------------------------------
(* The payment section. *)

Pay ==
    /\ onPage /\ calculatedStatement # None /\ paymentResult = None
    /\ Quiet
    /\ Len(payments) < MaxPayments
    /\ payments' = Append(payments, calculatedStatement)
    /\ paying' = paying \cup {Len(payments')}
    /\ UNCHANGED <<user, context, isCalculating, onPage, refs, history, forms, calculating>>

PaymentAnswered(p) ==
    /\ p \in paying
    /\ paying' = paying \ {p}
    /\ paymentResult' = p
    /\ UNCHANGED <<user, billingInput, calculatedStatement, isCalculating, onPage,
                   forms, calculating, payments>>
    /\ EffectOfContext

PaymentFails(p) ==
    /\ p \in paying
    /\ paying' = paying \ {p}
    /\ UNCHANGED <<user, context, isCalculating, onPage, refs, history, forms, calculating, payments>>

\* Start New Calculation: RESET, which leaves the refs.
StartNew ==
    /\ onPage /\ calculatedStatement # None /\ paymentResult # None
    /\ Quiet
    /\ billingInput' = None /\ calculatedStatement' = None /\ paymentResult' = None
    /\ isCalculating' = FALSE
    /\ UNCHANGED <<user, onPage, requests>>
    /\ EffectOfContext

------------------------------------------------------------------------------
(* The history panel. *)

\* handleLoadHistoryEntry.
LoadedKey(e) == IF e.statement = None THEN Unsaved ELSE <<forms[e.input], e.statement>>
LoadedPayment_Dropped(e) == None
LoadedPayment(e) == IF e.statement = None THEN None ELSE e.payment

LoadEntry ==
    /\ onPage /\ Quiet
    /\ \E i \in 1 .. Len(history) :
        LET e == history[i]
        IN  /\ billingInput' = e.input
            /\ calculatedStatement' = e.statement
            /\ paymentResult' = LoadedPayment(e)
            /\ UNCHANGED <<user, isCalculating, onPage, requests>>
            /\ Effect(FALSE, LoadedKey(e), e.id)

DeleteEntry ==
    /\ onPage /\ Quiet
    /\ \E i \in 1 .. Len(history) : history' = deleteEntry(history, i)
    /\ UNCHANGED <<user, context, isCalculating, onPage, refs, requests>>

ClearHistory ==
    /\ onPage /\ Quiet
    /\ history # <<>>
    /\ history' = <<>>
    /\ UNCHANGED <<user, context, isCalculating, onPage, refs, requests>>

------------------------------------------------------------------------------
(* The browser. *)

\* A link to another page: the page and its refs are gone, the context, which
\* belongs to the layout, and the awaited answers are not.
LeavePage ==
    /\ onPage /\ user = "hasty"
    /\ onPage' = FALSE
    /\ lastSaved' = Unsaved /\ savedEntry' = None
    /\ UNCHANGED <<user, context, isCalculating, history, requests>>

\* The link back: the page is mounted again, and its effect runs.
ReturnToPage ==
    /\ ~onPage
    /\ onPage' = TRUE
    /\ UNCHANGED <<user, context, isCalculating, requests>>
    /\ Effect(TRUE, Unsaved, None)

\* The browser reloads the page: what is persisted is the history.
Reload ==
    /\ Quiet
    /\ onPage' = TRUE
    /\ billingInput' = None /\ calculatedStatement' = None /\ paymentResult' = None
    /\ isCalculating' = FALSE
    /\ lastSaved' = Unsaved /\ savedEntry' = None
    /\ calculating' = {} /\ paying' = {}
    /\ UNCHANGED <<user, history, forms, payments>>

\* The history is empty, or holds an entry without a statement, as the store
\* accepts one; its input counts as the first.
Init ==
    /\ user \in User
    /\ billingInput = None /\ calculatedStatement = None /\ paymentResult = None
    /\ isCalculating = FALSE
    /\ onPage = TRUE
    /\ lastSaved = Unsaved /\ savedEntry = None
    /\ \E f \in Form : forms = <<f>>
    /\ history \in {<<>>, <<[id |-> 1, input |-> 1, statement |-> None, payment |-> None]>>}
    /\ calculating = {}
    /\ payments = <<>>
    /\ paying = {}

Next ==
    \/ Calculate
    \/ \E n \in calculating : CalculationAnswered(n) \/ CalculationFails(n)
    \/ Pay
    \/ \E p \in paying : PaymentAnswered(p) \/ PaymentFails(p)
    \/ StartNew
    \/ LoadEntry
    \/ DeleteEntry
    \/ ClearHistory
    \/ LeavePage
    \/ ReturnToPage
    \/ Reload

Spec == Init /\ [][Next]_vars

------------------------------------------------------------------------------
(* Properties. *)

\* What the page shows is what the history will give back: an input with a
\* statement is saved, with the payment, in the entry the refs name, unless the
\* user deleted that entry or the history is past its limit.  Whatever the user
\* does while answers are awaited.
HistoryInSync ==
    onPage /\ billingInput # None /\ calculatedStatement # None =>
        /\ lastSaved = <<forms[billingInput], calculatedStatement>>
        /\ \A i \in 1 .. Len(history) : history[i].id = savedEntry =>
               history[i] = [id |-> savedEntry, input |-> billingInput,
                             statement |-> calculatedStatement, payment |-> paymentResult]

\* The calculate button is disabled only while an answer will enable it again.
ButtonComesBack == isCalculating => calculating # {}

\* A payment once recorded in an entry is not lost while the entry is there
\* (loading, recalculating and late answers all update entries).
PaidEntriesStayPaid ==
    [][\A i \in 1 .. Len(history), j \in 1 .. Len(history') :
          history[i].id = history'[j].id /\ history[i].payment # None
              => history'[j].payment # None]_vars

\* An entry's statement was computed from the entry's input.
StatementOfInput ==
    \A i \in 1 .. Len(history) : history[i].statement \in {None, history[i].input}

\* So it is at least once every calculation has been answered: "This handles
\* both recalculations (updated input/statement) and payments" (page.tsx).
\* False of a steady user: a recalculation writes its input into the entry of
\* the statement on the page, and its statement into an entry of its own.
RecalculationKeepsEntriesRight == calculating = {} => StatementOfInput

\* An entry's payment was made for the entry's statement; so was the one shown.
PaymentOfStatement ==
    /\ paymentResult # None => payments[paymentResult] = calculatedStatement
    /\ \A i \in 1 .. Len(history) :
          history[i].payment # None => payments[history[i].payment] = history[i].statement

\* A statement is in the history once ("to prevent duplicates", page.tsx).
NoDuplicates ==
    \A i, j \in 1 .. Len(history) :
        history[i].statement # None /\ history[i].statement = history[j].statement => i = j

\* A user who does one thing at a time has a history that is right: statements
\* belong to their inputs, payments to their statements, and no statement is there
\* twice.
PatientHistoryRight ==
    user = "patient" => StatementOfInput /\ PaymentOfStatement /\ NoDuplicates
==============================================================================
