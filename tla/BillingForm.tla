---------------------------- MODULE BillingForm ----------------------------
(***************************************************************************)
(* The input form of the billing page (web/src/components/                 *)
(* BillingInputForm.tsx and sections/): what the user can enter, what he   *)
(* can send, and how a history entry comes back into it.                   *)
(*                                                                         *)
(* A step is one change, click or load with the render and the effects     *)
(* after it.  Items of a list are told by their place; texts that reach no *)
(* amount are left out, but for the two names without which nothing is     *)
(* sent.  Amounts are whole numbers.                                       *)
(*                                                                         *)
(* A Date is a number of hours since some first of a month, UTC.  offset   *)
(* is what the browser's time zone is ahead of it.                         *)
(***************************************************************************)
EXTENDS Integers, Sequences

CONSTANTS
    Offset,     \* time zones of a browser, hours
    Now,        \* times at which the form is opened
    Day,        \* days the user picks, from the same first of a month
    Typed,      \* numbers the user types
    Instance,   \* INSTANCE_TYPES
    Stored,     \* the inputs of the history entries of earlier sessions
    HasStatement,   \* those of the entries with a statement
    MaxItems,   \* bound: items in a list
    MaxEdits    \* bound: changes in a behaviour

ASSUME TimeAssumption == Offset \subseteq -12 .. 14 /\ Now \subseteq Nat /\ Day \subseteq Nat
ASSUME TypedAssumption == Typed \subseteq Int
ASSUME InstanceAssumption == Instance \subseteq STRING
ASSUME EntryAssumption == HasStatement \subseteq DOMAIN Stored
ASSUME FormBoundsAssumption == MaxItems \in Nat /\ MaxEdits \in Nat

VARIABLES
    offset,
    form,           \* the state of BillingInputForm, while it is mounted
    activeSection,  \* page.tsx; the form is mounted in "input", "statement" is also "payment"
    source,         \* which object BillingContext's billingInput is, NoInput for null
    billingInput,   \* what is in it
    calculated,     \* is there a calculatedStatement?  BillingContext
    error,          \* BillingContext
    edits           \* bound

formVars == <<offset, form, activeSection, source, billingInput, calculated, error, edits>>

\* An entry's input is one object; a calculation makes a new one.
NoInput == "null"
Sent == "sent"
NotPicked == -1

UsageEntry == [counterName : Instance, counterVolume : Nat]
AdjustmentEntry ==
    [legacy : {FALSE}, type : {"DISCOUNT", "SURCHARGE"}, method : {"FIXED", "RATE"}, value : Nat]

\* picked is a history: the day picked for targetDate, if one was.
BillingInput ==
    [targetDate : Nat, picked : Nat \cup {NotPicked}, named : BOOLEAN,
     unpaidAmount : Nat, isOverdue : BOOLEAN,
     usage : Seq(UsageEntry), credits : Seq(Nat), adjustments : Seq(AdjustmentEntry)]

\* What a session saved is what its form sent (HistoryStorage); which day of it was
\* picked is not known.
ASSUME StoredAssumption ==
    \A entry \in DOMAIN Stored : Stored[entry] \in BillingInput /\ Stored[entry].picked = NotPicked

\* BILLING_FORM_DEFAULTS, and the present time.
Defaults(now) ==
    [targetDate |-> now, picked |-> NotPicked, named |-> TRUE, unpaidAmount |-> 0,
     isOverdue |-> FALSE, usage |-> <<>>, credits |-> <<>>, adjustments |-> <<>>]

------------------------------------------------------------------------------
(* Dates.                                                                    *)

\* format(targetDate, 'yyyy-MM-dd') is local; valueAsDate is midnight UTC.
shownDay(date) == (date + offset) \div 24
valueAsDate_Local(day) == day * 24 - offset
valueAsDate(day) == day * 24

------------------------------------------------------------------------------
(* Changes.                                                                  *)

Mounted == activeSection = "input"

Edit(newForm) ==
    /\ Mounted /\ edits < MaxEdits
    /\ edits' = edits + 1
    /\ form' = newForm
    /\ UNCHANGED <<offset, activeSection, source, billingInput, calculated, error>>

Without(list, i) == SubSeq(list, 1, i - 1) \o SubSeq(list, i + 1, Len(list))

setTargetDate ==
    \E day \in Day : Edit([form EXCEPT !.targetDate = valueAsDate(day), !.picked = day])

\* A name may be emptied, or filled in again.
setNames == Edit([form EXCEPT !.named = ~@])

AtLeastZero(n) == IF n < 0 THEN 0 ELSE n

\* A negative number is not taken over.
setUnpaidAmount == \E n \in Typed : n >= 0 /\ Edit([form EXCEPT !.unpaidAmount = n])

setIsOverdue == Edit([form EXCEPT !.isOverdue = ~@])

addUsage ==
    /\ Len(form.usage) < MaxItems
    /\ \E default \in Instance :
          Edit([form EXCEPT !.usage = Append(@, [counterName |-> default, counterVolume |-> 0])])

removeUsage == \E i \in DOMAIN form.usage : Edit([form EXCEPT !.usage = Without(@, i)])

\* A negative number becomes zero.
updateUsage ==
    \E i \in DOMAIN form.usage, n \in Typed :
        Edit([form EXCEPT !.usage[i].counterVolume = AtLeastZero(n)])

updateInstanceType ==
    \E i \in DOMAIN form.usage, name \in Instance :
        Edit([form EXCEPT !.usage[i].counterName = name])

addCredit == Len(form.credits) < MaxItems /\ Edit([form EXCEPT !.credits = Append(@, 0)])

removeCredit == \E i \in DOMAIN form.credits : Edit([form EXCEPT !.credits = Without(@, i)])

updateCredit_Signed == \E i \in DOMAIN form.credits, n \in Typed : Edit([form EXCEPT !.credits[i] = n])
updateCredit ==
    \E i \in DOMAIN form.credits, n \in Typed : n >= 0 /\ Edit([form EXCEPT !.credits[i] = n])

addAdjustment ==
    /\ Len(form.adjustments) < MaxItems
    /\ Edit([form EXCEPT !.adjustments =
                Append(@, [legacy |-> FALSE, type |-> "DISCOUNT", method |-> "RATE", value |-> 0])])

removeAdjustment ==
    \E i \in DOMAIN form.adjustments : Edit([form EXCEPT !.adjustments = Without(@, i)])

updateAdjustmentType ==
    \E i \in DOMAIN form.adjustments, type \in {"DISCOUNT", "SURCHARGE"} :
        Edit([form EXCEPT !.adjustments[i].type = type])

\* The value stays: a fixed amount of 1000 becomes 1000 percent.
updateAdjustmentMethod ==
    \E i \in DOMAIN form.adjustments, method \in {"FIXED", "RATE"} :
        Edit([form EXCEPT !.adjustments[i].method = method])

AtMostHundred(n) == IF n > 100 THEN 100 ELSE n

updateAdjustmentValue ==
    \E i \in DOMAIN form.adjustments, n \in Typed :
        LET clamped == IF form.adjustments[i].method = "RATE" THEN AtMostHundred(AtLeastZero(n))
                                                              ELSE AtLeastZero(n)
        IN  Edit([form EXCEPT !.adjustments[i].value = clamped])

------------------------------------------------------------------------------
(* Calculating, and what the page does with the form.                        *)

Sendable == form.named /\ form.usage # <<>>

RefuseCalculate ==
    /\ Mounted /\ ~Sendable
    /\ error' = "VALIDATION_ERROR"
    /\ UNCHANGED <<offset, form, activeSection, source, billingInput, calculated, edits>>

\* The effect after it writes the same values back into the form.
handleCalculate ==
    /\ Mounted /\ Sendable
    /\ error' = "none"
    /\ source' = Sent /\ billingInput' = form
    /\ UNCHANGED <<offset, form, activeSection, calculated, edits>>

\* The answer came, or did not.
onComplete ==
    /\ calculated' = TRUE
    /\ activeSection' = "statement"
    /\ error' = "none"
    /\ UNCHANGED <<offset, form, source, billingInput, edits>>

CalculationFailed ==
    /\ error' = "CALCULATION_ERROR"
    /\ UNCHANGED <<offset, form, activeSection, source, billingInput, calculated, edits>>

\* The steps above the sections lead to the statement and the payment, if there is
\* one to show.  What was edited and not sent is gone with the form.
LeaveForm ==
    /\ Mounted /\ calculated
    /\ activeSection' = "statement"
    /\ UNCHANGED <<offset, form, source, billingInput, calculated, error, edits>>

\* On mounting, the defaults, then the effect: the context's input if it has one.
OpenForm ==
    /\ ~Mounted
    /\ activeSection' = "input"
    /\ IF source = NoInput
          THEN \E now \in Now : form' = Defaults(now)
          ELSE form' = billingInput
    /\ UNCHANGED <<offset, source, billingInput, calculated, error, edits>>

\* Of a statement that has been paid: the context is as at first.
StartNew ==
    /\ ~Mounted /\ calculated
    /\ activeSection' = "input"
    /\ source' = NoInput
    /\ \E now \in Now : form' = Defaults(now)
    /\ billingInput' = form'
    /\ calculated' = FALSE
    /\ error' = "none"
    /\ UNCHANGED <<offset, edits>>

\* An entry without a statement opens the form; the effect takes its input over
\* unless it is the object the context already had, whatever was edited since.
LoadEntry ==
    \E entry \in DOMAIN Stored :
        /\ source' = entry /\ billingInput' = Stored[entry]
        /\ activeSection' = IF entry \in HasStatement THEN "statement" ELSE "input"
        /\ form' = IF Mounted /\ source = entry THEN form ELSE Stored[entry]
        /\ calculated' = (entry \in HasStatement)
        /\ error' = "none"
        /\ UNCHANGED <<offset, edits>>

InitForm ==
    /\ offset \in Offset
    /\ activeSection = "input"
    /\ source = NoInput
    /\ \E now \in Now : form = Defaults(now)
    /\ billingInput = form
    /\ calculated = FALSE
    /\ error = "none"
    /\ edits = 0

Change ==
    \/ setTargetDate \/ setNames \/ setUnpaidAmount \/ setIsOverdue
    \/ addUsage \/ removeUsage \/ updateUsage \/ updateInstanceType
    \/ addCredit \/ removeCredit \/ updateCredit
    \/ addAdjustment \/ removeAdjustment
    \/ updateAdjustmentType \/ updateAdjustmentMethod \/ updateAdjustmentValue
==============================================================================
