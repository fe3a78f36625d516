--------------------------- MODULE WorkerBilling ---------------------------
(***************************************************************************)
(* The billing worker (workers/billing-api/src/index.ts): a request is     *)
(* turned into a statement, one adjustment, usage item or credit at a      *)
(* time.  The worker keeps nothing between requests and awaits only the    *)
(* body, so one request at a time is all there is to it.                   *)
(*                                                                         *)
(* Of a request what decides the amounts is kept.  A field the code gives  *)
(* a default (?? [], ?? 0, isOverdue === true) is given with it.  Nothing  *)
(* checks the sign of volumes, credits and unpaid amounts, so they are any *)
(* integers; an adjustment's value that is missing, not finite or negative *)
(* is refused, and a negative one stands for all of them.  Fractions of a  *)
(* Won, which a client may also send, are left out.                        *)
(*                                                                         *)
(* Amounts are doubles in the code.  On integers they are exact but for    *)
(* the product of an amount and a percentage: 100 * (29 / 100) is a little *)
(* less than 29, and floors to 28.  Short is the set of those pairs.       *)
(***************************************************************************)
EXTENDS Integers, Sequences

CONSTANTS
    Request,    \* bodies of POST .../admin/calculate
    VAT_RATE,   \* the setting, in percent: one value or several, see getVatRate
    Short       \* <<amount, percentage>> whose double product falls short

(* Operators named Thing_Bug are mutants of Thing. *)

AdjustmentType == {"DISCOUNT", "SURCHARGE"}
AdjustmentMethod == {"FIXED", "RATE"}

\* legacy: the item has adjustmentType and adjustmentValue for type and value.
AdjustmentItemInput ==
    [legacy : BOOLEAN, type : AdjustmentType \cup {"OTHER"},
     method : AdjustmentMethod \cup {"OTHER"}, value : Int]
AdjustmentItem == [type : AdjustmentType, method : AdjustmentMethod, value : Nat]
UsageItem == [counterName : STRING, counterVolume : Int]

\* A date is a number of hours since some first of a month, UTC.
BadDate == -1
BillingRequest ==
    [usage : Seq(UsageItem), credits : Seq(Int), adjustments : Seq(AdjustmentItemInput),
     unpaidAmount : Int, isOverdue : BOOLEAN, targetDate : Nat \cup {BadDate}]

ASSUME RequestAssumption == Request \subseteq BillingRequest
ASSUME VatAssumption == VAT_RATE \subseteq Int
ASSUME ShortAssumption ==
    /\ Short \subseteq (Int \X Nat)
    /\ \A p \in Short : p[1] >= 0 => p[1] * p[2] >= 100

VARIABLES
    pc,               \* what calculate() is doing
    request,          \* the body, NoRequest before one
    vatRate,          \* getVatRate(env)
    done,             \* items the present loop has been through
    normalized,       \* normalizedAdjustments
    subtotal, adjustmentTotal, chargeBeforeCredit, remainingCharge,
    appliedCredits,   \* applyCredits: amount applied and balance left, per credit
    status,           \* HTTP status of the last answer, 0 before one
    statement         \* the statement answered, EmptyStatement before one

loop == <<normalized, subtotal, adjustmentTotal, chargeBeforeCredit, remainingCharge, appliedCredits>>
vars == <<pc, request, vatRate, done, loop, status, statement>>

NoRequest == [usage |-> <<>>, credits |-> <<>>, adjustments |-> <<>>,
              unpaidAmount |-> 0, isOverdue |-> FALSE, targetDate |-> 0]

EmptyStatement == [lineItems |-> <<>>, appliedAdjustments |-> <<>>, appliedCredits |-> <<>>,
                month |-> 0, subtotal |-> 0, billingGroupDiscount |-> 0,
                adjustmentTotal |-> 0, creditApplied |-> 0, charge |-> 0, vat |-> 0,
                unpaidAmount |-> 0, lateFee |-> 0, totalAmount |-> 0]

------------------------------------------------------------------------------
(* Arithmetic. *)

DEFAULT_RATE == 10
LATE_FEE == 5

\* Math.floor(n * (p / 100)).
Percent(n, p) == IF <<n, p>> \in Short THEN (n * p) \div 100 - 1 ELSE (n * p) \div 100

\* Unset, not a number, negative: the default.
getVatRate(rate) == IF rate >= 0 THEN rate ELSE DEFAULT_RATE

DEFAULT_PRICE == 10000
getStoredUnitPrice(counterName) ==
    CASE counterName = "compute.c2.c8m8" -> 39700
      [] counterName = "compute.g2.t4.c8m64" -> 16667
      [] counterName = "storage.volume.ssd" -> 10000
      [] counterName = "network.floating_ip" -> 2500
      [] OTHER -> DEFAULT_PRICE

\* In hundredths of a Won, and floored once.
UsageAmount_UnitFloored(item) == item.counterVolume * (getStoredUnitPrice(item.counterName) \div 100)
UsageAmount(item) == (item.counterVolume * getStoredUnitPrice(item.counterName)) \div 100

AdjustmentAmount(adj, amount) ==
    IF adj.method = "FIXED" THEN adj.value ELSE Percent(amount, adj.value)

Signed(adj, amount) == IF adj.type = "DISCOUNT" THEN -amount ELSE amount

HoursPerMonth == 720
extractMonth(targetDate) == targetDate \div HoursPerMonth

------------------------------------------------------------------------------
(* A request is taken up, or answered at once.                               *)

Idle == pc \in {"idle", "answered"}

Take(body) ==
    /\ Idle
    /\ request' = body
    /\ \E rate \in VAT_RATE : vatRate' = getVatRate(rate)
    /\ pc' = "normalize"
    /\ done' = 0
    /\ normalized' = <<>> /\ appliedCredits' = <<>>
    /\ subtotal' = 0 /\ adjustmentTotal' = 0 /\ chargeBeforeCredit' = 0 /\ remainingCharge' = 0
    /\ status' = 0 /\ statement' = EmptyStatement

Receive == \E body \in Request : Take(body)

Answer(code) ==
    /\ pc' = "answered"
    /\ status' = code
    /\ UNCHANGED <<request, vatRate, done, loop, statement>>

AnswerAtOnce(code) ==
    /\ pc = "idle"
    /\ status' = code
    /\ UNCHANGED <<pc, request, vatRate, done, loop, statement>>

\* A body that is not JSON is a ValidationError; one that is null has no usage
\* to read, which is another kind of error.
ReceiveNotJson == AnswerAtOnce(400)
ReceiveNull == AnswerAtOnce(500)

\* The statements of a month are one, of nothing.
GetStatements == AnswerAtOnce(200)

\* A payment is answered with what it asks for; its errors, a body that is not
\* JSON among them, are all 500.
ProcessPayment == \E code \in {200, 500} : AnswerAtOnce(code)

------------------------------------------------------------------------------
(* AdjustmentService.normalize, for each adjustment.                         *)

Valid_AnyType(item) == item.method \in AdjustmentMethod /\ item.value >= 0
Valid(item) ==
    item.type \in AdjustmentType /\ item.method \in AdjustmentMethod /\ item.value >= 0

normalize(item) == [type |-> item.type, method |-> item.method, value |-> item.value]

Normalize ==
    /\ pc = "normalize" /\ done < Len(request.adjustments)
    /\ Valid(request.adjustments[done + 1])
    /\ normalized' = Append(normalized, normalize(request.adjustments[done + 1]))
    /\ done' = done + 1
    /\ UNCHANGED <<pc, request, vatRate, subtotal, adjustmentTotal, chargeBeforeCredit,
                   remainingCharge, appliedCredits, status, statement>>

NormalizeFails ==
    /\ pc = "normalize" /\ done < Len(request.adjustments)
    /\ ~Valid(request.adjustments[done + 1])
    /\ Answer(400)

GoTo(here, next) ==
    /\ pc = here
    /\ pc' = next
    /\ done' = 0

NormalizeDone ==
    /\ done = Len(request.adjustments)
    /\ GoTo("normalize", "subtotal")
    /\ UNCHANGED <<request, vatRate, loop, status, statement>>

------------------------------------------------------------------------------
(* calculateSubtotal, calculateTotal.                                        *)

AddUsage ==
    /\ pc = "subtotal" /\ done < Len(request.usage)
    /\ subtotal' = subtotal + UsageAmount(request.usage[done + 1])
    /\ done' = done + 1
    /\ UNCHANGED <<pc, request, vatRate, normalized, adjustmentTotal, chargeBeforeCredit,
                   remainingCharge, appliedCredits, status, statement>>

UsageDone ==
    /\ done = Len(request.usage)
    /\ GoTo("subtotal", "adjust")
    /\ UNCHANGED <<request, vatRate, loop, status, statement>>

\* Every adjustment is of the subtotal, not of what the ones before it left.
AdjustmentBase_Running == subtotal + adjustmentTotal
AdjustmentBase == subtotal

AddAdjustment ==
    /\ pc = "adjust" /\ done < Len(normalized)
    /\ LET adj == normalized[done + 1]
       IN  adjustmentTotal' = adjustmentTotal + Signed(adj, AdjustmentAmount(adj, AdjustmentBase))
    /\ done' = done + 1
    /\ UNCHANGED <<pc, request, vatRate, normalized, subtotal, chargeBeforeCredit,
                   remainingCharge, appliedCredits, status, statement>>

NotBelowZero_Unclamped(n) == n
NotBelowZero(n) == IF n > 0 THEN n ELSE 0

AdjustmentsDone ==
    /\ done = Len(normalized)
    /\ GoTo("adjust", "credit")
    /\ chargeBeforeCredit' = NotBelowZero(subtotal + adjustmentTotal)
    /\ remainingCharge' = chargeBeforeCredit'
    /\ UNCHANGED <<request, vatRate, normalized, subtotal, adjustmentTotal, appliedCredits,
                   status, statement>>

------------------------------------------------------------------------------
(* applyCredits.                                                             *)

AmountApplied(credit) == IF credit < remainingCharge THEN credit ELSE remainingCharge

ApplyCredit ==
    /\ pc = "credit" /\ done < Len(request.credits) /\ remainingCharge > 0
    /\ LET credit == request.credits[done + 1]
           amount == AmountApplied(credit)
       IN  /\ appliedCredits' = Append(appliedCredits,
                  [amountApplied |-> amount, remainingBalance |-> credit - amount])
           /\ remainingCharge' = remainingCharge - amount
    /\ done' = done + 1
    /\ UNCHANGED <<pc, request, vatRate, normalized, subtotal, adjustmentTotal,
                   chargeBeforeCredit, status, statement>>

CreditsDone_AfterFirst == done >= 1 \/ request.credits = <<>> \/ remainingCharge <= 0
CreditsDone == done = Len(request.credits) \/ remainingCharge <= 0

------------------------------------------------------------------------------
(* The statement.  Line items and adjustments are computed again for it.     *)

buildLineItems(usage) == [i \in 1 .. Len(usage) |-> UsageAmount(usage[i])]

buildAdjustmentItems(adjustments, amount) ==
    [i \in 1 .. Len(adjustments) |->
        [type |-> adjustments[i].type, amount |-> AdjustmentAmount(adjustments[i], amount)]]

LateFee ==
    IF request.isOverdue /\ request.unpaidAmount > 0 THEN Percent(request.unpaidAmount, LATE_FEE) ELSE 0

\* What a total is made of: charge, its VAT, and what was left from before.
TotalAmount == remainingCharge + Percent(remainingCharge, vatRate) + request.unpaidAmount + LateFee

Statement ==
    [lineItems |-> buildLineItems(request.usage),
     appliedAdjustments |-> buildAdjustmentItems(normalized, subtotal),
     appliedCredits |-> appliedCredits,
     month |-> extractMonth(request.targetDate),
     subtotal |-> subtotal,
     billingGroupDiscount |-> 0,
     adjustmentTotal |-> adjustmentTotal,
     creditApplied |-> chargeBeforeCredit - remainingCharge,
     charge |-> remainingCharge,
     vat |-> Percent(remainingCharge, vatRate),
     unpaidAmount |-> request.unpaidAmount,
     lateFee |-> LateFee,
     totalAmount |-> TotalAmount]

Respond ==
    /\ pc = "credit" /\ CreditsDone
    /\ request.targetDate # BadDate
    /\ pc' = "answered"
    /\ status' = 200
    /\ statement' = Statement
    /\ UNCHANGED <<request, vatRate, done, loop>>

\* extractMonth throws a ValidationError.
RespondFails ==
    /\ pc = "credit" /\ CreditsDone
    /\ request.targetDate = BadDate
    /\ Answer(400)

------------------------------------------------------------------------------

Init ==
    /\ pc = "idle"
    /\ request = NoRequest
    /\ vatRate = DEFAULT_RATE
    /\ done = 0
    /\ normalized = <<>> /\ appliedCredits = <<>>
    /\ subtotal = 0 /\ adjustmentTotal = 0 /\ chargeBeforeCredit = 0 /\ remainingCharge = 0
    /\ status = 0 /\ statement = EmptyStatement

Calculate ==
    \/ Normalize \/ NormalizeFails \/ NormalizeDone
    \/ AddUsage \/ UsageDone
    \/ AddAdjustment \/ AdjustmentsDone
    \/ ApplyCredit
    \/ Respond \/ RespondFails

Next ==
    \/ Receive \/ ReceiveNotJson \/ ReceiveNull
    \/ ProcessPayment \/ GetStatements
    \/ Calculate

Spec == Init /\ [][Next]_vars

------------------------------------------------------------------------------
(* Properties.                                                               *)

Amount == [amountApplied : Int, remainingBalance : Int]

\* Every variable has its type; amounts may be negative where inputs may.
TypeOK ==
    /\ pc \in {"idle", "normalize", "subtotal", "adjust", "credit", "answered"}
    /\ request \in BillingRequest
    /\ vatRate \in Nat
    /\ done \in Nat
    /\ normalized \in Seq(AdjustmentItem)
    /\ subtotal \in Int /\ adjustmentTotal \in Int
    /\ chargeBeforeCredit \in Nat /\ remainingCharge \in Nat
    /\ appliedCredits \in Seq(Amount)
    /\ status \in {0, 200, 400, 500}

Calculated == pc = "answered" /\ status = 200

NoDebts(credits) == \A i \in 1 .. Len(credits) : credits[i] >= 0

\* The credits of a request are spent one after the other and only as far as the
\* charge goes (applyCredits, index.ts:541): each is split into what was applied
\* and what is left, one is touched only when those before it are used up, and a
\* charge remains only when all of them are.
CreditsSpentInOrder ==
    /\ Len(appliedCredits) <= Len(request.credits)
    /\ \A i \in 1 .. Len(appliedCredits) :
           appliedCredits[i].amountApplied + appliedCredits[i].remainingBalance = request.credits[i]
    /\ NoDebts(request.credits) =>
           \A i \in 1 .. Len(appliedCredits) :
              /\ appliedCredits[i].amountApplied >= 0 /\ appliedCredits[i].remainingBalance >= 0
              /\ i < Len(appliedCredits) \/ remainingCharge > 0 =>
                    appliedCredits[i].remainingBalance = 0
    /\ Calculated /\ remainingCharge > 0 => Len(appliedCredits) = Len(request.credits)

SumOf(s) == LET sum[i \in 0 .. Len(s)] == IF i = 0 THEN 0 ELSE sum[i - 1] + s[i] IN sum[Len(s)]

SignedAmounts(items) == [i \in 1 .. Len(items) |-> Signed(items[i], items[i].amount)]
AmountsApplied(credits) == [i \in 1 .. Len(credits) |-> credits[i].amountApplied]

\* The parts of a statement add up to its figures: line items and adjustments are
\* computed a second time for it (buildLineItems, buildAdjustmentItems), and the
\* credit it says was applied is what the credits say was taken from them.
StatementAddsUp ==
    Calculated =>
        /\ SumOf(statement.lineItems) = statement.subtotal
        /\ SumOf(SignedAmounts(statement.appliedAdjustments)) = statement.adjustmentTotal
        /\ SumOf(AmountsApplied(statement.appliedCredits)) = statement.creditApplied
        /\ statement.charge =
               NotBelowZero(statement.subtotal + statement.adjustmentTotal) - statement.creditApplied
        /\ statement.totalAmount =
               statement.charge + statement.vat + statement.unpaidAmount + statement.lateFee

Distance(a, b) == IF a < b THEN b - a ELSE a - b

ExactAmount(item) == item.counterVolume * getStoredUnitPrice(item.counterName)
ExactAdjustment(adj, exactSubtotal) ==
    Signed(adj, IF adj.method = "FIXED" THEN adj.value * 100 ELSE (exactSubtotal * adj.value) \div 100)

\* The total without any floor, in hundredths of a Won; each \div is off by less
\* than one hundredth.
ExactTotal ==
    LET exactSubtotal == SumOf([i \in 1 .. Len(request.usage) |-> ExactAmount(request.usage[i])])
        adjustments == [i \in 1 .. Len(normalized) |-> ExactAdjustment(normalized[i], exactSubtotal)]
        before == NotBelowZero(exactSubtotal + SumOf(adjustments))
        after == IF NoDebts(request.credits)
                    THEN NotBelowZero(before - 100 * SumOf(request.credits))
                    ELSE before - statement.creditApplied * 100
        late == IF request.isOverdue /\ request.unpaidAmount > 0 THEN request.unpaidAmount * LATE_FEE ELSE 0
    IN  after + (after * vatRate) \div 100 + request.unpaidAmount * 100 + late

Rate(adj) == IF adj.method = "RATE" THEN adj.value ELSE 0

\* What the floors may cost, in hundredths: less than a Won for each usage item,
\* and through the rates on it; two (and the hundredth above) for each percentage.
RoundingAllowance ==
    LET rates == SumOf([i \in 1 .. Len(normalized) |-> Rate(normalized[i])])
        charge == Len(request.usage) * (100 + rates) + 201 * Len(normalized)
    IN  charge + (charge * vatRate) \div 100 + 402

\* The floors taken at every step (index.ts:475, 524, 588, 591) do not build up: the
\* total is that of exact arithmetic but for a Won or two for each of them.
RoundingBounded == Calculated => Distance(100 * statement.totalAmount, ExactTotal) <= RoundingAllowance

\* Requests the web form sends: nothing negative, adjustments of the present
\* format, and a date.  Volumes, credits and the unpaid amount are numbers the
\* form keeps from going below zero; a rate may be above 100.
AcceptedInput(req) ==
    /\ \A i \in 1 .. Len(req.usage) : req.usage[i].counterVolume >= 0
    /\ NoDebts(req.credits)
    /\ \A i \in 1 .. Len(req.adjustments) : Valid(req.adjustments[i])
    /\ req.unpaidAmount >= 0
    /\ req.targetDate # BadDate

\* Such a request is answered with a statement, never refused, and nothing in it
\* is negative but the adjustments, however large discounts and credits are.
AcceptedInputAnswered ==
    AcceptedInput(request) /\ pc = "answered" =>
        /\ status = 200
        /\ statement.subtotal >= 0 /\ statement.creditApplied >= 0
        /\ statement.charge >= 0 /\ statement.vat >= 0
        /\ statement.lateFee >= 0
        /\ statement.totalAmount >= statement.unpaidAmount
==============================================================================
