----------------------------- MODULE MockCredits -----------------------------
(***************************************************************************)
(* The credits and the statements of one account (one uuid) in the mock    *)
(* billing server, mock_server/app.py: a Flask application served by the   *)
(* six threads of waitress (run_server.py), whose state is plain dicts.    *)
(*                                                                         *)
(* An account's credits are a dict found in credit_data under its uuid.    *)
(* Requests keep a reference to that dict while others replace it, so the  *)
(* dicts are modelled by identity: ledgers is the heap of them, and        *)
(* credit_data names the one the account has now.  There are two shapes:   *)
(*   "flat"    {totalAmount, usedAmount, restAmount}, written by the       *)
(*             grants; its figures are in the bucket "FLAT";               *)
(*   "byType"  {PROMOTIONAL: {...}, FREE: {...}, PAID: {...}}, written by  *)
(*             the calculation.  Its "FLAT" bucket stands for the stray    *)
(*             usedAmount/restAmount keys the billing detail can put there *)
(*             (an absent key reads as 0 in the code, hence 0 here).       *)
(*                                                                         *)
(* Granularity.  Under CPython's GIL a thread can lose control at a call,  *)
(* at the end of a loop iteration or when it takes the lock, and nowhere   *)
(* else; a step below runs from one such point to the next that matters.   *)
(* The figures themselves are abstracted: VAT is a function of the charge  *)
(* and is left out, so a bill's total is its charge.                       *)
(***************************************************************************)
EXTENDS Integers, Sequences, FiniteSets

CONSTANTS
    Worker,      \* the threads that serve requests
    NoOne,       \* not a thread: nobody owns the stored bill
    Threaded,    \* TRUE: requests overlap; FALSE: one request at a time
    Endpoint,    \* the statement endpoints the clients call
    Grant,       \* amounts of grants, and of the credits of a calculation,
                 \* of which no handler checks the sign
    Charge,      \* charges of a statement before credits; adjustments, a
                 \* contract's rate above 1 or a negative counterVolume,
                 \* which nothing checks, make one negative
    MaxLedgers,  \* bound: how many credit dicts are ever created
    MaxItems,    \* bound: how many credits a calculation carries
    MaxReturned  \* bound: how far negative charges lower the credit given

StatementEndpoint == {"detail", "console", "payments"}

ASSUME WorkerAssumption == IsFiniteSet(Worker) /\ Worker # {} /\ NoOne \notin Worker
ASSUME ThreadedAssumption == Threaded \in BOOLEAN
ASSUME EndpointAssumption == Endpoint \subseteq StatementEndpoint
ASSUME GrantAssumption == Grant \subseteq Int
ASSUME ChargeAssumption == Charge \subseteq Int
ASSUME MaxLedgersAssumption == MaxLedgers \in Nat \ {0}
ASSUME MaxItemsAssumption == MaxItems \in Nat
ASSUME MaxReturnedAssumption == MaxReturned \in Nat

VARIABLES
    kind,         \* kind[l]: the shape of the credit dict l
    ledgers,      \* ledgers[l][b]: the figures of bucket b of dict l
    allocated,    \* the dicts created so far are 1 .. allocated
    credit_data,  \* the account's current dict, NoLedger when it has none
    billing_data, \* the bill stored for the month and the request it is of
    req,          \* what each thread is executing
    quoted,       \* history: total of the last statement answered
    discounted    \* history: all the credit ever taken off statements, less
                  \* what negative ones gave back

vars == <<kind, ledgers, allocated, credit_data, billing_data, req, quoted, discounted>>

------------------------------------------------------------------------------
(* Data. *)
(* Operators named Thing_Bug are mutants: Thing with a bug it could have    *)
(* had, which some property below must notice (see PROJECT.json).          *)

CreditPriority_PaidFirst == <<"PAID", "FREE", "PROMOTIONAL">>
CreditPriority == <<"PROMOTIONAL", "FREE", "PAID">>
CreditType == {"PROMOTIONAL", "FREE", "PAID"}
Bucket == CreditType \cup {"FLAT"}

LedgerId == 1 .. MaxLedgers
NoLedger == 0

Account == [total : Int, used : Int, rest : Int]
Granted(n) == [total |-> n, used |-> 0, rest |-> n]

\* The dict create_calculation installs: three empty accounts.
EmptyByType == [b \in Bucket |-> Granted(0)]

\* generate_credit_data: whatever had been used, a new dict starts unused.
generate_credit_data(n) == [b \in Bucket |-> IF b = "FLAT" THEN Granted(n) ELSE Granted(0)]

\* min(rest, charge): the credit a request decides to use.
CreditToUse_WholeCharge(rest, charge) == charge
CreditToUse(rest, charge) == IF rest < charge THEN rest ELSE charge

\* What the calculation does to one type's account for a credit it loads.
Loaded(a, n) == [a EXCEPT !.total = @ + n, !.rest = @ + n]

\* What the locked update of _apply_credits does to one type's account.
Debited_Clamped(a, n) ==
    [a EXCEPT !.used = @ + n, !.rest = IF @ < n THEN 0 ELSE @ - n]
Debited(a, n) == [a EXCEPT !.used = @ + n, !.rest = @ - n]

\* What the locked update of _apply_credits_to_billing does to a flat account:
\* rest is computed anew from the total, and never below 0.
DebitedFlat_Overwrites(a, n) ==
    [a EXCEPT !.used = n, !.rest = IF a.total < n THEN 0 ELSE a.total - n]
DebitedFlat(a, n) ==
    [a EXCEPT !.used = @ + n, !.rest = IF a.total < a.used + n THEN 0 ELSE a.total - (a.used + n)]

NoBill == [owner |-> NoOne, total |-> 0]

NoQuote == [given |-> FALSE, total |-> 0]
Quote(n) == [given |-> TRUE, total |-> n]

(* A request in progress: the handler and where it is in it, the dict it   *)
(* holds, its place in the priority list, what is left to charge, the      *)
(* credit it has decided to use, and the credits it still has to load.     *)
Idle == [op |-> "none", pc |-> "idle", ledger |-> NoLedger, i |-> 1,
         left |-> 0, use |-> 0, credits |-> <<>>]

CreditItem == [type : CreditType, amount : Grant]
CreditLists == UNION {[1 .. n -> CreditItem] : n \in 0 .. MaxItems}

Request == [op : StatementEndpoint \cup {"calculate", "none"},
            pc : {"idle", "scan", "debit", "store", "flatDebit", "load"},
            ledger : LedgerId \cup {NoLedger}, i : 1 .. 4,
            left : Int, use : Int, credits : Seq(CreditItem)]

------------------------------------------------------------------------------
(* Steps shared by the handlers. *)

AllIdle == \A w \in Worker : req[w].pc = "idle"

\* A request can be taken up: by a free thread, or in the single-threaded
\* server when no other request is in progress.
CanServe == Threaded \/ AllIdle
CanStart(w) == req[w].pc = "idle" /\ CanServe

Finish(w) == req' = [req EXCEPT ![w] = Idle]

\* A new credit dict becomes the account's.
Install(shape, accounts) ==
    /\ allocated < MaxLedgers
    /\ allocated' = allocated + 1
    /\ kind' = [kind EXCEPT ![allocated + 1] = shape]
    /\ ledgers' = [ledgers EXCEPT ![allocated + 1] = accounts]
    /\ credit_data' = allocated + 1

HasByType == credit_data # NoLedger /\ kind[credit_data] = "byType"

\* A request has been through the whole priority list.
PastLastType_Early(w) == req[w].i >= Len(CreditPriority)
PastLastType(w) == req[w].i > Len(CreditPriority)

\* Nothing is left to charge: if remaining_charge <= 0.
Covered_Exactly(w) == req[w].left = 0
Covered(w) == req[w].left <= 0

\* The account a request is looking at in its walk down the list.
Looking(w) == ledgers[req[w].ledger][CreditPriority[req[w].i]]

\* _apply_credits begins: the dict the account has now is the one all of it
\* will use; without one, or with the old structure, no credit is applied.
EnterApplyCredits(w, op, charge) ==
    req' = [req EXCEPT ![w] = [Idle EXCEPT
               !.op = op, !.left = charge,
               !.pc = IF HasByType THEN "scan" ELSE "store",
               !.ledger = IF HasByType THEN credit_data ELSE NoLedger]]

------------------------------------------------------------------------------
(* GET /billing/payments/<month>/statements and GET                        *)
(* /billing/console/statements.                                            *)

\* The charge is computed from the metering, the contract and the user's
\* adjustments; nothing is stored until the credits are applied.
BeginPaymentStatement(w) ==
    /\ "payments" \in Endpoint
    /\ CanStart(w)
    /\ \E charge \in Charge : EnterApplyCredits(w, "payments", charge)
    /\ UNCHANGED <<kind, ledgers, allocated, credit_data, billing_data, quoted, discounted>>

\* The console statement stores the bill first, before the adjustments of
\* the month and before the credits.
BeginConsoleStatement(w) ==
    /\ "console" \in Endpoint
    /\ CanStart(w)
    /\ \E charge, adjusted \in Charge :
          /\ billing_data' = [owner |-> w, total |-> charge]
          /\ EnterApplyCredits(w, "console", adjusted)
    /\ UNCHANGED <<kind, ledgers, allocated, credit_data, quoted, discounted>>
\* A loop that does not move on to the next type.
SkipCreditType_Stuck(w) ==
    /\ req[w].pc = "scan" /\ ~PastLastType(w) /\ ~Covered(w)
    /\ Looking(w).rest <= 0
    /\ UNCHANGED vars

\* The loop of _apply_credits passes over a type that has nothing left.
SkipCreditType(w) ==
    /\ req[w].pc = "scan" /\ ~PastLastType(w) /\ ~Covered(w)
    /\ Looking(w).rest <= 0
    /\ req' = [req EXCEPT ![w].i = @ + 1]
    /\ UNCHANGED <<kind, ledgers, allocated, credit_data, billing_data, quoted, discounted>>
\* It reads what a type has left and decides what to use, without the lock.
ReadCreditType(w) ==
    /\ req[w].pc = "scan" /\ ~PastLastType(w) /\ ~Covered(w)
    /\ Looking(w).rest > 0
    /\ req' = [req EXCEPT ![w].pc = "debit",
                          ![w].use = CreditToUse(Looking(w).rest, req[w].left)]
    /\ UNCHANGED <<kind, ledgers, allocated, credit_data, billing_data, quoted, discounted>>
\* Under data_lock it moves that amount from rest to used.
DebitCreditType(w) ==
    /\ req[w].pc = "debit"
    /\ ledgers' = [ledgers EXCEPT ![req[w].ledger][CreditPriority[req[w].i]] =
                     Debited(@, req[w].use)]
    /\ req' = [req EXCEPT ![w].pc = "scan", ![w].i = @ + 1,
                          ![w].left = @ - req[w].use]
    /\ discounted' = discounted + req[w].use
    /\ UNCHANGED <<kind, allocated, credit_data, billing_data, quoted>>
\* The charge is covered or the types are exhausted.
EndApplyCredits(w) ==
    /\ req[w].pc = "scan"
    /\ PastLastType(w) \/ Covered(w)
    /\ req' = [req EXCEPT ![w].pc = "store"]
    /\ UNCHANGED <<kind, ledgers, allocated, credit_data, billing_data, quoted, discounted>>

\* The answer.  The payments endpoint stores the bill for make_payment here.
AnswerStatement(w) ==
    /\ req[w].pc = "store"
    /\ billing_data' = IF req[w].op = "payments"
                         THEN [owner |-> w, total |-> req[w].left]
                         ELSE billing_data
    /\ quoted' = Quote(req[w].left)
    /\ Finish(w)
    /\ UNCHANGED <<kind, ledgers, allocated, credit_data, discounted>>

------------------------------------------------------------------------------
(* GET /billing/v5.0/bills/detail. *)
\* Bound: negative charges are billed only until so much has been given back.
ReturnsBounded(charge) == charge < 0 => discounted > -MaxReturned

\* The bill is stored before credits, and restAmount is read without the lock.
\* Only rest is looked at, not the charge: of a negative charge min(rest,
\* charge) is the charge, and the debit will lower what was used.
BeginBillingDetail(w) ==
    /\ "detail" \in Endpoint
    /\ CanStart(w)
    /\ \E charge \in {c \in Charge : ReturnsBounded(c)} :
        LET bill == [owner |-> w, total |-> charge]
            rest == IF credit_data = NoLedger THEN 0 ELSE ledgers[credit_data]["FLAT"].rest
        IN  /\ billing_data' = bill
            /\ \/ /\ rest <= 0
                  /\ quoted' = Quote(charge)
                  /\ UNCHANGED req
               \/ /\ rest > 0
                  /\ req' = [req EXCEPT ![w] = [Idle EXCEPT
                               !.op = "detail", !.pc = "flatDebit", !.left = charge,
                               !.use = CreditToUse(rest, charge)]]
                  /\ UNCHANGED quoted
    /\ UNCHANGED <<kind, ledgers, allocated, credit_data, discounted>>
\* The bill is updated in place: what is stored changes only if it still is
\* the object this request stored.
FinalBill_Copied(w, total) == billing_data
FinalBill(w, total) ==
    IF billing_data.owner = w THEN [owner |-> w, total |-> total] ELSE billing_data

\* Under data_lock the dict the account has now, whichever it is, is debited.
DebitFlat(w) ==
    /\ req[w].pc = "flatDebit"
    /\ credit_data # NoLedger
    /\ LET total == req[w].left - req[w].use
       IN  /\ ledgers' = [ledgers EXCEPT ![credit_data]["FLAT"] = DebitedFlat(@, req[w].use)]
           /\ billing_data' = FinalBill(w, total)
           /\ quoted' = Quote(total)
    /\ discounted' = discounted + req[w].use
    /\ Finish(w)
    /\ UNCHANGED <<kind, allocated, credit_data>>

\* The account was reset in between: KeyError, the request fails with a 500
\* and leaves the bill it stored.
DebitFlatFails(w) ==
    /\ req[w].pc = "flatDebit"
    /\ credit_data = NoLedger
    /\ Finish(w)
    /\ UNCHANGED <<kind, ledgers, allocated, credit_data, billing_data, quoted, discounted>>

------------------------------------------------------------------------------
(* POST /billing/admin/calculate: takes no lock.                           *)

\* The credits are replaced by empty ones, to be loaded from the request.
BeginCalculation(w) ==
    /\ CanStart(w)
    /\ Install("byType", EmptyByType)
    /\ \E credits \in CreditLists :
          req' = [req EXCEPT ![w] = [Idle EXCEPT
                     !.op = "calculate", !.pc = "load", !.credits = credits]]
    /\ UNCHANGED <<billing_data, quoted, discounted>>

\* One turn of the loop, on the dict the account has at this moment: a flat
\* dict has no such type and is passed over.
LoadCredit(w) ==
    /\ req[w].pc = "load" /\ req[w].credits # <<>>
    /\ credit_data # NoLedger
    /\ LET credit == Head(req[w].credits)
       IN  ledgers' = IF kind[credit_data] = "byType"
                        THEN [ledgers EXCEPT ![credit_data][credit.type] = Loaded(@, credit.amount)]
                        ELSE ledgers
    /\ req' = [req EXCEPT ![w].credits = Tail(@)]
    /\ UNCHANGED <<kind, allocated, credit_data, billing_data, quoted, discounted>>

\* Every credit is loaded (the job is filed, outside this module), or the
\* account was reset under the loop and the request fails with a KeyError.
EndCalculation(w) ==
    /\ req[w].pc = "load"
    /\ req[w].credits = <<>> \/ credit_data = NoLedger
    /\ Finish(w)
    /\ UNCHANGED <<kind, ledgers, allocated, credit_data, billing_data, quoted, discounted>>

------------------------------------------------------------------------------
(* Handlers whose whole effect is under data_lock. *)

\* POST /billing/coupons/<code>, /billing/admin/campaign/<id>/give and
\* /billing/admin/campaign/<id>/credits: a new dict with the old total plus
\* the amount.  On a byType dict there is no totalAmount: KeyError, no effect.
GrantCredit ==
    /\ CanServe
    /\ ~HasByType
    /\ \E amount \in Grant :
        LET total == IF credit_data = NoLedger THEN 0 ELSE ledgers[credit_data]["FLAT"].total
        IN  Install("flat", generate_credit_data(total + amount))
    /\ UNCHANGED <<billing_data, req, quoted, discounted>>

\* POST or DELETE /billing/credits/cancel, and DELETE
\* /billing/admin/campaign/<id>/credits: an existing account gets a flat dict
\* with nothing in it.
CancelCredit ==
    /\ CanServe
    /\ credit_data # NoLedger
    /\ Install("flat", generate_credit_data(0))
    /\ UNCHANGED <<billing_data, req, quoted, discounted>>

\* POST /test/reset: the account's credits and bills are deleted.
ResetTestData ==
    /\ CanServe
    /\ credit_data' = NoLedger
    /\ billing_data' = NoBill
    /\ quoted' = NoQuote
    /\ UNCHANGED <<kind, ledgers, allocated, req, discounted>>

------------------------------------------------------------------------------
(* The server. *)

\* Any account starts without credits; the one called test-uuid-001 starts
\* with a byType dict that is empty.
Init ==
    /\ kind = [l \in LedgerId |-> "byType"]
    /\ ledgers = [l \in LedgerId |-> EmptyByType]
    /\ \/ allocated = 0 /\ credit_data = NoLedger
       \/ allocated = 1 /\ credit_data = 1
    /\ billing_data = NoBill
    /\ req = [w \in Worker |-> Idle]
    /\ quoted = NoQuote
    /\ discounted = 0

\* A thread goes on with the request it has.
Continue(w) ==
    \/ SkipCreditType(w)
    \/ ReadCreditType(w)
    \/ DebitCreditType(w)
    \/ EndApplyCredits(w)
    \/ AnswerStatement(w)
    \/ DebitFlat(w)
    \/ DebitFlatFails(w)
    \/ LoadCredit(w)
    \/ EndCalculation(w)

Start(w) ==
    \/ BeginPaymentStatement(w)
    \/ BeginConsoleStatement(w)
    \/ BeginBillingDetail(w)
    \/ BeginCalculation(w)

Next ==
    \/ \E w \in Worker : Start(w) \/ Continue(w)
    \/ GrantCredit
    \/ CancelCredit
    \/ ResetTestData

Spec == Init /\ [][Next]_vars

\* A thread that has taken up a request is scheduled until it answers.
FairSpec == Spec /\ \A w \in Worker : WF_vars(Continue(w))

------------------------------------------------------------------------------
(* Properties. *)

\* The type invariant, and that no amount used of the credits by type is ever
\* negative: _apply_credits stops at a charge of 0 or less.  Of the flat
\* figures nothing of the kind is said: _apply_credits_to_billing does not
\* stop, and a negative charge lowers what was used, below 0 too.
TypeOK ==
    /\ kind \in [LedgerId -> {"flat", "byType"}]
    /\ ledgers \in [LedgerId -> [Bucket -> Account]]
    /\ \A l \in LedgerId, b \in CreditType : ledgers[l][b].used \in Nat
    /\ allocated \in 0 .. MaxLedgers
    /\ credit_data \in 0 .. allocated
    /\ billing_data \in [owner : Worker \cup {NoOne}, total : Int]
    /\ req \in [Worker -> Request]
    /\ quoted \in [given : BOOLEAN, total : Int]
    /\ discounted \in Int

\* The credit applied to statements never exceeds what was granted: of the
\* account's credits, where any has been used, no more has than the total, and
\* no rest is negative (a grant below 0 makes it so where nothing is used).
\* True of a server that takes one request at a time; _apply_credits and
\* _apply_credits_to_billing read rest before they take the lock, so false of
\* the threaded one.
WithinGrant ==
    credit_data # NoLedger =>
        \A b \in Bucket :
            ledgers[credit_data][b].used > 0 =>
                /\ ledgers[credit_data][b].used <= ledgers[credit_data][b].total
                /\ ledgers[credit_data][b].rest >= 0

\* No credit of a byType dict is lost or invented, however requests overlap:
\* what was granted is what was used plus what is left.
Conservation ==
    \A l \in 1 .. allocated, b \in CreditType :
        ledgers[l][b].total = ledgers[l][b].used + ledgers[l][b].rest

\* All the credit taken off statements, what a negative charge gave back taken
\* away again, is in the used figure of some dict, one
\* the account no longer has included: no debit is lost when requests overlap,
\* and none is recorded twice.
UsedOf(dict) ==
    dict["PROMOTIONAL"].used + dict["FREE"].used + dict["PAID"].used + dict["FLAT"].used
UsedInFirst(dicts, n) ==
    LET sum[k \in 0 .. MaxLedgers] == IF k = 0 THEN 0 ELSE sum[k - 1] + UsedOf(dicts[k])
    IN  sum[n]
EveryDiscountRecorded == discounted = UsedInFirst(ledgers, allocated)

\* How bad an overlap can get: each of the other threads can have decided, on
\* what it read earlier, to use up to the whole grant, so a type is overdrawn
\* by at most its total for every thread but one.  This is of grants that are
\* not negative: one below 0, loaded after the reads, lowers the total that
\* bounds what was read before.
BoundedOverdraft ==
    Grant \subseteq Nat =>
        \A l \in 1 .. allocated, b \in CreditType :
            ledgers[l][b].rest >= -(Cardinality(Worker) - 1) * ledgers[l][b].total

\* A statement of the payments and console endpoints that used the account's
\* credits by type keeps a charge only when it found every type exhausted: no
\* credit is left over on the dict it walked down (_apply_credits, the loop).
\* It says nothing of an account with the flat structure, whose credit these
\* endpoints do not use at all, nor of bills/detail, which uses no other.
ChargeOnlyWhenExhausted ==
    \A w \in Worker :
        req[w].pc = "store" /\ req[w].left > 0 /\ req[w].ledger # NoLedger =>
            \A b \in CreditType : ledgers[req[w].ledger][b].rest <= 0

\* PROMOTIONAL, then FREE, then PAID: a dict's FREE credit is used only when
\* its PROMOTIONAL credit has nothing left, its PAID credit only when neither
\* of the others has.
Dearer == [PROMOTIONAL |-> {}, FREE |-> {"PROMOTIONAL"}, PAID |-> {"PROMOTIONAL", "FREE"}]
PriorityRespected ==
    [][\A l \in 1 .. allocated, b \in CreditType :
          ledgers'[l][b].used > ledgers[l][b].used =>
              \A c \in Dearer[b] : ledgers[l][c].rest <= 0]_vars

\* What make_payment_console charges when the request names no amount.
make_payment_amount == billing_data.total

\* A payment made after a statement is for the total that statement showed
\* (get_payment_statements_console and get_billing_detail store it, the
\* console statement stores the charge before adjustments and credits).
PaymentMatchesStatement ==
    AllIdle /\ quoted.given => make_payment_amount = quoted.total

\* The server, seen as a credit account: the figures of the dict it has now.
Figure(b) == IF credit_data = NoLedger THEN Granted(0) ELSE ledgers[credit_data][b]
Abstract == INSTANCE CreditAccount WITH
                limit <- [b \in Bucket |-> Figure(b).total],
                spent <- [b \in Bucket |-> Figure(b).used],
                given <- discounted,
                Returning <- {"FLAT"}

\* One request at a time, the server is a credit account: every debit of
\* either endpoint is a spending within the limit of what its statement was
\* given, or, of the flat credit, the handing back of a negative charge; every
\* other change of the figures is a loading of unspent credit or a reopening.
ImplementsCreditAccount == Abstract!Spec

\* Every request is answered, whatever is deleted or replaced under it.
RequestsAnswered == \A w \in Worker : req[w].pc # "idle" ~> req[w].pc = "idle"
==============================================================================
