# BillingTest: a TLA+ model of the billing test bench

BillingTest is a bench for testing a billing system: a mock billing server
(`mock_server/`, Flask under waitress), a Python client library that drives a
billing backend (`libs/`), a small domain model (`src/domain`), a billing worker
(`workers/billing-api`) and a web calculator (`web/`). This directory holds TLA+
modules of the worker and of the web calculator from its form to its bill, and
of the parts of the server and the library that are shared by threads, calls or
late answers; the TLC configurations that check them; and TLAPS proofs of what
matters most in them.

    tlc -config MCWebBilling.cfg WebBilling        # one run
    tlapm MockCredits_proofs.tla                   # one module of proofs

`PROJECT.json` lists the runs with their modules, the source lines every
definition stands for, the mutants (operators named `Thing_Bug`: `Thing` with a
plausible bug) by which each property was seen to fail when the code is wrong,
the findings, the hazards and the theorems.

## 1. The system

| Component | State | Operations | Interacts with | Module |
|---|---|---|---|---|
| Mock server: credits, bills, statements (`mock_server/app.py`) | `credit_data[uuid]`, `billing_data[uuid:month]` | grants (3 endpoints), cancellation, statements (3 endpoints), payment amount, calculation, reset | all are requests in six waitress threads; `data_lock` is taken by some of their steps | `MockCredits` |
| Mock server: rate limiter (`mock_server/security.py`) | `requests[client]`, a list of times | admission before each request, cleaning, status, reset | runs in every request's thread, no lock | `RateLimiter` |
| Mock server: metering (`mock_server/test_data_manager.py`, `app.py`) | a dict per uuid | POST meters (which clears), loops of the statements | threads share the dict the manager hands out | `MockMetering` |
| Payment manager (`libs/Payments.py`, `libs/http_client.py`, `libs/payment_api_client.py`) | none of its own; the backend's payment status | `prepare_payment`, `make_payment` | HTTP client with its own retries; the backend | `PaymentManager` |
| Worker (`workers/billing-api/src/index.ts`) | none between requests; the figures of a calculation | calculate, pay, statements of a month | posted to by the web page and others | `WorkerBilling` |
| Input form (`BillingInputForm.tsx`, `sections/`) | fields and lists, the input last taken over | 16 changes, calculate, load, leave, start anew | context; posts to the worker | `BillingForm`, with the worker `BillingFlow` |
| Statement and PDF (`StatementDisplay.tsx`, `lib/pdf/statementPDF.ts`) | the page and height reached | show, download | the worker's statement | `StatementView` |
| Web page (`web/src/app/page.tsx`, `contexts`, `PaymentSection`, `HistoryPanel`) | billing context, refs of the page, history | calculate, pay, start anew, load, delete, clear, leave, return, reload | awaited API calls; the history store | `WebBilling` |
| History store (`stores/historyStore.ts`) | the history of each tab, `localStorage` | add, update, delete, clear, load | tabs share the storage | `HistoryStorage`, `HistoryList` |
| API client (`lib/api/billing-api.ts`) and hooks | timer, failure count | calculate, statement of a month, pay | `fetch`; the query library's retries | `ApiClient` |
| Mock server: contracts, adjustments, billing groups | `contracts`, `adjustments`, `billing_groups` | create, update, delete; read by statements | unlocked dicts, shared by all accounts | planned |
| Mock server: batch jobs | `batch_jobs`, `batch_progress` | submit, poll (which advances) | polled by `wait_for_completion` | planned |
| Mock server: v1 endpoints, pact states, OpenAPI, pricing | globals of canned answers | create, get | the contract tests | not modelled |
| `libs` managers: credit, adjustment, contract, metering, calculation | none | loops of requests | HTTP client | planned |
| `libs`: batch manager, batch validator | none | monthly jobs in an order | HTTP client | planned |
| `libs`: payment state machine | a table | is a transition allowed, path | nothing calls it to change a status | planned |
| `libs`: payment processor | none | retry decision and delay, reconciliation | | planned |
| `libs`: calculators, aggregators, validators | none | pure functions | | planned |
| Domain model (`src/domain`) | payment, credits, statement with cached results | calculate, transition | repositories in memory | planned |
| Configuration, exceptions, telemetry, documentation pages, translations, tests, scripts | | | | not modelled |

### What is hard

* **Threads over plain dicts.** The mock server reads an account's credit, decides
  what to use, and only then takes `data_lock`; the dict under a uuid may be
  replaced or deleted meanwhile. Rate limiting and metering take no lock at all,
  or one that covers a look-up only.
* **Two layers of retries.** `make_payment` retries around an adapter that itself
  sends a failed POST again. A lost answer and a lost request look the same.
* **Partial failure.** `prepare_payment` is up to three requests, of which a later
  one can fail after an earlier one has changed the backend.
* **Late answers.** The web page awaits answers while the user can load another
  entry, start anew, or leave; an effect then decides, from what it remembers,
  whether to update an entry of the history or to add one.
* **One amount computed in several places.** The worker computes adjustments once
  for the total and once for the statement, floors at every step, and the page
  and the PDF each draw their own rows from the result.
* **Two clocks.** A date is shown in the browser's time zone and billed in UTC.
* **What an older version left.** A history is read from a storage that an older
  version, another tab or damage may have written.
* **Answers in two formats, or none.** A timer covers the wait for the headers,
  not for the body; retries stop for payments and not for calculations.

### What makes each component correct

* *Credits*: never more applied than granted; nothing lost or recorded twice; the
  types used in priority order; a charge stays only when the credits by type are
  exhausted; a payment is for what the statement showed; every request is answered.
* *Rate limiter*: no window with more than the limit; nobody refused below it.
* *Metering*: a statement is of the last POST; what was answered is lost only to a
  clearing; what was cleared is not charged.
* *Payment manager*: what it returns is true of the backend; a payment is executed
  a bounded number of times; calls return; a paid payment is cancelled before it
  is anything else.
* *Web page*: the history holds what the page shows; statements belong to inputs and
  payments to statements; no duplicates; the button comes back.
* *Worker*: credits in the order of the request and exactly split; the parts of a
  statement add up; floors do not build up; what the form can send is answered.
* *Form*: whatever is edited, loaded and removed, it sends what the worker accepts; a
  day is billed to its month.
* *Statement and PDF*: they show the same amounts as the statement; nothing is drawn
  off the page or over something else.
* *History store*: what was written is read; tabs that take turns make one list.
* *API client*: a result is of the last answer; a payment is sent once; calls end.
* *Contracts and adjustments (planned)*: an account's contract or adjustment does not
  change another account's statement. *Batch jobs*: progress grows to 100 and a
  polling client sees the end or times out. *State machine*: every action the
  validators allow is a path of the table. *Domain*: cached results are of the
  present credits. *Calculators*: amounts distributed add up; tiers are continuous.

## 2. The modules

### MockCredits, CreditAccount, MCMockCredits, MockCredits_proofs

One account. Credit dicts are modelled by identity, a heap `ledgers` with
`credit_data` naming the account's present one, because requests keep a
reference to a dict that others replace. `req[w]` is where thread `w` is in its
handler. The statement endpoints are `BeginPaymentStatement` /
`BeginConsoleStatement`, then the turns of the loop of `_apply_credits`
(`SkipCreditType`, `ReadCreditType` without the lock, `DebitCreditType` under
it, `EndApplyCredits`), then `AnswerStatement`; `GET bills/detail` is
`BeginBillingDetail` and `DebitFlat` (or `DebitFlatFails`, a KeyError after a
reset); the calculation is `BeginCalculation`, `LoadCredit`, `EndCalculation`;
`GrantCredit`, `CancelCredit` and `ResetTestData` are each one locked step.
*Granularity*: under CPython's GIL a thread loses control at calls, ends of loop
turns and locks; a step runs from one such point to the next at which another
thread's effect can be seen. VAT and the computation of the charge are
abstracted: a charge is any of a set, negative ones included: adjustments, a
contract's rate above 1 or a negative `counterVolume` make one, and no handler
checks. `_apply_credits` stops at a charge that is not positive (`Covered`);
`_apply_credits_to_billing` does not, so a negative bill detail lowers what was
used of the flat credit, below 0 too. Grants are of either sign as well.
Histories: `quoted`, the total last shown, and `discounted`, all credit ever taken
off, less what was handed back.

`CreditAccount` is the abstract specification: buckets with a limit and an amount
spent; `Load` where nothing is spent, `Spend` within the limit, `HandBack` to the flat
bucket, `Reopen`; and what statements were given. With one request at a time the
server implements it (`ImplementsCreditAccount`), the refinement mapping being the
`totalAmount` and `usedAmount` of the dict the account has now, and `discounted`.

### RateLimiter, RateLimiter_proofs

The list of one client. Cleaning is a comprehension over the list object found at
its start, whose result is then stored: `held[w]` says whether thread `w`
iterates over the client's present list or over one that was replaced
(`BeginFilter`, `EndFilter`, `CleanEmpty`). `Arrive`, `Reject`, `PassCheck`,
`AppendRequest` are the steps of `is_rate_limited` and the hook around it;
`HandleStatus` and `HandleReset` the two endpoints that touch the list; `Tick`
the clock. `admitted` is the history of those let through since the last reset.

### MockMetering, MockMetering_proofs

The metering dict of one account, as a heap: a request goes on filling or reading the
dict it was given after another has deleted it from the manager. A POST is `BeginPost`
(clears), `GetEmptyStore`, `InsertMeter`s, `EndPost` or `FailPost`; a statement is
`BeginStatement`, `BeginLoop`, `LoopMeter`s, then `AnswerStatement` or `LoopFails`
(the dict changed size, or a volume is not a number). `threaded`, fixed by `Init`,
tells a server whose requests overlap from one that takes one at a time.

### PaymentManager, PaymentManager_proofs

`call[m]` is the request a manager has under way, with the attempt (`make_payment`'s)
and the try (the adapter's) it is in. `RequestAnswered`, `TextAnswered`, `TryFails`
and `RequestFails` are what can become of a request: the failing ones may or may not
have been served, which is how a lost request and a lost answer enter. `TextAnswered`
is a body that is no JSON and of type `text/*`, such as a gateway's error page: the
client returns it as a success before it looks at the status, so the request may not
have been served either. `misread` is the history of that: in its last call a manager
took such an answer for the success of a request that was not served. `MockSuccess`
and `CallCrashes` are what the three classes of client do with what they do not
support: `client` is the class in this behaviour. The backend (`Served`) is not in the
repository and is modelled from how the manager uses it.

### WorkerBilling

`calculate()` with a step for each turn of its loops: `Normalize` or
`NormalizeFails` for each adjustment, `AddUsage`, `AddAdjustment`,
`ApplyCredit`, with `NormalizeDone`, `UsageDone`, `AdjustmentsDone` between them,
and `Respond` or `RespondFails` (a date that is not one). The other handlers
keep nothing and are one step each. The worker awaits only a request's body, so
one calculation at a time is all there is. A request is what decides the
amounts; what the code does not check (signs of volumes, credits and unpaid
amounts) is any integer. A percentage of an amount is a product of doubles,
which on integers falls short of the true one for some pairs (29% of 100 floors
to 28): `Short` is the set of those pairs, a constant the instance gives.

### StatementView

What is shown of the worker's statement: the rows of the page (`DetailRows`,
`SummaryRows`) and of the PDF (`SummaryItems`) as signed amounts, and the layout
of the PDF, a step for each of its `render...` functions, over a page in
millimetres. Tables break pages as the autoTable library does (external); cells
wrap, so a row is of any height of a set. Proofs about it are in
`BillingFlow_proofs`, with those about the worker.

### BillingForm, BillingFlow, MCStatement, BillingFlow_proofs

The form with an action for each field, button and list operation (the names are
the code's), `handleCalculate`, and what the page does with the form:
`LeaveForm`, `OpenForm`, `StartNew`, `LoadEntry`. A date is a number of hours,
UTC, `offset` what the browser's time zone is ahead. `BillingFlow` composes form,
worker and views: `Post` is `handleCalculate` and the worker's `Take` of the
body; the worker's last step is also the page's `onComplete` or
`CalculationFailed` (an answer may be lost). Another client, in behaviours of its
own, sends what the form does not. While the page awaits an answer its user
waits too; what he can do meanwhile is `WebBilling`'s subject.

### HistoryStorage, HistoryList, MCHistoryStorage, HistoryStorage_proofs

`memory[tab]` is zustand's state in a tab, `stored` the serialized list in
`localStorage`; each of `addEntry`, `updateEntry`, `deleteEntry`, `clearHistory`
sets the state and writes all of it (`set`), `Load` reads it (`merge`: type guard,
`deserializeHistoryEntry`, `migrate`). `Init` has storages an older version or damage
left, longer than the limit or with an id twice among them: `merge` checks neither,
and `foundSound` says whether it was so. `HistoryList` is the abstract specification,
one list to which entries are added, which cuts it to the limit, and from which they
go; a user whose tabs take turns (`inTurn`) gets it, and `ImplementsHistoryList` maps
the list to what the storage is read as.

### ApiClient, ApiClient_proofs

A call and its tries: `Refuse` (validation), `Send` (timer on), `Respond` (headers;
timer off), `ReadError` / `ReadBody` / `Stall` / `Resume`, `NetworkFails`, `TimeOut`,
and `Retry` for what the mutation of a hook does after a failure. An answer's JSON
is a header or none, a `data` field or the legacy form, and what the validators
tell apart of a payload. Calls share nothing, so one at a time is modelled.

### WebBilling, WebBilling_proofs

Calculations and payments are numbered; an input is reduced to its form (uuid,
group, date), which is what the effect compares. A step is an event handler, or
what follows an `await` in one, with the render and the effect after it:
`Calculate` / `CalculationAnswered` / `CalculationFails`, `Pay` /
`PaymentAnswered` / `PaymentFails`, `StartNew`, `LoadEntry`, `DeleteEntry`,
`ClearHistory`, `LeavePage` (the refs go, the context stays), `ReturnToPage`
(the effect runs on mount), `Reload` (only the history stays). `Effect` is the
effect of `page.tsx`, applied to what the handler left in the refs. The
sections of the page are left out: any can be opened at any time. A `hasty` user
does all the page lets him do; a `patient` one waits for answers, starts a new
calculation only when no statement is shown and stays on the page; a `steady`
one also recalculates.

## 3. The runs

Every run is complete: TLC visits all states of the instance. `CHECK_DEADLOCK
FALSE` stands only where the bounds stop the model (clock, admissions, POSTs and
dicts, calls, calculations and payments are counted and end); `MockCredits` is
checked for deadlock, since statements and resets remain possible for ever.

| Run | Instance | Shows |
|---|---|---|
| `credits_serial` | one request at a time, dicts <= 2, credits per calculation <= 2, charges -1, 0, 1, 3 against grants -1, 1, 2 | `ChargeOnlyWhenExhausted`, `PaymentMatchesStatement`, `PriorityRespected`, and that it implements `CreditAccount` |
| `credits_threaded` | 2 threads, console statement and bill detail, charges -1, 2, dicts <= 2 | `Conservation`, `EveryDiscountRecorded`, `BoundedOverdraft`, and with fair scheduling `RequestsAnswered` |
| `credits_double_spend` | 2 threads, one statement each | violation of `WithinGrant`: the same credit used twice |
| `rate_serial` | limit 2, window 2 ticks, 6 ticks, 4 admissions | `LimitHolds`, `RefusedOnlyAtLimit` |
| `metering` | both kinds of server, 2 threads, 3 POSTs of <= 2 meters, 4 dicts | `StatementOfLastPost` (serial), `NoMeterLostUnlessCleared`, `NoStaleUsage` (both) |
| `payment` | one manager, three classes of client, answers in text included, 3 attempts of 3 tries, 4 calls | `PreparedMeansRegistered`, `PaidMeansExecuted`, `ExecutionsBounded`, `PaidIsCancelledFirst`, `CallsReturn` |
| `statement` | form: 2 changes from the defaults or either of 2 stored inputs, 2 time zones, lists of 1 item added (stored ones included), -5 and 150 typed; another client: 3 usages x 4 credit lists x 5 adjustment lists x overdue or not, and requests the form does not send; VAT unset (10%) and 29%; rows of 8 and 75 mm | `CreditsSpentInOrder`, `StatementAddsUp`, `RoundingBounded`, `AcceptedInputAnswered` of the worker; `ViewsAgree`, `PdfReadable` of the views; `FormSendsAcceptedInput`, `PickedMonthIsBilled` of the flow |
| `statement_month` | the same | violation of `ShownMonthIsBilled` |
| `web` | hasty and patient users, history of 2, 2 calculations besides a stored one, 2 payments, 2 forms | `HistoryInSync`, `ButtonComesBack`, `PaidEntriesStayPaid`, and `PatientHistoryRight` |
| `web_recalculate` | a steady user | violation of `RecalculationKeepsEntriesRight` |
| `storage` | 2 tabs, taking turns or not, history of 2, 4 ids, 13 storages to begin with (old, damaged in eight ways, too long, an id twice, both, empty) | `TypeOK`, `ReloadKeepsHistory`, and that turns make one `HistoryList` |
| `api` | seven statuses, every body of the model, with and without a hook | `ResultOfLastAnswer`, `TriesBounded`, and with fairness `Settles` |

*Why the bounds are enough.* The races are between two requests: two threads show
each, and the properties that count threads say so (`BoundedOverdraft` is
stated for any number of them; it was also checked with three threads on
statements alone). Two dicts are needed for a request to hold one the account no
longer has. Grants and charges include a charge a credit covers, one it does
not, one that needs two types and one below zero, and a grant that takes away;
`MaxReturned` bounds how far negative bills lower what was given, which nothing
else would: below zero once in the serial run, in threads back from what was given
before. The threaded instance
leaves out the payments endpoint, which is the console statement but for when it
stores the bill, of which that run's properties say nothing. The rate limiter's instance
lets a window fill, slide out and fill again. Three POSTs let one be
cleared by a second while a third follows. Three tries in three attempts make a
payment executed nine times in one call. A history of two overflows with the
entry on the page among those that fall off. Of the form two changes are enough for
one field to invalidate what another was limited by (a fixed amount turned into a
rate) and for every removal; longer lists, several credits of which some stay
untouched, slipping percentages and discounts above the subtotal are in the other
client's requests, where lists are up to three long. Rows of 75 mm break a page
within a table and before the summary. Times just before and after a month
boundary, east and west of Greenwich, are those at which months can differ. Two
tabs show every overwriting of two.

*Fairness.* `RequestsAnswered` assumes that a thread that has taken up a request is
scheduled (`WF` of `Continue`): the operating system and the GIL do that, and
no step waits for another thread but for `data_lock`, which is held inside one
step. `Settles` assumes that timers fire, that a retry that waits is made, and that
an answer that has begun is read or stalls (`Fairness` of `ApiClient`); no
answer is assumed, and none of a body: a stalled one ends the promise, since the
timer is off by then. `CallsReturn` assumes that a request under way ends, with an answer or
by the timeout every request of `BillingAPIClient` is given (`WF` of
`Progress`); nothing is assumed of the backend.

## 4. The findings

Shown by a run:

* `_apply_credits` and `_apply_credits_to_billing` read before they lock, so
  overlapping statements overdraw a credit (`credits_double_spend`). By how
  much is bounded: `BoundedOverdraft`.
* A recalculation from an unchanged form overwrites the input of the entry whose
  statement is on the page (`web_recalculate`). Also seen: the payment of the
  replaced statement stays in the context and is saved with the new one, and
  leaving the page and coming back adds a duplicate entry.
* The form shows the local date of the time it was opened, and the worker bills
  that time's month in UTC (`statement_month`): west of Greenwich, in the last hours of
  a month, the month after the one shown, which is TLC's trace; east of it, in the
  first hours, the month before. A day that is picked is billed to its month in every
  time zone, but the field shows it in local time too: west of Greenwich a picked 1st
  is shown as the last day of the month before.

Seen while modelling, in the models' terms:

* *Credits.* A negative bill detail hands flat credit back, beyond what was used:
  `usedAmount` goes below 0, and later bills can use what was handed back on top of
  what was granted. The console
  statement stores its bill before adjustments and credits,
  and a payment without an amount is for that; `PaymentMatchesStatement` is
  checked for the other endpoints.
* *Rate limiter.* It compares and appends without a lock, so overlapping requests
  can pass the limit; `LimitHolds` is checked and proved of a server that takes
  one request at a time.
* *Metering.* `POST /test/reset` clears the global `metering_data`, which
  `POST /billing/meters` never writes: the meters stay and are charged for. Two
  overlapping POSTs clear and look up the store in separate steps and can be
  charged together.
* *Payments.* `prepare_payment` of a PAID payment with the default client cancels it
  and then raises a TypeError; the next call returns CANCELLED without an error.
  With a `BillingAPIClient` it answers REGISTERED by a mock success.
  `make_payment` raises also when it was only the answer that was lost. A text answer
  (an HTML 502, say) is a success to `_validate_response` whatever its status: a
  payment, a cancellation or a change of status that was refused with one counts as
  done. `PreparedMeansRegistered`, `PaidMeansExecuted` and `PaidIsCancelledFirst` are
  about calls to which that did not happen (`misread`), and are false of the others.
* *Worker.* Negative credits raise the charge. A rate is a percentage of the subtotal
  whatever adjustments come before it.
* *Statement.* The page derives its "VAT (10%)" row from the other figures: the label
  is the same whatever `VAT_RATE` is, and the row takes up what discounts exceed
  the subtotal by (`DiscountsWithinSubtotal`). In the PDF the title of a table can
  stand at the foot of a page without it.
* *Form.* A value above 100 stays when FIXED becomes RATE. Loading the entry that is
  already loaded does not undo what was edited since. Leaving for the statement
  drops what was edited and not sent.
* *History.* One entry that cannot be read makes the whole history read as empty, and
  the next change overwrites it. Tabs that do not take turns overwrite each other.
* *API client.* The timeout covers the headers only. The calculation's hook retries
  every error, a refused input included. No page uses the hooks, and nothing
  reads the cache they fill. The mock server's statements of a month have neither
  `statementId` nor `totalAmount`, without which `getPaymentStatement` refuses them.

## 5. The proofs

TLAPS checks these for every value of the constants that meets the assumptions in
the modules. Most of those only say that sets and numbers are what they are used
as; two say more, and are named where they are used. "One request at a time"
is the hypothesis `~Threaded`, for what the threaded server does not promise.

* **MockCredits_proofs.** However requests overlap, for any number of threads:
  * `TypeCorrect`: types, and that no used amount of a credit by type is negative, for
    grants and charges of either sign. Types alone are not inductive: a request in the
    loop must hold a dict that exists and a place in the list that names a type
    (`InFlight`).
  * `CreditConservation` (`Conservation`): in every dict by type, total = used + rest.
    Every account of every dict balances (`AllBalanced`); that survives stale reads
    because the debit is one locked step that moves an amount, whatever was read.
  * `DiscountsAreRecorded` (`EveryDiscountRecorded`): what was taken off statements,
    less what was handed back, is the sum of what all dicts ever created say was used.
    What `UsedInFirst` sums is got by induction on the number of dicts
    (`UsedInFirstSums`, `UsedInOne`).
  * `OverdraftIsBounded` (`BoundedOverdraft`): a type is overdrawn by at most its total
    for every thread but one. The invariant (`OverdraftInv`) picks the thread that was
    the last to read what was left: what it decided to use was there, so what is
    missing since was taken by others, each once and each at most the total. It is of
    grants that are not negative (a hypothesis in the property).

  With one request at a time: `SerialWithinGrant` (`WithinGrant`, which
  `credits_double_spend` shows false without that hypothesis), `SerialExhausts`
  (`ChargeOnlyWhenExhausted`, of the statements that use credits by type: a flat dict
  is not used by them, and `bills/detail` uses nothing else), `SerialPriority`
  (`PriorityRespected`), and `SerialCreditAccount`, the refinement of `CreditAccount`,
  by the cases of a step: what a request does to the figures of the present dict is a
  `Spend`, a `HandBack`, a `Load`, a `Reopen` or nothing. They share `SerialInv`: one
  thread at most is busy, no rest is negative where anything is used, and a request
  walks down the dict the account has now, with nothing left in what it has passed,
  its stale read being still true when it debits (`WalkAt`). `SerialPaysStatement`
  (`PaymentMatchesStatement`) assumes besides that no console statement is asked for,
  of which it is false (section 4); its invariant (`BillsMatch`) says that the stored
  bill is the object the request will update.
* **RateLimiter_proofs.** `TypeCorrect`, and with one request at a time `SerialLimit`
  (`LimitHolds`): no window, wherever it ends, has more than `max_requests`
  admitted. The list forgets old requests while the limit is about all of them, so
  the invariant has to say which are still on it: all admitted that are in the
  window ending now, and during a call in that ending at its arrival
  (`KeptNow`, `KeptAtArrival`); with the order of their times (`Dated`), that
  one thread at most is busy (`OneAtATime`), what it iterates over (`Shape`) and
  that a request about to be appended still has room (`Room`). `SerialRefusal`
  (`RefusedOnlyAtLimit`) is the other side and needs the other inclusion: what is on
  the list was admitted (`Listed`) and, when lengths are compared, is in the
  window (`Fresh`).
* **MockMetering_proofs.** For any number of threads, POSTs and meters:
  `AnsweredMetersStay` (`NoMeterLostUnlessCleared`) and `ClearedMetersAreGone`
  (`NoStaleUsage`). The invariant says that a POST has one request, which is over
  when it is answered (`OneRequest`), and that a POST after which nothing was
  cleared inserts into the store's own dict, which holds all it has inserted
  (`InStore`). `StatementIsOfLastPost` (`StatementOfLastPost`), with one request at
  a time: the account's dict is what the last POST inserted (`LastPost`).
* **PaymentManager_proofs.** `TypeCorrect` for any number of managers. For a manager
  that is alone on its payment group, any number of attempts and retries and any
  class of client: `PrepareTellsTheTruth` (`PreparedMeansRegistered`),
  `RetriesMultiply` (`ExecutionsBounded`), `PaymentIsExecuted` (`PaidMeansExecuted`)
  and `TakenBackByCancelling` (`PaidIsCancelledFirst`). The invariant counts
  the tries of a call: the payments executed since it began are at most
  `attempt * (RetryTotal + 1) + tries` (`Paced`); a call's request is one
  of its operation (`Consistent`); and for the last two, no change of status is ever on
  its way to a payment that is PAID (`ChangesUnpaid`), though tries are repeated and
  answers are lost. All but `RetriesMultiply` speak of calls in which no text answer
  passed for the success of a request that was not served.
* **BillingFlow_proofs.** *The worker*, for every set of requests of the documented
  shape, every VAT rate and every `Short`: `TypeCorrect` (charges never negative);
  `CreditsInOrder` (`CreditsSpentInOrder`), whose invariant (`InOrder`) says of the
  credits gone through that all but the last are used up while a charge remains;
  `PartsAddUp` (`StatementAddsUp`), whose invariant (`Sums`) says that each loop has
  added up the first so many items; `RoundingIsBounded` (`RoundingBounded`), which
  compares the sums, term by term, with those of exact arithmetic;
  `AcceptedInputIsAnswered` (`AcceptedInputAnswered`), whose invariant
  (`Answerable`) follows a request of nothing negative through the loops: no
  amount becomes negative but the adjustments, and nothing is refused. Sums of
  sequences of any length are compared by induction on how many items are summed.

  *The flow*, for any time zones, days, numbers and stored entries, lists of any
  length and any number of changes: `FormSends` (`FormSendsAcceptedInput`),
  `PickedMonth` (`PickedMonthIsBilled`), `FormIsAnswered` (what the form sends is never
  refused) and `BillIsRight`: the worker's invariants hold of requests that are
  not a given set but all that can be entered. The invariant (`FlowInv`) is the
  worker's, with: what the form, the page and the request in flight hold is of the
  form's making, a picked day being kept as its midnight UTC (`FormKept`); the
  request being calculated is what was sent (`SentIsRequest`). Assumed: a
  stored input is one the form could hold (`StoredAssumption`).

  *The views*: `ViewsTellTheSame` (`ViewsAgree`), from the statement's sums; and
  `PdfIsReadable` (`PdfReadable`), for any number of rows of any height up to 200 mm.
  Its invariant (`Layout`) says what each section of the PDF finds: the last part
  drawn is above `y`, and from the summary on all of it is on one page and what is left
  will fit there. Assumed: no row is higher than that (`RowHeightAssumption`); a table
  breaks pages between rows, and a higher one would not fit on any.
* **HistoryStorage_proofs.** For any tabs, ids and limit, and lists of any length:
  `TypeCorrect`, that what a tab holds is complete entries of the present format, and
  within `MAX_ENTRIES` with distinct ids if the storage was so to begin with;
  `WrittenIsRead` (`ReloadKeepsHistory`): reading what was written, `migrate` of it
  included, changes nothing; `TabsMakeOneList`, the refinement of `HistoryList`. The
  invariant (`Inv`) says that what was written last is a history itself, so that the
  type guard, the dates and `migrate` let all of it through, which is proved by
  induction on a list's length, once for all lists that are gathered from others
  (`StepByStep`, `GatherAll`). Of what the storage held before nothing is assumed but
  that it is a list of things that can be read or not.
* **ApiClient_proofs.** For every set of statuses: `TriesAreBounded`
  (`TriesBounded`), from the number of failures a call still has before it
  (`Paid`) and that a timer runs only while headers are awaited (`InTime`);
  `ResultIsOfLastAnswer` (`ResultOfLastAnswer`), by the cases of an answer.
* **WebBilling_proofs.** For any number of calculations, payments, forms and
  entries, and the hasty user: `ShownIsSaved` (`HistoryInSync`),
  `PaymentsAreKept` (`PaidEntriesStayPaid`) and `ButtonIsEnabledAgain`
  (`ButtonComesBack`). The effect decides from refs that a
  handler may have left behind, so the first two are not inductive: a statement that is
  awaited must be nowhere yet (`Unanswered`), or its answer could be taken for
  what was saved last; an entry loaded without a statement has no payment
  (`LoadedUnpaid`, `Unstated`); the statement saved last is shown only with an
  input (`ShownSaved`), or a recalculation could overwrite a payment the page
  does not show; ids are distinct, and off the page there are no refs.
  `HandlerLeaves` is what each handler owes the effect, and `EffectKeeps` that
  this is enough. `PatientIsRight` (`PatientHistoryRight`): the patient user awaits one
  thing at a time (`OneThing`), and the entry of the statement on the page is the
  one the refs name, wherever it is in the history (`ShownOnce`), so the effect
  updates that one and adds no other.

The library's induction theorems take an operator as a parameter, which no installed
prover can instantiate. The inductions above use a first-order one, `SetInduction`,
which is itself proved: a number missing from a set that has 0 and every successor
would make the successor a map of a finite set into itself that is injective and misses
0, and `FS_Injection` says there is none. The sums and `migrate` are recursive
functions for that reason.

Only model-checked: what is under fairness (`RequestsAnswered`, `CallsReturn`,
`Settles`), which this prover cannot treat; and the three violations, each a
behaviour that TLC exhibits. Everything else the passing runs check is proved.

## 6. What is left out, and the plan

Left out of the modelled parts: the computation of the mock server's charges,
messages, identifiers and headers; `POST /api/v1/credits`, whose records no
statement reads; other clients of the rate limiter and its switch; the manager's
summaries and `check_unpaid`; fractions of a Won; a storage that is full or
forbidden; being offline; wording, currency and columns of what is shown. The v1
endpoints and pact states answer canned data; OpenAPI, Swagger, documentation
pages and translations are presentation, `ComparisonView` and the charts are
mounted nowhere; tests and scripts are not the program.

Next, in this order:

1. `MockAccounts`: contracts, adjustments and billing groups of several accounts
   against an abstract per-account store; with it the charge of `MockCredits`.
2. `PaymentStateMachine`: table, validators, path search; then `PaymentManager`
   and the domain model's `Payment` against it.
3. `BatchJobs` with `wait_for_completion`: polling, timeout, progress.
4. `DomainBilling`: statement, credits, contract tiers, cached results.
5. `PaymentProcessing`, the calculators and the managers' loops with partial
   failure.
