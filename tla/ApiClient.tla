----------------------------- MODULE ApiClient -----------------------------
(***************************************************************************)
(* The page's API client (web/src/lib/api/billing-api.ts), called directly *)
(* or through the mutations of web/src/hooks: a call, its tries, the timer *)
(* of each, and what is made of the answer.                                *)
(*                                                                         *)
(* Calls share nothing, so that one at a time is all there is to them.     *)
(* Of a call what it asks for is kept, of an answer whether what was asked *)
(* for is in it; a result is that or the code createCalculationError gives *)
(* the error.  External: fetch, and the retries of the query library.      *)
(***************************************************************************)
EXTENDS Naturals

CONSTANT Status     \* HTTP statuses of answers

ASSUME StatusAssumption == Status \subseteq 200 .. 599

VARIABLES
    call,       \* the call, its arguments valid or not
    pc,         \* what has become of its present try
    timer,      \* is the timer of the abort controller running?
    failures,   \* failureCount of the mutation
    status,     \* of the answer to the present try, 0 before one
    body,       \* and what was read of it, Unread before that
    result,     \* of the last try that is over
    sent        \* history: requests sent for the call

vars == <<call, pc, timer, failures, status, body, result, sent>>

(* Operators named Thing_Bug are mutants of Thing. *)

Function == {"calculateBilling", "getPaymentStatement", "processPayment"}

\* There is no hook for the statements of a month.
Call ==
    {c \in [function : Function, hook : BOOLEAN, valid : BOOLEAN] :
        c.function = "getPaymentStatement" => ~c.hook}

ErrorCode == {"VALIDATION_ERROR", "AUTH_ERROR", "API_ERROR", "NETWORK_ERROR", "UNKNOWN_ERROR"}

\* What an object may be, as far as validateBillingStatement,
\* validatePaymentResult and the checks after it tell: a statement, a payment with
\* a good, an empty or a bad date, a list of statements that is empty or has a good
\* or a bad one first, something else, or {}.
Payload ==
    {"statement", "payment", "undated payment", "misdated payment",
     "no statements", "statements", "bad statements", "other", "empty"}

\* An answer's JSON: data is what the field of that name holds, rest what is in
\* the other fields but the header.  What is not an object has no header either.
Json == [header : BOOLEAN, data : Payload \cup {"missing", "null", "scalar"}, rest : Payload]
Answer(kind, json) == [kind |-> kind, json |-> json]
NoJson == [header |-> FALSE, data |-> "missing", rest |-> "empty"]
Unread == Answer("unread", NoJson)
Body == {Answer("not JSON", NoJson), Answer("null", NoJson)} \cup [kind : {"JSON"}, json : Json]

------------------------------------------------------------------------------
(* Reading an answer.                                                        *)

response_ok(s) == s \in 200 .. 299

getErrorCodeForStatus(s) ==
    CASE s \in {400, 422} -> "VALIDATION_ERROR"
      [] s \in {401, 403} -> "AUTH_ERROR"
      [] s \in (400 .. 599) \ {400, 401, 403, 422} -> "API_ERROR"
      [] OTHER -> "UNKNOWN_ERROR"

\* A header that cannot be read off null is an error of another kind.
extractDataFromResponse(answer) ==
    CASE answer.kind = "not JSON" -> "API_ERROR"
      [] answer.kind = "null" -> "UNKNOWN_ERROR"
      [] answer.kind = "JSON" ->
            IF ~answer.json.header THEN "API_ERROR"
            ELSE IF answer.json.data \in {"null", "scalar"} THEN "API_ERROR"
            ELSE IF answer.json.data # "missing" THEN answer.json.data
            ELSE IF answer.json.rest = "empty" THEN "API_ERROR"
            ELSE answer.json.rest

Checked(data, asked, found) ==
    IF data \in ErrorCode THEN data ELSE IF data = asked THEN found ELSE "API_ERROR"

extractStatementFromResponse(data) == Checked(data, "statement", "statement")

\* The first of the list.
FirstStatement(data) == Checked(data, "statements", "statement")

DatedPayment_Unchecked(data) ==
    IF data \in {"undated payment", "misdated payment"} THEN "payment"
    ELSE Checked(data, "payment", "payment")
DatedPayment(data) == Checked(data, "payment", "payment")

Outcome(function, answer) ==
    LET data == extractDataFromResponse(answer)
    IN  CASE function = "calculateBilling" -> extractStatementFromResponse(data)
          [] function = "getPaymentStatement" -> FirstStatement(data)
          [] function = "processPayment" -> DatedPayment(data)

------------------------------------------------------------------------------
(* Tries.                                                                    *)

\* Without a hook an error is the caller's; a hook retries whatever the error.
MaxRetries_AnyHook(c) == IF c.hook THEN 2 ELSE 0
MaxRetries(c) == IF c.hook /\ c.function = "calculateBilling" THEN 2 ELSE 0

Begin ==
    /\ pc \in {"idle", "settled"}
    /\ call' \in Call
    /\ pc' = "starting"
    /\ failures' = 0 /\ sent' = 0
    /\ status' = 0 /\ body' = Unread
    /\ result' = "none"
    /\ UNCHANGED timer

Fails(code) ==
    /\ result' = code
    /\ timer' = FALSE
    /\ IF failures < MaxRetries(call)
          THEN pc' = "waiting" /\ failures' = failures + 1
          ELSE pc' = "settled" /\ UNCHANGED failures
    /\ UNCHANGED <<call, sent>>

Succeeds(found) ==
    /\ result' = found
    /\ pc' = "settled"
    /\ UNCHANGED <<call, timer, failures, sent>>

\* validateBillingInput, validatePaymentRequest: nothing is sent.
Refuse ==
    /\ pc = "starting" /\ ~call.valid
    /\ Fails("VALIDATION_ERROR")
    /\ UNCHANGED <<status, body>>

TimerStarted_Never == FALSE
TimerStarted == TRUE

\* createAbortController, fetch.
Send ==
    /\ pc = "starting" /\ call.valid
    /\ pc' = "fetching"
    /\ timer' = TimerStarted
    /\ sent' = sent + 1
    /\ UNCHANGED <<call, failures, status, body, result>>

\* The headers are there.  What is returned is not awaited, so that the timer is
\* cleared now and not when the body has been read.
Respond ==
    /\ pc = "fetching"
    /\ status' \in Status
    /\ pc' = "reading"
    /\ timer' = FALSE
    /\ UNCHANGED <<call, failures, body, result, sent>>

\* The request may have reached the server nevertheless.
NetworkFails ==
    /\ pc = "fetching"
    /\ Fails("NETWORK_ERROR")
    /\ UNCHANGED <<status, body>>

TimeOut ==
    /\ pc = "fetching" /\ timer
    /\ Fails("NETWORK_ERROR")
    /\ UNCHANGED <<status, body>>

\* handleResponse: the text of an error goes into its message, also when it cannot
\* be read.
ReadError ==
    /\ pc = "reading" /\ ~response_ok(status)
    /\ Fails(getErrorCodeForStatus(status))
    /\ UNCHANGED <<status, body>>

ReadBody ==
    /\ pc = "reading" /\ response_ok(status)
    /\ body' \in Body
    /\ LET outcome == Outcome(call.function, body')
       IN  IF outcome \in ErrorCode THEN Fails(outcome) ELSE Succeeds(outcome)
    /\ UNCHANGED status

\* The rest of the body does not come: nothing is waiting for that.
Stall ==
    /\ pc = "reading"
    /\ pc' = "stalled"
    /\ UNCHANGED <<call, timer, failures, status, body, result, sent>>

Resume ==
    /\ pc = "stalled"
    /\ pc' = "reading"
    /\ UNCHANGED <<call, timer, failures, status, body, result, sent>>

\* After retryDelay, 1000 and 2000 ms.
Retry ==
    /\ pc = "waiting"
    /\ pc' = "starting"
    /\ status' = 0 /\ body' = Unread
    /\ UNCHANGED <<call, timer, failures, result, sent>>

------------------------------------------------------------------------------

Init ==
    /\ call \in Call
    /\ pc = "idle"
    /\ timer = FALSE
    /\ failures = 0 /\ sent = 0
    /\ status = 0 /\ body = Unread
    /\ result = "none"

Next ==
    \/ Begin \/ Refuse \/ Send
    \/ Respond \/ NetworkFails \/ TimeOut
    \/ ReadError \/ ReadBody \/ Stall \/ Resume
    \/ Retry

\* Timers fire, promises are resolved, and a body comes or does not; an answer
\* need not come.
Fairness ==
    /\ WF_vars(Refuse) /\ WF_vars(Send)
    /\ WF_vars(TimeOut) /\ WF_vars(Retry)
    /\ WF_vars(ReadError \/ ReadBody \/ Stall)

Spec == Init /\ [][Next]_vars /\ Fairness

------------------------------------------------------------------------------
(* Properties.                                                               *)

Asked(function) == IF function = "processPayment" THEN "payment" ELSE "statement"
Sought(function) == IF function = "getPaymentStatement" THEN "statements" ELSE Asked(function)

\* In either of the formats billing-api.ts:19-35 documents, of which the newer one
\* goes first.
Holds(answer, payload) ==
    /\ answer.kind = "JSON" /\ answer.json.header
    /\ \/ answer.json.data = payload
       \/ answer.json.data = "missing" /\ answer.json.rest = payload

\* A call succeeds exactly when the answer to its last try was a success that
\* carried, in one of the two formats, what was asked for, a payment with a date
\* that is one; what it then gives is that.  Otherwise the caller is told an error,
\* that the request is not valid only if none was sent or the server said so, and
\* that the network failed only if there was no answer.
ResultOfLastAnswer ==
    pc = "settled" =>
        LET answered == response_ok(status) /\ Holds(body, Sought(call.function))
        IN  /\ answered => result = Asked(call.function)
            /\ ~answered => result \in ErrorCode
            /\ result = "VALIDATION_ERROR" => sent = 0 \/ status \in {400, 422}
            /\ result = "NETWORK_ERROR" <=> sent > 0 /\ status = 0

\* However its tries end, a payment is sent once at most ("Payments should not be
\* retried automatically", query.ts:80) and a calculation three times; no timer
\* outlives the wait for an answer, to abort a later try.
TriesBounded ==
    /\ sent <= (IF call.hook /\ call.function = "calculateBilling" THEN 3 ELSE 1)
    /\ timer => pc = "fetching"

\* A call that has begun gets its result, although the server need not answer,
\* unless it answers and the body then stops coming.
Settles == pc = "starting" ~> pc \in {"settled", "stalled"}
==============================================================================
