--------------------------- MODULE PaymentManager ---------------------------
(***************************************************************************)
(* Paying the month's statement through libs/Payments.py: PaymentManager   *)
(* reads and changes the status of one payment group in a billing backend, *)
(* over a BillingAPIClient (libs/http_client.py) whose adapter sends a     *)
(* failed request again, POST, PUT and DELETE included, and with its own   *)
(* retry around that.                                                      *)
(*                                                                         *)
(* What a call does depends on the class of the client the manager was     *)
(* given:                                                                  *)
(*   "Injected"          a client with the methods the manager looks for,  *)
(*                       as the tests inject one;                          *)
(*   "PaymentAPIClient"  the default: its PUT and POST pass json= to a     *)
(*                       request() that passes json= too, a TypeError      *)
(*                       before anything is sent;                          *)
(*   "BillingAPIClient"  has no change_status (the manager answers a mock  *)
(*                       success), no cancel_payment (AttributeError), and *)
(*                       pays through PaymentAPIWrapper.                   *)
(*                                                                         *)
(* The backend is not in src/: what it does with a request is external,    *)
(* modelled from what the manager expects of it.                           *)
(***************************************************************************)
EXTENDS Integers, FiniteSets

CONSTANTS
    Manager,         \* the PaymentManagers that work on the payment group
    Client,          \* the classes of client considered
    max_retries,     \* attempts of make_payment
    RetryTotal,      \* RetryConfig.total: retries the adapter adds to a request
    MaxCalls         \* bound: calls made in a behaviour

ASSUME ManagerAssumption == Manager # {}
ASSUME ClientAssumption == Client \subseteq {"Injected", "PaymentAPIClient", "BillingAPIClient"}
ASSUME RetryAssumption == max_retries \in Nat \ {0} /\ RetryTotal \in Nat
ASSUME BoundAssumption == MaxCalls \in Nat

VARIABLES
    client,   \* the class of the managers' client in this behaviour
    status,   \* the backend's status of the payment group
    charged,  \* how many payments the backend has executed
    call,     \* what each manager is doing
    answer,   \* what the last call of each manager came to
    misread,  \* history: in its last call a manager took for a success an answer
              \* in text to a request that the backend had not served
    calls     \* calls made so far

vars == <<client, status, charged, call, answer, misread, calls>>

(* Operators named Thing_Bug are mutants of Thing. *)

\* "NONE" is a month without a statement, hence without a payment group.
PaymentStatus == {"NONE", "READY", "REGISTERED", "PAID", "CANCELLED"}

\* request: the HTTP request in progress; attempt: make_payment's; tries: the
\* adapter's retries of the request; before: history, the payments the backend
\* had executed when the call began.
Call == [op : {"none", "prepare", "pay"},
         request : {"none", "get_status", "cancel", "change", "pay"},
         attempt : 0 .. max_retries - 1, tries : 0 .. RetryTotal, before : Nat]
Idle == [op |-> "none", request |-> "none", attempt |-> 0, tries |-> 0, before |-> 0]

\* What a call came to: it raised, or it returned a status; executed: history,
\* the payments the backend executed while it ran.
Answer == [op : {"none", "prepare", "pay"}, raised : BOOLEAN, status : PaymentStatus,
           executed : Nat]
NoAnswer == [op |-> "none", raised |-> FALSE, status |-> "NONE", executed |-> 0]

CanCall(m) == call[m].op = "none" /\ calls < MaxCalls

\* Send request r next.
Sending(m, r) == [call[m] EXCEPT !.request = r, !.tries = 0]

\* The call is over.
Return(m, raised, s) ==
    /\ call' = [call EXCEPT ![m] = Idle]
    /\ answer' = [answer EXCEPT ![m] = [op |-> call[m].op, raised |-> raised, status |-> s,
                                        executed |-> charged' - call[m].before]]

------------------------------------------------------------------------------
(* The backend (external). *)

\* What a request does when it is served.
Served(r) ==
    /\ status' = CASE r = "cancel" -> "CANCELLED"
                   [] r = "change" -> "REGISTERED"
                   [] r = "pay"    -> "PAID"
                   [] OTHER        -> status
    /\ charged' = IF r = "pay" THEN charged + 1 ELSE charged

NotServed == UNCHANGED <<status, charged>>

------------------------------------------------------------------------------
(* The client. *)

\* What comes of asking a client of each class for a request.
Unsupported(r) ==
    \/ client = "PaymentAPIClient" /\ r \in {"change", "pay"}
    \/ client = "BillingAPIClient" /\ r = "cancel"
Mocked(r) == client = "BillingAPIClient" /\ r = "change"
Sent(r) == ~Unsupported(r) /\ ~Mocked(r)

InRequest(m) == call[m].request # "none"

\* The adapter's retries of a request are used up.
NoMoreTries_OneMore(m) == call[m].tries > RetryTotal
NoMoreTries(m) == call[m].tries >= RetryTotal

\* make_payment's attempts are used up; nothing else is attempted twice.
LastAttempt_OneMore(m) == call[m].op = "prepare" \/ call[m].attempt = max_retries
LastAttempt(m) == call[m].op = "prepare" \/ call[m].attempt = max_retries - 1

\* When make_payment has failed for the last time it raises the last error.
FailureRaises_ReturnsNone == FALSE
FailureRaises == TRUE

\* What prepare_payment asks for next, when its request has been answered.
NextRequest_NoReset(m) ==
    CASE call[m].request = "get_status" /\ status = "PAID"  -> "cancel"
      [] call[m].request = "get_status" /\ status = "READY" -> "change"
      [] OTHER                                              -> "none"
NextRequest_Polls(m) ==
    CASE call[m].request = "get_status" /\ status = "PAID"      -> "cancel"
      [] call[m].request = "get_status" /\ status = "READY"     -> "change"
      [] call[m].request = "get_status" /\ status = "CANCELLED" -> "get_status"
      [] call[m].request = "cancel"                             -> "change"
      [] OTHER                                                  -> "none"
NextRequest_NoCancel(m) ==
    IF call[m].request = "get_status" /\ status \in {"PAID", "READY"} THEN "change" ELSE "none"
NextRequest(m) ==
    CASE call[m].request = "get_status" /\ status = "PAID"  -> "cancel"
      [] call[m].request = "get_status" /\ status = "READY" -> "change"
      [] call[m].request = "cancel"                         -> "change"
      [] OTHER                                              -> "none"

\* A status is asked for and there is no payment: ValidationException.
NoPaymentFound(m) == call[m].request = "get_status" /\ status = "NONE"

\* The status the call returns if it does not raise: that of the answer to
\* get_status, REGISTERED once the change is asked for, PAID after a payment.
Returned(m) ==
    CASE call[m].request = "get_status"          -> status
      [] call[m].request \in {"cancel", "change"} -> "REGISTERED"
      [] OTHER                                   -> "PAID"

\* A request was answered: the call goes on to the next, or returns.
Answered(m) ==
    IF NextRequest(m) = "none"
      THEN Return(m, NoPaymentFound(m), Returned(m))
      ELSE call' = [call EXCEPT ![m] = Sending(m, NextRequest(m))] /\ UNCHANGED answer

\* A try is served and answered with success.
RequestAnswered(m) ==
    /\ InRequest(m) /\ Sent(call[m].request)
    /\ Served(call[m].request)
    /\ Answered(m)
    /\ UNCHANGED <<client, misread, calls>>

\* A try is answered in text, an error page of a gateway or a login page, and
\* nothing sends it again (its status is not retried, or the retries are used
\* up): _validate_response returns {"text": ...} before it looks at the status.
\* To get_status that is no statement; any other request has passed.
TextAnswered(m) ==
    /\ InRequest(m) /\ Sent(call[m].request)
    /\ \/ Served(call[m].request) /\ UNCHANGED misread
       \/ NotServed /\ misread' = [misread EXCEPT ![m] = TRUE]
    /\ IF call[m].request = "get_status"
         THEN Return(m, TRUE, Returned(m))
         ELSE Answered(m)
    /\ UNCHANGED <<client, calls>>

\* A try fails with tries left (a connection error before it is served, a read
\* timeout or a 5xx after), and the adapter sends the request again.
TryFails(m) ==
    /\ InRequest(m) /\ Sent(call[m].request) /\ ~NoMoreTries(m)
    /\ Served(call[m].request) \/ NotServed
    /\ call' = [call EXCEPT ![m].tries = @ + 1]
    /\ UNCHANGED <<client, answer, misread, calls>>

\* The last try fails: APIRequestException.  make_payment catches it and makes
\* another attempt while it has one; every other call raises it.
RequestFails(m) ==
    /\ InRequest(m) /\ Sent(call[m].request) /\ NoMoreTries(m)
    /\ Served(call[m].request) \/ NotServed
    /\ IF LastAttempt(m)
         THEN Return(m, FailureRaises, Returned(m))
         ELSE /\ call' = [call EXCEPT ![m] = [Sending(m, "pay") EXCEPT !.attempt = @ + 1]]
              /\ UNCHANGED answer
    /\ UNCHANGED <<client, misread, calls>>

\* change_status not supported, returning mock success.
MockSuccess(m) ==
    /\ InRequest(m) /\ Mocked(call[m].request)
    /\ NotServed
    /\ Answered(m)
    /\ UNCHANGED <<client, misread, calls>>

\* A TypeError or AttributeError: nothing catches it.
CallCrashes(m) ==
    /\ InRequest(m) /\ Unsupported(call[m].request)
    /\ NotServed
    /\ Return(m, TRUE, Returned(m))
    /\ UNCHANGED <<client, misread, calls>>

------------------------------------------------------------------------------
(* The calls of the manager. *)

Begin(m, op, request) ==
    /\ CanCall(m)
    /\ calls' = calls + 1
    /\ call' = [call EXCEPT ![m] = [Idle EXCEPT !.op = op, !.request = request,
                                                !.before = charged]]
    /\ answer' = [answer EXCEPT ![m] = NoAnswer]
    /\ misread' = [misread EXCEPT ![m] = FALSE]
    /\ UNCHANGED <<client, status, charged>>

\* prepare_payment.  EnvironmentPreparer.prepare makes the same requests; where
\* this call raises, that one raises too or answers UNKNOWN.
PreparePayment(m) == Begin(m, "prepare", "get_status")

\* make_payment, for a payment group the caller has the id of; its status is not
\* looked at.  (retry_on_failure=False is max_retries = 1.)
MakePayment(m) == status # "NONE" /\ Begin(m, "pay", "pay")

\* The backend has the month's statement, or none yet.
Init ==
    /\ client \in Client
    /\ status \in {"NONE", "READY", "REGISTERED", "PAID"}
    /\ charged = 0
    /\ call = [m \in Manager |-> Idle]
    /\ answer = [m \in Manager |-> NoAnswer]
    /\ misread = [m \in Manager |-> FALSE]
    /\ calls = 0

Progress(m) ==
    \/ RequestAnswered(m)
    \/ TextAnswered(m)
    \/ TryFails(m)
    \/ RequestFails(m)
    \/ MockSuccess(m)
    \/ CallCrashes(m)

Next == \E m \in Manager : PreparePayment(m) \/ MakePayment(m) \/ Progress(m)

Spec == Init /\ [][Next]_vars

\* A manager that has sent a request hears of it: an answer, or its timeout.
FairSpec == Spec /\ \A m \in Manager : WF_vars(Progress(m))

------------------------------------------------------------------------------
(* Properties. *)

\* The type invariant.
TypeOK ==
    /\ client \in Client
    /\ status \in PaymentStatus
    /\ charged \in Nat
    /\ call \in [Manager -> Call]
    /\ answer \in [Manager -> Answer]
    /\ misread \in [Manager -> BOOLEAN]
    /\ calls \in 0 .. MaxCalls

Returns(m, op) == call[m].op = "none" /\ answer[m].op = op /\ ~answer[m].raised

\* prepare_payment that says REGISTERED is right, whatever was lost or sent
\* twice on the way, unless it took an answer in text for the success of a
\* request that was not served.  With a BillingAPIClient the change of status is
\* a mock success, and the answer says nothing of the payment.
PreparedMeansRegistered ==
    client # "BillingAPIClient" =>
        \A m \in Manager :
            Returns(m, "prepare") /\ ~misread[m] /\ answer[m].status = "REGISTERED"
                => status = "REGISTERED"

\* A call in progress has taken a text for the success of what was not served.
TextPassed == \E m \in Manager : InRequest(m) /\ misread[m]

\* A payment is taken back only by cancelling it: prepare_payment never puts a
\* PAID payment back to REGISTERED in one step, whatever is retried when, unless
\* a text it was answered with passed for the cancellation.
PaidIsCancelledFirst ==
    [][status = "PAID" /\ status' # "PAID" => status' = "CANCELLED" \/ TextPassed]_vars

\* make_payment returns only if the backend has executed a payment for it, or
\* answered in text without executing it.
PaidMeansExecuted ==
    \A m \in Manager :
        Returns(m, "pay") /\ ~misread[m] => answer[m].executed > 0 /\ status = "PAID"

\* The two layers of retries multiply, and no more: one call of make_payment
\* has at most this many payments executed.
ExecutionsBounded ==
    \A m \in Manager :
        answer[m].op = "pay" => answer[m].executed <= max_retries * (RetryTotal + 1)

\* Every call returns or raises, however long the backend fails.
CallsReturn == \A m \in Manager : call[m].op # "none" ~> call[m].op = "none"
==============================================================================
