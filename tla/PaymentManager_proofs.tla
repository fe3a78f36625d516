------------------------ MODULE PaymentManager_proofs ------------------------
(***************************************************************************)
(* Proofs about PaymentManager, for every number of attempts and of the    *)
(* adapter's retries: types, and of a manager that is alone on its payment *)
(* group, that prepare_payment tells the truth when it says REGISTERED,    *)
(* that the two layers of retries multiply to no more than their product,  *)
(* that make_payment returns only of a payment that was executed, and that *)
(* a paid one is cancelled before it is anything else (PaidInv).           *)
(***************************************************************************)
EXTENDS PaymentManager, TLAPS

------------------------------------------------------------------------------
(* Typing. *)

LEMMA IdleType == Idle \in Call
    BY RetryAssumption DEF Idle, Call

\* Sending the next request of a call keeps it a call.
LEMMA SendingType ==
    ASSUME TypeOK, NEW m \in Manager,
           NEW r \in {"none", "get_status", "cancel", "change", "pay"}
    PROVE  /\ Sending(m, r) \in Call
           /\ call[m].attempt < max_retries - 1 =>
                 [Sending(m, r) EXCEPT !.attempt = @ + 1] \in Call
<1>1. call[m] \in Call /\ 0 \in 0 .. RetryTotal
    BY RetryAssumption DEF TypeOK
<1>2. Sending(m, r) \in Call
    BY <1>1 DEF Call, Sending
<1>3. Sending(m, r).attempt = call[m].attempt
    BY <1>1 DEF Call, Sending
<1>4. ASSUME call[m].attempt < max_retries - 1
      PROVE  call[m].attempt + 1 \in 0 .. max_retries - 1
    BY <1>1, <1>4, RetryAssumption DEF Call
<1> HIDE DEF Sending
<1> QED BY <1>2, <1>3, <1>4 DEF Call

\* A call that is over leaves the manager idle, with a well-formed answer.
LEMMA ReturnType ==
    ASSUME TypeOK, NEW m \in Manager, NEW raised \in BOOLEAN, NEW s \in PaymentStatus,
           charged' \in Nat, charged' >= call[m].before,
           Return(m, raised, s)
    PROVE  call' \in [Manager -> Call] /\ answer' \in [Manager -> Answer]
<1>1. charged' - call[m].before \in Nat
    BY DEF TypeOK, Call
<1>2. [op |-> call[m].op, raised |-> raised, status |-> s,
       executed |-> charged' - call[m].before] \in Answer
    BY <1>1 DEF TypeOK, Call, Answer
<1> QED BY <1>2, IdleType DEF TypeOK, Return

\* The backend's counter only goes up, so it is never below what it was when a
\* call in progress began.
Counted == \A m \in Manager : call[m].before <= charged

TypeInv == TypeOK /\ Counted

LEMMA ServedType ==
    ASSUME TypeOK, NEW r, Served(r) \/ NotServed
    PROVE  /\ status' \in PaymentStatus
           /\ charged' \in {charged, charged + 1}
    BY DEF TypeOK, Served, NotServed, PaymentStatus

LEMMA AnsweredType ==
    ASSUME TypeInv, NEW m \in Manager, charged' \in {charged, charged + 1}, Answered(m)
    PROVE  /\ call' \in [Manager -> Call] /\ answer' \in [Manager -> Answer]
           /\ \A n \in Manager : call'[n].before \in {call[n].before, 0}
<1>1. /\ NextRequest(m) \in {"none", "cancel", "change"}
      /\ Returned(m) \in PaymentStatus
      /\ NoPaymentFound(m) \in BOOLEAN
    BY DEF NextRequest, Returned, NoPaymentFound, TypeInv, TypeOK, PaymentStatus
<1>2. charged' \in Nat /\ charged' >= call[m].before
    BY DEF TypeInv, TypeOK, Counted, Call
<1>3. CASE NextRequest(m) = "none"
  <2>1. Return(m, NoPaymentFound(m), Returned(m))
    BY <1>3 DEF Answered
  <2>2. call' = [call EXCEPT ![m] = Idle]
    BY <2>1 DEF Return
  <2> QED BY <1>1, <1>2, <2>1, <2>2, ReturnType DEF TypeInv, TypeOK, Idle
<1>4. CASE NextRequest(m) # "none"
  <2>1. call' = [call EXCEPT ![m] = Sending(m, NextRequest(m))] /\ UNCHANGED answer
    BY <1>4 DEF Answered
  <2>2. Sending(m, NextRequest(m)).before = call[m].before
    BY DEF Sending, TypeInv, TypeOK, Call
  <2> QED BY <1>1, <2>1, <2>2, SendingType DEF TypeInv, TypeOK
<1> QED BY <1>3, <1>4

\* The step of a call keeps the counter ahead of what it was at its beginning.
LEMMA StepCounted ==
    ASSUME TypeInv, charged' \in {charged, charged + 1},
           \A n \in Manager : call'[n].before \in {call[n].before, 0}
    PROVE  Counted'
<1>1. \A n \in Manager : call[n].before \in Nat /\ call[n].before <= charged
    BY DEF TypeInv, TypeOK, Call, Counted
<1> QED BY <1>1 DEF Counted, TypeInv, TypeOK

LEMMA TypeInit == Init => TypeInv
    BY IdleType, BoundAssumption DEF Init, TypeInv, TypeOK, Counted, Idle, PaymentStatus, NoAnswer, Answer

LEMMA TypeNext ==
    ASSUME TypeInv, [Next]_vars
    PROVE  TypeInv'
<1>0. \A m \in Manager : call[m].before \in Nat
    BY DEF TypeInv, TypeOK, Call
<1>1. CASE UNCHANGED vars
    BY <1>1 DEF vars, TypeInv, TypeOK, Counted
<1>2. ASSUME NEW m \in Manager, PreparePayment(m) \/ MakePayment(m)
      PROVE  TypeInv'
  <2>1. PICK op \in {"prepare", "pay"}, r \in {"get_status", "pay"} : Begin(m, op, r)
    BY <1>2 DEF PreparePayment, MakePayment
  <2>2. [Idle EXCEPT !.op = op, !.request = r, !.before = charged] \in Call
    <3>1. 0 \in 0 .. max_retries - 1 /\ 0 \in 0 .. RetryTotal /\ charged \in Nat
        BY RetryAssumption DEF TypeInv, TypeOK
    <3> QED BY <3>1 DEF Idle, Call
  <2>3. [Idle EXCEPT !.op = op, !.request = r, !.before = charged].before = charged
    BY DEF Idle
  <2>4. calls' \in 0 .. MaxCalls /\ misread' \in [Manager -> BOOLEAN]
    BY <2>1, BoundAssumption DEF Begin, CanCall, TypeInv, TypeOK
  <2>5. NoAnswer \in Answer
    BY DEF NoAnswer, Answer, PaymentStatus
  <2>6. TypeOK'
    BY <2>1, <2>2, <2>4, <2>5 DEF Begin, TypeInv, TypeOK
  <2>7. Counted'
    BY <2>1, <2>3, <1>0 DEF Begin, Counted, TypeInv, TypeOK
  <2> QED BY <2>6, <2>7 DEF TypeInv
<1>3. ASSUME NEW m \in Manager, RequestAnswered(m) \/ MockSuccess(m)
      PROVE  TypeInv'
  <2>1. status' \in PaymentStatus /\ charged' \in {charged, charged + 1}
    BY <1>3, ServedType DEF RequestAnswered, MockSuccess, TypeInv
  <2>2. Answered(m) /\ UNCHANGED <<client, misread, calls>>
    BY <1>3 DEF RequestAnswered, MockSuccess
  <2> QED BY <2>1, <2>2, <1>0, AnsweredType DEF TypeInv, TypeOK, Counted
<1>7. ASSUME NEW m \in Manager, TextAnswered(m)
      PROVE  TypeInv'
  <2>1. status' \in PaymentStatus /\ charged' \in {charged, charged + 1}
    BY <1>7, ServedType DEF TextAnswered, TypeInv
  <2>2. UNCHANGED <<client, calls>> /\ misread' \in [Manager -> BOOLEAN]
    BY <1>7 DEF TextAnswered, TypeInv, TypeOK
  <2>3. CASE Answered(m)
    BY <2>1, <2>2, <2>3, <1>0, AnsweredType DEF TypeInv, TypeOK, Counted
  <2>4. CASE Return(m, TRUE, Returned(m))
    <3>1. charged' \in Nat /\ charged' >= call[m].before
        BY <2>1, <1>0 DEF TypeInv, TypeOK, Counted
    <3>2. Returned(m) \in PaymentStatus
        BY DEF Returned, TypeInv, TypeOK, PaymentStatus
    <3>3. call' \in [Manager -> Call] /\ answer' \in [Manager -> Answer]
        BY <2>4, <3>1, <3>2, ReturnType DEF TypeInv
    <3>4. call' = [call EXCEPT ![m] = Idle]
        BY <2>4 DEF Return
    <3>5. \A n \in Manager : call'[n].before \in {call[n].before, 0}
        BY <3>4 DEF Idle, TypeInv, TypeOK
    <3>6. Counted'
        BY <2>1, <3>5, StepCounted
    <3> QED BY <2>1, <2>2, <3>3, <3>6 DEF TypeInv, TypeOK
  <2> QED BY <1>7, <2>3, <2>4 DEF TextAnswered
<1>4. ASSUME NEW m \in Manager, TryFails(m)
      PROVE  TypeInv'
  <2>1. status' \in PaymentStatus /\ charged' \in {charged, charged + 1}
    BY <1>4, ServedType DEF TryFails, TypeInv
  <2>2. call' = [call EXCEPT ![m].tries = @ + 1] /\ UNCHANGED <<client, answer, misread, calls>>
        /\ call[m].tries < RetryTotal
    BY <1>4, RetryAssumption DEF TryFails, NoMoreTries, TypeInv, TypeOK, Call
  <2>3. [call[m] EXCEPT !.tries = @ + 1] \in Call
    BY <2>2, RetryAssumption DEF TypeInv, TypeOK, Call
  <2>4. \A n \in Manager : call'[n].before = call[n].before
    BY <2>2 DEF TypeInv, TypeOK, Call
  <2> QED BY <2>1, <2>2, <2>3, <2>4, <1>0 DEF TypeInv, TypeOK, Counted
<1>5. ASSUME NEW m \in Manager, RequestFails(m)
      PROVE  TypeInv'
  <2>1. status' \in PaymentStatus /\ charged' \in {charged, charged + 1}
    BY <1>5, ServedType DEF RequestFails, TypeInv
  <2>2. charged' \in Nat /\ charged' >= call[m].before
    BY <2>1, <1>0 DEF TypeInv, TypeOK, Counted
  <2>3. Returned(m) \in PaymentStatus
    BY DEF Returned, TypeInv, TypeOK, PaymentStatus
  <2>4. CASE LastAttempt(m)
    <3>1. Return(m, TRUE, Returned(m)) /\ UNCHANGED <<client, misread, calls>>
        BY <1>5, <2>4 DEF RequestFails, FailureRaises
    <3>2. call' = [call EXCEPT ![m] = Idle]
        BY <3>1 DEF Return
    <3>3. call' \in [Manager -> Call] /\ answer' \in [Manager -> Answer]
        BY <2>2, <2>3, <3>1, ReturnType DEF TypeInv
    <3>4. \A n \in Manager : call'[n].before \in {call[n].before, 0}
        BY <3>2 DEF Idle, TypeInv, TypeOK
    <3>5. Counted'
        BY <2>1, <3>4, StepCounted
    <3> QED BY <2>1, <3>1, <3>3, <3>5 DEF TypeInv, TypeOK
  <2>5. CASE ~LastAttempt(m)
    <3>1. /\ call' = [call EXCEPT ![m] = [Sending(m, "pay") EXCEPT !.attempt = @ + 1]]
          /\ UNCHANGED <<client, answer, misread, calls>>
        BY <1>5, <2>5 DEF RequestFails
    <3>2. call[m].attempt < max_retries - 1
      <4>1. call[m].attempt \in 0 .. max_retries - 1 /\ max_retries \in Nat
        BY RetryAssumption DEF TypeInv, TypeOK, Call
      <4>2. call[m].attempt # max_retries - 1
        BY <2>5 DEF LastAttempt
      <4> QED BY <4>1, <4>2
    <3>3. [Sending(m, "pay") EXCEPT !.attempt = @ + 1].before = call[m].before
        BY DEF Sending, TypeInv, TypeOK, Call
    <3>4. \A n \in Manager : call'[n].before \in {call[n].before, 0}
        BY <3>1, <3>3 DEF TypeInv, TypeOK
    <3>5. Counted'
        BY <2>1, <3>4, StepCounted
    <3>6. [Sending(m, "pay") EXCEPT !.attempt = @ + 1] \in Call
        BY <3>2, SendingType DEF TypeInv
    <3> HIDE DEF Sending
    <3> QED BY <2>1, <3>1, <3>5, <3>6 DEF TypeInv, TypeOK
  <2> QED BY <2>4, <2>5
<1>6. ASSUME NEW m \in Manager, CallCrashes(m)
      PROVE  TypeInv'
  <2>1. UNCHANGED <<client, status, charged, misread, calls>> /\ Return(m, TRUE, Returned(m))
    BY <1>6 DEF CallCrashes, NotServed
  <2>2. Returned(m) \in PaymentStatus
    BY DEF Returned, TypeInv, TypeOK, PaymentStatus
  <2>3. call' = [call EXCEPT ![m] = Idle]
    BY <2>1 DEF Return
  <2>4. call' \in [Manager -> Call] /\ answer' \in [Manager -> Answer]
    <3>1. charged' \in Nat /\ charged' >= call[m].before
        BY <2>1, <1>0 DEF TypeInv, TypeOK, Counted
    <3> QED BY <2>1, <2>2, <3>1, ReturnType DEF TypeInv
  <2>5. \A n \in Manager : call'[n].before \in {call[n].before, 0}
    BY <2>3 DEF Idle, TypeInv, TypeOK
  <2>6. Counted'
    BY <2>1, <2>5, StepCounted
  <2> QED BY <2>1, <2>4, <2>6 DEF TypeInv, TypeOK
<1> QED BY <1>1, <1>2, <1>3, <1>4, <1>5, <1>6, <1>7 DEF Next, Progress

LEMMA TypeAlways == Spec => []TypeInv
<1> QED BY TypeInit, TypeNext, PTL DEF Spec

\* The type invariant, for any number of managers and any class of client.
THEOREM TypeCorrect == Spec => []TypeOK
<1>1. TypeInv => TypeOK
    BY DEF TypeInv
<1> QED BY <1>1, TypeAlways, PTL

------------------------------------------------------------------------------
(* A manager that is alone on its payment group. *)

\* What a call sends: make_payment only the payment, prepare_payment never it.
Consistent ==
    \A m \in Manager :
        /\ call[m].op = "none" => call[m].request = "none"
        /\ call[m].op = "prepare" => call[m].request \in {"get_status", "cancel", "change"}
        /\ call[m].op = "pay" => call[m].request = "pay"

\* A try of a payment that did not end the call has been counted: the attempts
\* before this one had RetryTotal + 1 tries each, this one has had tries.
Tried(m) == call[m].attempt * (RetryTotal + 1) + call[m].tries
Paced == \A m \in Manager : call[m].op = "pay" => charged - call[m].before <= Tried(m)

AloneInv == TypeInv /\ Consistent /\ PreparedMeansRegistered /\ Paced /\ ExecutionsBounded

\* The arithmetic of the two layers.
LEMMA TriesMultiply ==
    ASSUME NEW a \in Nat, NEW n \in Nat, NEW w \in Nat, a < n
    PROVE  /\ (a + 1) * w = a * w + w
           /\ (a + 1) * w <= n * w
           /\ a * w \in Nat /\ n * w \in Nat
<1>1. (a + 1) * w = a * w + w
    BY SMT
<1>2. a * w \in Nat /\ n * w \in Nat
    BY SMT
<1>3. n - (a + 1) \in Nat
    BY SMT
<1>4. (n - (a + 1)) * w \in Nat
    BY <1>3, SMT
<1>5. n * w = (a + 1) * w + (n - (a + 1)) * w
    BY SMT
<1>6. (a + 1) * w <= n * w
    BY <1>1, <1>2, <1>4, <1>5, SMT
<1> QED BY <1>1, <1>2, <1>6

\* The tries of a call never pass those of an attempt less than the last one.
LEMMA TriedBound ==
    ASSUME TypeInv, NEW m \in Manager
    PROVE  /\ Tried(m) \in Nat
           /\ Tried(m) + 1 <= max_retries * (RetryTotal + 1)
           /\ call[m].tries = RetryTotal =>
                  Tried(m) + 1 = (call[m].attempt + 1) * (RetryTotal + 1)
<1>1. /\ call[m].attempt \in Nat /\ call[m].attempt < max_retries
      /\ call[m].tries \in Nat /\ call[m].tries <= RetryTotal
      /\ max_retries \in Nat /\ RetryTotal \in Nat /\ RetryTotal + 1 \in Nat
    BY RetryAssumption DEF TypeInv, TypeOK, Call
<1>2. /\ (call[m].attempt + 1) * (RetryTotal + 1)
           = call[m].attempt * (RetryTotal + 1) + (RetryTotal + 1)
      /\ (call[m].attempt + 1) * (RetryTotal + 1) <= max_retries * (RetryTotal + 1)
      /\ call[m].attempt * (RetryTotal + 1) \in Nat
      /\ max_retries * (RetryTotal + 1) \in Nat
    BY <1>1, TriesMultiply
<1> DEFINE before == call[m].attempt * (RetryTotal + 1)
           next == (call[m].attempt + 1) * (RetryTotal + 1)
           all == max_retries * (RetryTotal + 1)
<1>3. /\ next = before + (RetryTotal + 1) /\ next <= all
      /\ before \in Nat /\ all \in Nat /\ Tried(m) = before + call[m].tries
    BY <1>2 DEF Tried
<1> HIDE DEF before, next, all
<1>4. /\ Tried(m) \in Nat /\ Tried(m) + 1 <= all
      /\ call[m].tries = RetryTotal => Tried(m) + 1 = next
    BY <1>1, <1>3
<1> QED BY <1>4 DEF all, next

\* The manager starts idle, without an answer.
LEMMA AloneInit == Init => AloneInv
<1>1. Init => TypeInv
    BY TypeInit
<1>2. Init => Consistent /\ PreparedMeansRegistered /\ Paced
    BY DEF Init, Consistent, PreparedMeansRegistered, Returns, Paced, Idle, NoAnswer
<1>3. Init => ExecutionsBounded
    BY DEF Init, ExecutionsBounded, NoAnswer
<1> QED BY <1>1, <1>2, <1>3 DEF AloneInv

\* A call that is over: the manager is idle, and its answer keeps both promises.
LEMMA AloneReturn ==
    ASSUME AloneInv, NEW m \in Manager, Manager = {m}, call[m].op # "none",
           NEW raised \in BOOLEAN, NEW s \in PaymentStatus,
           Return(m, raised, s),
           UNCHANGED client,
           (/\ client # "BillingAPIClient" /\ call[m].op = "prepare"
            /\ ~raised /\ ~misread'[m] /\ s = "REGISTERED") => status' = "REGISTERED",
           charged' \in {charged, charged + 1}
    PROVE  (Consistent /\ PreparedMeansRegistered /\ Paced /\ ExecutionsBounded)'
<1>1. call'[m] = Idle
    BY DEF Return, AloneInv, TypeInv, TypeOK
<1>2. answer'[m] = [op |-> call[m].op, raised |-> raised, status |-> s,
                    executed |-> charged' - call[m].before]
    BY DEF Return, AloneInv, TypeInv, TypeOK
<1>3. Consistent' /\ Paced'
    BY <1>1 DEF Consistent, Paced, Idle
<1>4. PreparedMeansRegistered'
    BY <1>1, <1>2 DEF PreparedMeansRegistered, Returns, Idle
<1>5. call[m].op = "pay" => charged' - call[m].before <= max_retries * (RetryTotal + 1)
  <2>1. call[m].op = "pay" => charged - call[m].before <= Tried(m)
    BY DEF AloneInv, Paced
  <2>2. Tried(m) \in Nat /\ Tried(m) + 1 <= max_retries * (RetryTotal + 1)
    BY TriedBound DEF AloneInv
  <2>3. charged \in Nat /\ call[m].before \in Nat /\ max_retries * (RetryTotal + 1) \in Nat
    BY TriesMultiply, RetryAssumption DEF AloneInv, TypeInv, TypeOK, Call
  <2> QED BY <2>1, <2>2, <2>3
<1>6. ExecutionsBounded'
    BY <1>2, <1>5 DEF ExecutionsBounded
<1> QED BY <1>3, <1>4, <1>6

\* One more try of the same call: it has not answered, and the try is counted.
LEMMA AloneContinue ==
    ASSUME AloneInv, NEW m \in Manager, Manager = {m}, call[m].op # "none",
           call' = [call EXCEPT ![m] = call'[m]], UNCHANGED <<client, answer>>,
           call'[m].op = call[m].op,
           call[m].op = "prepare" => call'[m].request \in {"get_status", "cancel", "change"},
           call[m].op = "pay" => /\ call'[m].request = "pay"
                                 /\ call'[m].before = call[m].before
                                 /\ Tried(m)' = Tried(m) + 1,
           charged' \in {charged, charged + 1}
    PROVE  (Consistent /\ PreparedMeansRegistered /\ Paced /\ ExecutionsBounded)'
<1>1. Consistent'
    BY DEF Consistent, AloneInv, TypeInv, TypeOK, Call
<1>2. PreparedMeansRegistered'
    BY DEF PreparedMeansRegistered, Returns, AloneInv
<1>3. Paced'
  <2>1. Tried(m) \in Nat /\ charged \in Nat /\ call[m].before \in Nat
    BY TriedBound DEF AloneInv, TypeInv, TypeOK, Call
  <2>2. ASSUME call'[m].op = "pay"
        PROVE  charged' - call'[m].before <= Tried(m)'
    <3>1. charged - call[m].before <= Tried(m)
        BY <2>2 DEF AloneInv, Paced
    <3>2. call'[m].before = call[m].before /\ Tried(m)' = Tried(m) + 1
        BY <2>2
    <3>3. charged' - call[m].before <= Tried(m) + 1
        BY <2>1, <3>1
    <3> QED BY <3>2, <3>3
  <2> HIDE DEF Tried
  <2> QED BY <2>2 DEF Paced
<1>4. ExecutionsBounded'
    BY DEF ExecutionsBounded, AloneInv
<1> QED BY <1>1, <1>2, <1>3, <1>4

LEMMA AloneNext ==
    ASSUME AloneInv, [Next]_vars, NEW m \in Manager, Manager = {m}
    PROVE  AloneInv'
<1>1. TypeInv'
    BY TypeNext DEF AloneInv
<1>9. UNCHANGED client
    BY DEF vars, Next, PreparePayment, MakePayment, Begin, Progress, RequestAnswered,
           TextAnswered, TryFails, RequestFails, MockSuccess, CallCrashes
<1>2. CASE UNCHANGED vars
  <2>1. (Consistent /\ PreparedMeansRegistered /\ ExecutionsBounded)'
    BY <1>2 DEF AloneInv, vars, Consistent, PreparedMeansRegistered, Returns, ExecutionsBounded
  <2>2. Paced'
    BY <1>2 DEF AloneInv, vars, Paced, Tried
  <2> QED BY <1>1, <2>1, <2>2 DEF AloneInv
<1>3. CASE PreparePayment(m) \/ MakePayment(m)
  <2>1. PICK op \in {"prepare", "pay"}, r \in {"get_status", "pay"} :
            /\ Begin(m, op, r)
            /\ r = IF op = "pay" THEN "pay" ELSE "get_status"
    BY <1>3 DEF PreparePayment, MakePayment
  <2>2. /\ call'[m].op = op /\ call'[m].request = r /\ call'[m].before = charged
        /\ call'[m].attempt = 0 /\ call'[m].tries = 0
        /\ answer'[m] = NoAnswer /\ charged' = charged
    BY <2>1 DEF Begin, Idle, AloneInv, TypeInv, TypeOK
  <2>3. Consistent'
    BY <2>1, <2>2 DEF Consistent
  <2>4. PreparedMeansRegistered' /\ ExecutionsBounded'
    BY <2>2 DEF PreparedMeansRegistered, Returns, ExecutionsBounded, NoAnswer
  <2>5. charged' - call'[m].before = 0
    BY <2>2 DEF AloneInv, TypeInv, TypeOK
  <2>6. Tried(m)' = 0
    <3>1. 0 * (RetryTotal + 1) + 0 = 0
        BY RetryAssumption
    <3> QED BY <2>2, <3>1 DEF Tried
  <2>7. Paced'
    BY <2>5, <2>6 DEF Paced
  <2> QED BY <1>1, <2>3, <2>4, <2>7 DEF AloneInv
<1>4. CASE RequestAnswered(m)
  <2>1. /\ Served(call[m].request) /\ Answered(m) /\ call[m].request # "none"
        /\ call[m].op # "none"
    BY <1>4 DEF RequestAnswered, InRequest, AloneInv, Consistent
  <2>2. charged' \in {charged, charged + 1}
    BY <2>1, ServedType DEF AloneInv, TypeInv
  <2>3. CASE NextRequest(m) = "none"
    <3>1. Return(m, NoPaymentFound(m), Returned(m))
        BY <2>1, <2>3 DEF Answered
    <3>2. NoPaymentFound(m) \in BOOLEAN /\ Returned(m) \in PaymentStatus
        BY DEF NoPaymentFound, Returned, PaymentStatus, AloneInv, TypeInv, TypeOK
    <3>3. call[m].op = "prepare" /\ Returned(m) = "REGISTERED" => status' = "REGISTERED"
        BY <2>1, <2>3 DEF Served, Returned, NextRequest, AloneInv, Consistent
    <3> QED BY <1>1, <2>1, <2>2, <3>1, <3>2, <3>3, <1>9, AloneReturn DEF AloneInv
  <2>4. CASE NextRequest(m) # "none"
    <3>1. call' = [call EXCEPT ![m] = Sending(m, NextRequest(m))] /\ UNCHANGED answer
        BY <2>1, <2>4 DEF Answered
    <3>2. call[m].request \in {"get_status", "cancel"} /\ NextRequest(m) \in {"cancel", "change"}
        BY <2>4 DEF NextRequest
    <3>3. call[m].op = "prepare"
        BY <3>2 DEF AloneInv, Consistent, TypeInv, TypeOK, Call
    <3>4. call'[m].op = call[m].op /\ call'[m].request \in {"cancel", "change"}
        BY <3>1, <3>2 DEF Sending, AloneInv, TypeInv, TypeOK, Call
    <3>5. call' = [call EXCEPT ![m] = call'[m]]
        BY <3>1 DEF AloneInv, TypeInv, TypeOK
    <3> QED BY <1>1, <2>2, <3>1, <3>3, <3>4, <3>5, <1>9, AloneContinue DEF AloneInv
  <2> QED BY <2>3, <2>4
<1>10. CASE TextAnswered(m)
  <2>1. /\ Served(call[m].request) \/ (NotServed /\ misread'[m])
        /\ call[m].request # "none" /\ call[m].op # "none"
    BY <1>10 DEF TextAnswered, InRequest, AloneInv, Consistent, TypeInv, TypeOK
  <2>2. charged' \in {charged, charged + 1}
    BY <2>1, ServedType DEF AloneInv, TypeInv
  <2>3. NoPaymentFound(m) \in BOOLEAN /\ Returned(m) \in PaymentStatus
    BY DEF NoPaymentFound, Returned, PaymentStatus, AloneInv, TypeInv, TypeOK
  <2>4. CASE call[m].request = "get_status"
    <3>1. Return(m, TRUE, Returned(m))
        BY <1>10, <2>4 DEF TextAnswered
    <3> QED BY <1>1, <2>1, <2>2, <2>3, <3>1, <1>9, AloneReturn DEF AloneInv
  <2>5. CASE call[m].request # "get_status" /\ NextRequest(m) = "none"
    <3>1. Return(m, NoPaymentFound(m), Returned(m))
        BY <1>10, <2>5 DEF TextAnswered, Answered
    <3>2. call[m].op = "prepare" /\ ~misread'[m] => status' = "REGISTERED"
        BY <2>1, <2>5 DEF Served, NextRequest, AloneInv, Consistent
    <3> QED BY <1>1, <2>1, <2>2, <2>3, <3>1, <3>2, <1>9, AloneReturn DEF AloneInv
  <2>6. CASE call[m].request # "get_status" /\ NextRequest(m) # "none"
    <3>1. call' = [call EXCEPT ![m] = Sending(m, NextRequest(m))] /\ UNCHANGED answer
        BY <1>10, <2>6 DEF TextAnswered, Answered
    <3>2. call[m].request = "cancel" /\ NextRequest(m) = "change"
        BY <2>6 DEF NextRequest
    <3>3. call[m].op = "prepare"
        BY <3>2 DEF AloneInv, Consistent, TypeInv, TypeOK, Call
    <3>4. call'[m].op = call[m].op /\ call'[m].request = "change"
        BY <3>1, <3>2 DEF Sending, AloneInv, TypeInv, TypeOK, Call
    <3>5. call' = [call EXCEPT ![m] = call'[m]]
        BY <3>1 DEF AloneInv, TypeInv, TypeOK
    <3> QED BY <1>1, <2>1, <2>2, <3>1, <3>3, <3>4, <3>5, <1>9, AloneContinue DEF AloneInv
  <2> QED BY <2>4, <2>5, <2>6
<1>5. CASE TryFails(m)
  <2>1. /\ Served(call[m].request) \/ NotServed
        /\ call' = [call EXCEPT ![m].tries = @ + 1] /\ UNCHANGED answer
        /\ call[m].request # "none" /\ call[m].op # "none"
    BY <1>5 DEF TryFails, InRequest, AloneInv, Consistent
  <2>2. charged' \in {charged, charged + 1}
    BY <2>1, ServedType DEF AloneInv, TypeInv
  <2>3. /\ call'[m].op = call[m].op /\ call'[m].request = call[m].request
        /\ call'[m].before = call[m].before /\ call'[m].attempt = call[m].attempt
        /\ call'[m].tries = call[m].tries + 1
        /\ call' = [call EXCEPT ![m] = call'[m]]
    BY <2>1 DEF AloneInv, TypeInv, TypeOK, Call
  <2>4. Tried(m)' = Tried(m) + 1
    <3>1. call[m].tries \in Nat /\ call[m].attempt * (RetryTotal + 1) \in Nat
        BY RetryAssumption, TriesMultiply DEF AloneInv, TypeInv, TypeOK, Call
    <3> QED BY <2>3, <3>1 DEF Tried
  <2> QED BY <1>1, <2>1, <2>2, <2>3, <2>4, <1>9, AloneContinue DEF AloneInv, Consistent
<1>6. CASE RequestFails(m)
  <2>1. /\ Served(call[m].request) \/ NotServed
        /\ call[m].request # "none" /\ call[m].op # "none"
    BY <1>6 DEF RequestFails, InRequest, AloneInv, Consistent
  <2>2. charged' \in {charged, charged + 1}
    BY <2>1, ServedType DEF AloneInv, TypeInv
  <2>3. CASE LastAttempt(m)
    <3>1. Return(m, TRUE, Returned(m))
        BY <1>6, <2>3 DEF RequestFails, FailureRaises
    <3>2. Returned(m) \in PaymentStatus
        BY DEF Returned, PaymentStatus, AloneInv, TypeInv, TypeOK
    <3> QED BY <1>1, <2>1, <2>2, <3>1, <3>2, <1>9, AloneReturn DEF AloneInv
  <2>4. CASE ~LastAttempt(m)
    <3>1. /\ call' = [call EXCEPT ![m] = [Sending(m, "pay") EXCEPT !.attempt = @ + 1]]
          /\ UNCHANGED answer
        BY <1>6, <2>4 DEF RequestFails
    <3>2. call[m].op = "pay" /\ call[m].tries = RetryTotal
        BY <1>6, <2>1, <2>4, RetryAssumption
           DEF RequestFails, LastAttempt, NoMoreTries, AloneInv, TypeInv, TypeOK, Call
    <3>3. /\ call'[m].op = call[m].op /\ call'[m].request = "pay"
          /\ call'[m].before = call[m].before /\ call'[m].attempt = call[m].attempt + 1
          /\ call'[m].tries = 0
          /\ call' = [call EXCEPT ![m] = call'[m]]
        BY <3>1 DEF Sending, AloneInv, TypeInv, TypeOK, Call
    <3>4. Tried(m)' = Tried(m) + 1
      <4>1. Tried(m) + 1 = (call[m].attempt + 1) * (RetryTotal + 1)
        BY <3>2, TriedBound DEF AloneInv
      <4>2. call[m].attempt + 1 \in Nat /\ RetryTotal + 1 \in Nat
        BY RetryAssumption DEF AloneInv, TypeInv, TypeOK, Call
      <4>3. (call[m].attempt + 1) * (RetryTotal + 1) + 0
                = (call[m].attempt + 1) * (RetryTotal + 1)
        BY <4>2
      <4>4. Tried(m)' = (call[m].attempt + 1) * (RetryTotal + 1) + 0
        BY <3>3 DEF Tried
      <4> QED BY <4>1, <4>3, <4>4
    <3> QED BY <1>1, <2>1, <2>2, <3>1, <3>2, <3>3, <3>4, <1>9, AloneContinue DEF AloneInv
  <2> QED BY <2>3, <2>4
<1>7. CASE MockSuccess(m)
  <2>1. /\ client = "BillingAPIClient" /\ call[m].request = "change"
        /\ Answered(m) /\ charged' = charged
    BY <1>7 DEF MockSuccess, Mocked, NotServed
  <2>2. NextRequest(m) = "none" /\ call[m].op # "none"
    BY <2>1 DEF NextRequest, AloneInv, Consistent
  <2>3. Return(m, NoPaymentFound(m), Returned(m))
    BY <2>1, <2>2 DEF Answered
  <2>4. NoPaymentFound(m) \in BOOLEAN /\ Returned(m) \in PaymentStatus
    BY DEF NoPaymentFound, Returned, PaymentStatus, AloneInv, TypeInv, TypeOK
  <2> QED BY <1>1, <1>9, <2>1, <2>2, <2>3, <2>4, AloneReturn DEF AloneInv
<1>8. CASE CallCrashes(m)
  <2>1. /\ Return(m, TRUE, Returned(m)) /\ charged' = charged
        /\ call[m].request # "none" /\ call[m].op # "none"
    BY <1>8 DEF CallCrashes, NotServed, InRequest, AloneInv, Consistent
  <2>2. Returned(m) \in PaymentStatus
    BY DEF Returned, PaymentStatus, AloneInv, TypeInv, TypeOK
  <2> QED BY <1>1, <2>1, <2>2, <1>9, AloneReturn DEF AloneInv
<1> QED BY <1>2, <1>3, <1>4, <1>5, <1>6, <1>7, <1>8, <1>10 DEF Next, Progress

\* A manager alone on its payment group: when prepare_payment with a client that
\* can change a status returns REGISTERED, and no request it took for served on
\* the word of an answer in text was not, the payment is REGISTERED, for every
\* number of attempts and retries.
THEOREM PrepareTellsTheTruth ==
    ASSUME NEW m \in Manager, Manager = {m}
    PROVE  Spec => []PreparedMeansRegistered
<1>1. AloneInv /\ [Next]_vars => AloneInv'
    BY AloneNext
<1>2. AloneInv => PreparedMeansRegistered
    BY DEF AloneInv
<1> QED BY <1>1, <1>2, AloneInit, PTL DEF Spec

\* Of such a manager, with any class of client, one call of make_payment executes at most max_retries
\* times RetryTotal + 1 payments, for every number of attempts and retries.
THEOREM RetriesMultiply ==
    ASSUME NEW m \in Manager, Manager = {m}
    PROVE  Spec => []ExecutionsBounded
<1>1. AloneInv /\ [Next]_vars => AloneInv'
    BY AloneNext
<1>2. AloneInv => ExecutionsBounded
    BY DEF AloneInv
<1> QED BY <1>1, <1>2, AloneInit, PTL DEF Spec

\* A change of status is never on its way to a payment that is PAID: it is asked
\* for when the payment is READY, or once it has been CANCELLED (or a text was
\* taken for that).
ChangesUnpaid ==
    \A m \in Manager : call[m].request = "change" /\ ~misread[m] => status # "PAID"

PaidInv == AloneInv /\ PaidMeansExecuted /\ ChangesUnpaid

LEMMA PaidInit == Init => PaidInv
<1>1. Init => PaidMeansExecuted /\ ChangesUnpaid
    BY DEF Init, PaidMeansExecuted, Returns, ChangesUnpaid, Idle, NoAnswer
<1> QED BY <1>1, AloneInit DEF PaidInv

\* A call that is over has asked for no change, and if it is a payment that did
\* not raise, the backend has executed one since it began.
LEMMA PaidReturn ==
    ASSUME PaidInv, NEW m \in Manager, Manager = {m}, NEW raised \in BOOLEAN, NEW s,
           Return(m, raised, s),
           call[m].op = "pay" /\ ~raised /\ ~misread'[m] =>
               status' = "PAID" /\ charged' = charged + 1
    PROVE  PaidMeansExecuted' /\ ChangesUnpaid'
<1>1. call'[m] = Idle
    BY DEF Return, PaidInv, AloneInv, TypeInv, TypeOK
<1>2. answer'[m] = [op |-> call[m].op, raised |-> raised, status |-> s,
                    executed |-> charged' - call[m].before]
    BY DEF Return, PaidInv, AloneInv, TypeInv, TypeOK
<1>3. /\ charged \in Nat /\ call[m].before \in Nat
      /\ charged + 1 - call[m].before > 0
    BY DEF PaidInv, AloneInv, TypeInv, TypeOK, Counted, Call
<1>4. PaidMeansExecuted'
  <2>1. ASSUME Returns(m, "pay")', ~misread'[m]
        PROVE  answer'[m].executed > 0 /\ status' = "PAID"
    <3>1. /\ answer'[m].op = call[m].op
          /\ answer'[m].raised = raised
          /\ answer'[m].executed = charged' - call[m].before
        BY <1>2
    <3>2. answer'[m].op = "pay" /\ ~answer'[m].raised
        BY <2>1 DEF Returns
    <3>3. call[m].op = "pay" /\ ~raised
        BY <3>1, <3>2
    <3>4. status' = "PAID" /\ charged' = charged + 1
        BY <2>1, <3>3
    <3>5. answer'[m].executed = charged + 1 - call[m].before
        BY <1>3, <3>1, <3>4
    <3>6. answer'[m].executed > 0
        BY <1>3, <3>5
    <3> QED BY <3>4, <3>6
  <2> QED BY <2>1 DEF PaidMeansExecuted
<1>5. ChangesUnpaid'
    BY <1>1 DEF ChangesUnpaid, Idle
<1> QED BY <1>4, <1>5

\* A call that goes on has not returned.
LEMMA PaidContinue ==
    ASSUME PaidInv, NEW m \in Manager, Manager = {m},
           call'[m].op # "none",
           call'[m].request = "change" /\ ~misread'[m] => status' # "PAID"
    PROVE  PaidMeansExecuted' /\ ChangesUnpaid'
    BY DEF PaidMeansExecuted, Returns, ChangesUnpaid

LEMMA PaidNext ==
    ASSUME PaidInv, [Next]_vars, NEW m \in Manager, Manager = {m}
    PROVE  PaidInv'
<1>1. AloneInv'
    BY AloneNext DEF PaidInv
<1>2. CASE UNCHANGED vars
  <2>1. PaidMeansExecuted' /\ ChangesUnpaid'
    BY <1>2 DEF PaidInv, vars, PaidMeansExecuted, Returns, ChangesUnpaid
  <2> QED BY <1>1, <2>1 DEF PaidInv
<1>3. CASE PreparePayment(m) \/ MakePayment(m)
  <2>1. PICK op \in {"prepare", "pay"}, r \in {"get_status", "pay"} : Begin(m, op, r)
    BY <1>3 DEF PreparePayment, MakePayment
  <2>2. call'[m].op = op /\ call'[m].request = r
    BY <2>1 DEF Begin, Idle, PaidInv, AloneInv, TypeInv, TypeOK
  <2>3. PaidMeansExecuted' /\ ChangesUnpaid'
    BY <2>2, PaidContinue
  <2> QED BY <1>1, <2>3 DEF PaidInv
<1>4. CASE RequestAnswered(m)
  <2>1. /\ Served(call[m].request) /\ Answered(m) /\ call[m].request # "none"
        /\ call[m].op # "none"
    BY <1>4 DEF RequestAnswered, InRequest, PaidInv, AloneInv, Consistent
  <2>2. CASE NextRequest(m) = "none"
    <3>1. Return(m, NoPaymentFound(m), Returned(m))
        BY <2>1, <2>2 DEF Answered
    <3>2. call[m].op = "pay" => status' = "PAID" /\ charged' = charged + 1
        BY <2>1 DEF Served, PaidInv, AloneInv, Consistent
    <3>3. PaidMeansExecuted' /\ ChangesUnpaid'
        BY <3>1, <3>2, PaidReturn DEF NoPaymentFound
    <3> QED BY <1>1, <3>3 DEF PaidInv
  <2>3. CASE NextRequest(m) # "none"
    <3>1. call' = [call EXCEPT ![m] = Sending(m, NextRequest(m))]
        BY <2>1, <2>3 DEF Answered
    <3>2. call'[m].op = call[m].op /\ call'[m].request = NextRequest(m)
        BY <3>1 DEF Sending, PaidInv, AloneInv, TypeInv, TypeOK, Call
    <3>3. NextRequest(m) = "change" => status' # "PAID"
        BY <2>1 DEF NextRequest, Served
    <3>4. PaidMeansExecuted' /\ ChangesUnpaid'
        BY <2>1, <3>2, <3>3, PaidContinue
    <3> QED BY <1>1, <3>4 DEF PaidInv
  <2> QED BY <2>2, <2>3
<1>9. CASE TextAnswered(m)
  <2>1. /\ Served(call[m].request) \/ (NotServed /\ misread'[m])
        /\ call[m].op # "none"
    BY <1>9 DEF TextAnswered, InRequest, PaidInv, AloneInv, Consistent, TypeInv, TypeOK
  <2>2. CASE call[m].request = "get_status"
    <3>1. Return(m, TRUE, Returned(m))
        BY <1>9, <2>2 DEF TextAnswered
    <3>2. PaidMeansExecuted' /\ ChangesUnpaid'
        BY <3>1, PaidReturn
    <3> QED BY <1>1, <3>2 DEF PaidInv
  <2>3. CASE call[m].request # "get_status" /\ NextRequest(m) = "none"
    <3>1. Return(m, NoPaymentFound(m), Returned(m))
        BY <1>9, <2>3 DEF TextAnswered, Answered
    <3>2. call[m].op = "pay" /\ ~misread'[m] => status' = "PAID" /\ charged' = charged + 1
        BY <2>1 DEF Served, PaidInv, AloneInv, Consistent
    <3>3. PaidMeansExecuted' /\ ChangesUnpaid'
        BY <3>1, <3>2, PaidReturn DEF NoPaymentFound
    <3> QED BY <1>1, <3>3 DEF PaidInv
  <2>4. CASE call[m].request # "get_status" /\ NextRequest(m) # "none"
    <3>1. call' = [call EXCEPT ![m] = Sending(m, NextRequest(m))]
        BY <1>9, <2>4 DEF TextAnswered, Answered
    <3>2. call'[m].op = call[m].op /\ call[m].request = "cancel"
        BY <2>4, <3>1 DEF Sending, NextRequest, PaidInv, AloneInv, TypeInv, TypeOK, Call
    <3>3. ~misread'[m] => status' # "PAID"
        BY <2>1, <3>2 DEF Served
    <3>4. PaidMeansExecuted' /\ ChangesUnpaid'
        BY <2>1, <3>2, <3>3, PaidContinue
    <3> QED BY <1>1, <3>4 DEF PaidInv
  <2> QED BY <2>2, <2>3, <2>4
<1>5. CASE TryFails(m)
  <2>1. /\ Served(call[m].request) \/ NotServed
        /\ call' = [call EXCEPT ![m].tries = @ + 1]
        /\ call[m].op # "none" /\ misread' = misread
    BY <1>5 DEF TryFails, InRequest, PaidInv, AloneInv, Consistent
  <2>2. call'[m].op = call[m].op /\ call'[m].request = call[m].request
    BY <2>1 DEF PaidInv, AloneInv, TypeInv, TypeOK, Call
  <2>3. call[m].request = "change" /\ ~misread'[m] => status' # "PAID"
    BY <2>1 DEF Served, NotServed, PaidInv, ChangesUnpaid
  <2>4. PaidMeansExecuted' /\ ChangesUnpaid'
    BY <2>1, <2>2, <2>3, PaidContinue
  <2> QED BY <1>1, <2>4 DEF PaidInv
<1>6. CASE RequestFails(m)
  <2>1. call[m].op # "none"
    BY <1>6 DEF RequestFails, InRequest, PaidInv, AloneInv, Consistent
  <2>2. CASE LastAttempt(m)
    <3>1. Return(m, TRUE, Returned(m))
        BY <1>6, <2>2 DEF RequestFails, FailureRaises
    <3>2. PaidMeansExecuted' /\ ChangesUnpaid'
        BY <3>1, PaidReturn
    <3> QED BY <1>1, <3>2 DEF PaidInv
  <2>3. CASE ~LastAttempt(m)
    <3>1. call' = [call EXCEPT ![m] = [Sending(m, "pay") EXCEPT !.attempt = @ + 1]]
        BY <1>6, <2>3 DEF RequestFails
    <3>2. call'[m].op = call[m].op /\ call'[m].request = "pay"
        BY <3>1 DEF Sending, PaidInv, AloneInv, TypeInv, TypeOK, Call
    <3>3. PaidMeansExecuted' /\ ChangesUnpaid'
        BY <2>1, <3>2, PaidContinue
    <3> QED BY <1>1, <3>3 DEF PaidInv
  <2> QED BY <2>2, <2>3
<1>7. CASE MockSuccess(m)
  <2>1. call[m].request = "change" /\ Answered(m)
    BY <1>7 DEF MockSuccess, Mocked
  <2>2. NextRequest(m) = "none" /\ call[m].op # "pay"
    BY <2>1 DEF NextRequest, PaidInv, AloneInv, Consistent
  <2>3. Return(m, NoPaymentFound(m), Returned(m))
    BY <2>1, <2>2 DEF Answered
  <2>4. PaidMeansExecuted' /\ ChangesUnpaid'
    BY <2>2, <2>3, PaidReturn DEF NoPaymentFound
  <2> QED BY <1>1, <2>4 DEF PaidInv
<1>8. CASE CallCrashes(m)
  <2>1. Return(m, TRUE, Returned(m))
    BY <1>8 DEF CallCrashes
  <2>2. PaidMeansExecuted' /\ ChangesUnpaid'
    BY <2>1, PaidReturn
  <2> QED BY <1>1, <2>2 DEF PaidInv
<1> QED BY <1>2, <1>3, <1>4, <1>5, <1>6, <1>7, <1>8, <1>9 DEF Next, Progress

\* A manager alone on its payment group, with any class of client: when
\* make_payment returns, either the backend has executed a payment since it was
\* called and the payment group is PAID, or it answered a payment it had not
\* executed in text; for every number of attempts and retries.
THEOREM PaymentIsExecuted ==
    ASSUME NEW m \in Manager, Manager = {m}
    PROVE  Spec => []PaidMeansExecuted
<1>1. PaidInv /\ [Next]_vars => PaidInv'
    BY PaidNext
<1>2. PaidInv => PaidMeansExecuted
    BY DEF PaidInv
<1> QED BY <1>1, <1>2, PaidInit, PTL DEF Spec

\* Such a manager takes a payment back only by cancelling it: no retry of a
\* change of status comes after a payment, and prepare_payment puts a PAID payment
\* back to REGISTERED only where a text passed for the cancellation.
THEOREM TakenBackByCancelling ==
    ASSUME NEW m \in Manager, Manager = {m}
    PROVE  Spec => PaidIsCancelledFirst
<1> DEFINE Cancelled ==
        status = "PAID" /\ status' # "PAID" =>
            status' = "CANCELLED" \/ TextPassed
<1>1. PaidInv /\ [Next]_vars => PaidInv'
    BY PaidNext
<1>2. ASSUME PaidInv, [Next]_vars PROVE [Cancelled]_vars
  <2>1. CASE UNCHANGED vars
    BY <2>1
  <2>2. CASE PreparePayment(m) \/ MakePayment(m)
    BY <2>2 DEF PreparePayment, MakePayment, Begin
  <2>3. CASE Progress(m)
    <3>1. Served(call[m].request) \/ NotServed
        BY <2>3 DEF Progress, RequestAnswered, TextAnswered, TryFails, RequestFails,
                    MockSuccess, CallCrashes
    <3> QED BY <1>2, <3>1 DEF Served, NotServed, PaidInv, ChangesUnpaid, InRequest, TextPassed
  <2> QED BY <1>2, <2>1, <2>2, <2>3 DEF Next
<1> HIDE DEF Cancelled
<1>3. Spec => [][Cancelled]_vars
    BY <1>1, <1>2, PaidInit, PTL DEF Spec
<1> QED BY <1>3 DEF Cancelled, PaidIsCancelledFirst
==============================================================================
