-------------------------- MODULE ApiClient_proofs --------------------------
(***************************************************************************)
(* Proofs about ApiClient: for any set of statuses, a call is tried as     *)
(* often as it may be and no more, and gives what its last answer carried. *)
(***************************************************************************)
EXTENDS ApiClient, TLAPS

------------------------------------------------------------------------------
(* Tries.                                                                    *)

\* Each failure pays for one more request.
Paid ==
    /\ pc \in {"idle", "starting", "fetching", "reading", "stalled", "waiting", "settled"}
    /\ failures \in Nat /\ sent \in Nat
    /\ failures <= MaxRetries(call)
    /\ sent <= failures + 1
    /\ pc \in {"idle", "starting", "waiting"} => sent <= failures

\* The timer waits for an answer.
InTime == timer \in BOOLEAN /\ (timer => pc = "fetching")

LEMMA RetriesOfCall ==
    ASSUME NEW c PROVE MaxRetries(c) \in {0, 2}
    BY DEF MaxRetries

LEMMA PaidInit == Init => Paid
    BY RetriesOfCall DEF Init, Paid

LEMMA InTimeInit == Init => InTime
    BY Zenon DEF Init, InTime

\* What a failing try leaves, whatever the error.
LEMMA FailsPaid ==
    ASSUME Paid, pc \notin {"idle", "waiting"}, NEW code, Fails(code)
    PROVE  Paid'
<1>1. MaxRetries(call) \in {0, 2} /\ MaxRetries(call)' = MaxRetries(call)
    BY RetriesOfCall DEF Fails, MaxRetries
<1>2. CASE failures < MaxRetries(call)
  <2>1. pc' = "waiting" /\ failures' = failures + 1 /\ sent' = sent
      BY <1>2 DEF Fails
  <2> QED BY <1>1, <1>2, <2>1 DEF Paid
<1>3. CASE ~(failures < MaxRetries(call))
  <2>1. pc' = "settled" /\ failures' = failures /\ sent' = sent
      BY <1>3 DEF Fails
  <2> QED BY <1>1, <1>3, <2>1 DEF Paid
<1> QED BY <1>2, <1>3

LEMMA PaidStep == Paid /\ [Next]_vars => Paid'
<1> SUFFICES ASSUME Paid, [Next]_vars PROVE Paid'
    OBVIOUS
<1>1. CASE Begin
    BY <1>1, RetriesOfCall DEF Begin, Paid
<1>2. CASE Refuse \/ NetworkFails \/ TimeOut
  <2>1. pc \in {"starting", "fetching"} /\ \E code : Fails(code)
      BY <1>2 DEF Refuse, NetworkFails, TimeOut
  <2> QED BY <2>1, FailsPaid DEF Paid
<1>3. CASE Send
  <2>1. pc = "starting" /\ pc' = "fetching" /\ sent' = sent + 1 /\ call' = call /\ failures' = failures
      BY <1>3 DEF Send
  <2> QED BY <2>1 DEF Paid, MaxRetries
<1>4. CASE ReadError
  <2>1. pc = "reading" /\ \E code : Fails(code)
      BY <1>4 DEF ReadError
  <2> QED BY <2>1, FailsPaid DEF Paid
<1>5. CASE ReadBody
  <2>1. pc = "reading" /\ \E outcome : IF outcome \in ErrorCode THEN Fails(outcome) ELSE Succeeds(outcome)
      BY <1>5 DEF ReadBody
  <2>2. CASE \E code : Fails(code)
      BY <2>1, <2>2, FailsPaid DEF Paid
  <2>3. CASE \E outcome : Succeeds(outcome)
    <3>1. pc' = "settled" /\ call' = call /\ failures' = failures /\ sent' = sent
        BY <2>3 DEF Succeeds
    <3> QED BY <2>1, <3>1 DEF Paid, MaxRetries
  <2> QED BY <2>1, <2>2, <2>3
<1>6. CASE Respond \/ Stall \/ Resume \/ Retry
  <2>1. /\ call' = call /\ failures' = failures /\ sent' = sent
        /\ \/ pc = "waiting" /\ pc' = "starting"
           \/ pc \in {"fetching", "reading", "stalled"} /\ pc' \in {"reading", "stalled"}
      BY <1>6 DEF Respond, Stall, Resume, Retry
  <2> QED BY <2>1 DEF Paid, MaxRetries
<1>7. CASE UNCHANGED vars
  <2>1. call' = call /\ failures' = failures /\ sent' = sent /\ pc' = pc
      BY <1>7 DEF vars
  <2> QED BY <2>1 DEF Paid, MaxRetries
<1> QED BY <1>1, <1>2, <1>3, <1>4, <1>5, <1>6, <1>7 DEF Next

LEMMA InTimeStep == InTime /\ [Next]_vars => InTime'
<1> SUFFICES ASSUME InTime, [Next]_vars PROVE InTime'
    OBVIOUS
<1>1. CASE \E code : Fails(code)
  <2>1. timer' = FALSE
      BY <1>1 DEF Fails
  <2> QED BY Zenon, <2>1 DEF InTime
<1>2. CASE Respond
  <2>1. timer' = FALSE
      BY <1>2 DEF Respond
  <2> QED BY Zenon, <2>1 DEF InTime
<1>3. CASE Send
  <2>1. timer' = TRUE /\ pc' = "fetching"
      BY <1>3 DEF Send, TimerStarted
  <2> QED BY Zenon, <2>1 DEF InTime
<1>4. CASE pc # "fetching" /\ timer' = timer
  <2>1. timer = FALSE
      BY Zenon, <1>4 DEF InTime
  <2> QED BY Zenon, <1>4, <2>1 DEF InTime
<1>5. CASE UNCHANGED vars
  <2>1. timer' = timer /\ pc' = pc
      BY <1>5 DEF vars
  <2> QED BY Zenon, <2>1 DEF InTime
<1>6. Refuse \/ NetworkFails \/ TimeOut \/ ReadError => \E code : Fails(code)
    BY DEF Refuse, NetworkFails, TimeOut, ReadError
<1>7. ReadBody => (\E code : Fails(code)) \/ (pc # "fetching" /\ timer' = timer)
  <2> SUFFICES ASSUME ReadBody, ~(\E code : Fails(code)) PROVE pc # "fetching" /\ timer' = timer
      OBVIOUS
  <2>1. pc = "reading" /\ \E outcome : Succeeds(outcome)
      BY DEF ReadBody
  <2> QED BY <2>1 DEF Succeeds
<1>8. Begin \/ Stall \/ Resume \/ Retry => pc # "fetching" /\ timer' = timer
    BY DEF Begin, Stall, Resume, Retry
<1> QED BY <1>1, <1>2, <1>3, <1>4, <1>5, <1>6, <1>7, <1>8 DEF Next

\* No call is sent more often than its kind may be, and no timer is left over.
THEOREM TriesAreBounded == Spec => []TriesBounded
<1>1. Paid /\ InTime => TriesBounded
  <2> SUFFICES ASSUME Paid, InTime PROVE TriesBounded
      OBVIOUS
  <2>1. sent <= (IF call.hook /\ call.function = "calculateBilling" THEN 3 ELSE 1)
    <3> DEFINE thrice == call.hook /\ call.function = "calculateBilling"
    <3>1. sent \in Nat /\ failures \in Nat /\ sent <= failures + 1 /\ failures <= MaxRetries(call)
        BY DEF Paid
    <3>2. MaxRetries(call) = IF thrice THEN 2 ELSE 0
        BY Zenon DEF MaxRetries
    <3> HIDE DEF thrice
    <3>3. sent <= IF thrice THEN 3 ELSE 1
        BY <3>1, <3>2
    <3> QED BY Zenon, <3>3 DEF thrice
  <2> QED BY Zenon, <2>1 DEF TriesBounded, InTime
<1> QED BY PaidInit, InTimeInit, PaidStep, InTimeStep, <1>1, PTL DEF Spec

------------------------------------------------------------------------------
(* Results.                                                                  *)

Wrong == {"API_ERROR", "UNKNOWN_ERROR"}

\* Reading an answer finds what it holds in one of the two formats, or an error.
LEMMA ExtractRight ==
    ASSUME NEW answer \in Body, NEW payload \in Payload \ {"empty"}
    PROVE  /\ extractDataFromResponse(answer) \in Payload \cup Wrong
           /\ Holds(answer, payload) <=> extractDataFromResponse(answer) = payload
<1>1. CASE answer \notin [kind : {"JSON"}, json : Json]
  <2>1. answer = Answer("not JSON", NoJson) \/ answer = Answer("null", NoJson)
      BY <1>1 DEF Body
  <2>2. answer.kind = "not JSON" \/ answer.kind = "null"
    <3>1. \A kind, json : Answer(kind, json).kind = kind
        BY DEF Answer
    <3> QED BY <2>1, <3>1
  <2>3. extractDataFromResponse(answer) \in Wrong
      BY <2>2 DEF extractDataFromResponse, Wrong
  <2>4. ~Holds(answer, payload)
      BY <2>2 DEF Holds
  <2> QED BY <2>3, <2>4 DEF Payload, Wrong
<1>2. CASE answer \in [kind : {"JSON"}, json : Json]
  <2>1. /\ answer.kind = "JSON" /\ answer.json.header \in BOOLEAN
        /\ answer.json.data \in Payload \cup {"missing", "null", "scalar"}
        /\ answer.json.rest \in Payload
      BY <1>2 DEF Json
  <2>2. CASE ~answer.json.header
      BY <2>1, <2>2 DEF extractDataFromResponse, Holds, Payload, Wrong
  <2>3. CASE answer.json.header
      BY <2>1, <2>3 DEF extractDataFromResponse, Holds, Payload, Wrong
  <2> QED BY <2>2, <2>3
<1> QED BY <1>1, <1>2

\* What was asked for is found when the answer holds it; otherwise there is an error.
LEMMA OutcomeRight ==
    ASSUME NEW function \in Function, NEW answer \in Body
    PROVE  /\ Holds(answer, Sought(function)) => Outcome(function, answer) = Asked(function)
           /\ ~Holds(answer, Sought(function)) => Outcome(function, answer) \in Wrong
<1> DEFINE data == extractDataFromResponse(answer)
<1>1. Sought(function) \in Payload \ {"empty"}
    BY DEF Function, Sought, Asked, Payload
<1>2. data \in Payload \cup Wrong /\ (Holds(answer, Sought(function)) <=> data = Sought(function))
    BY <1>1, ExtractRight
<1> HIDE DEF data
<1>3. \A asked \in Payload, found \in Payload :
         Checked(data, asked, found) = IF data = asked THEN found
                                       ELSE IF data \in Wrong THEN data ELSE "API_ERROR"
    BY <1>2 DEF Checked, Payload, Wrong, ErrorCode
<1>4. Outcome(function, answer) = Checked(data, Sought(function), Asked(function))
    BY DEF Outcome, data, Function, Sought, Asked, extractStatementFromResponse, FirstStatement, DatedPayment
<1>5. Asked(function) \in Payload
    BY DEF Asked, Payload
<1> QED BY <1>1, <1>2, <1>3, <1>4, <1>5 DEF Wrong

LEMMA CodeOfStatus ==
    ASSUME NEW s \in Status
    PROVE  /\ getErrorCodeForStatus(s) \in ErrorCode \ {"NETWORK_ERROR"}
           /\ getErrorCodeForStatus(s) = "VALIDATION_ERROR" => s \in {400, 422}
           /\ s # 0
    BY StatusAssumption DEF getErrorCodeForStatus, ErrorCode

\* What each try starts from, and what a request that is not valid has cost.
Progress ==
    /\ call.function \in Function
    /\ sent = 0 \/ call.valid
    /\ pc \in {"starting", "fetching"} => status = 0 /\ body = Unread
    /\ pc \in {"reading", "stalled"} => status \in Status /\ body = Unread
    /\ pc \in {"fetching", "reading", "stalled"} => sent > 0

LEMMA ProgressInit == Init => Progress /\ ResultOfLastAnswer
    BY DEF Init, Call, Progress, ResultOfLastAnswer

LEMMA ProgressStep == Paid /\ Progress /\ [Next]_vars => Progress'
<1> SUFFICES ASSUME Paid, Progress, [Next]_vars PROVE Progress'
    OBVIOUS
<1>1. CASE Begin
    BY <1>1 DEF Begin, Call, Progress
<1>2. CASE \E code : Fails(code)
    BY <1>2 DEF Fails, Progress
<1>3. CASE Send
    BY <1>3 DEF Send, Progress, Paid
<1>4. CASE Respond
    BY <1>4 DEF Respond, Progress
<1>5. CASE \E found : Succeeds(found)
    BY <1>5 DEF Succeeds, Progress
<1>6. CASE Stall \/ Resume \/ Retry
    BY <1>6 DEF Stall, Resume, Retry, Progress
<1>7. CASE UNCHANGED vars
    BY <1>7 DEF vars, Progress
<1>8. Refuse \/ NetworkFails \/ TimeOut \/ ReadError => \E code : Fails(code)
    BY DEF Refuse, NetworkFails, TimeOut, ReadError
<1>9. ReadBody => (\E code : Fails(code)) \/ (\E found : Succeeds(found))
    BY DEF ReadBody
<1> QED BY <1>1, <1>2, <1>3, <1>4, <1>5, <1>6, <1>7, <1>8, <1>9 DEF Next

\* The property holds of a state a call has just been settled in.
Settled(found) ==
    LET answered == response_ok(status) /\ Holds(body, Sought(call.function))
    IN  /\ answered => found = Asked(call.function)
        /\ ~answered => found \in ErrorCode
        /\ found = "VALIDATION_ERROR" => sent = 0 \/ status \in {400, 422}
        /\ found = "NETWORK_ERROR" <=> sent > 0 /\ status = 0

LEMMA NotAnswered ==
    ASSUME NEW s, s = 0 \/ ~response_ok(s) PROVE ~response_ok(s)
    BY DEF response_ok

LEMMA ResultStep == Paid /\ Progress /\ ResultOfLastAnswer /\ [Next]_vars => ResultOfLastAnswer'
<1> SUFFICES ASSUME Paid, Progress, ResultOfLastAnswer, [Next]_vars, pc' = "settled"
             PROVE  Settled(result)'
    BY DEF ResultOfLastAnswer, Settled
<1>1. CASE Refuse
  <2>1. /\ status' = 0 /\ sent' = 0 /\ result' = "VALIDATION_ERROR"
      BY <1>1 DEF Refuse, Fails, Progress
  <2>2. ~response_ok(status)'
      BY <2>1 DEF response_ok
  <2> QED BY <2>1, <2>2 DEF Settled, ErrorCode
<1>2. CASE NetworkFails \/ TimeOut
  <2>1. status' = 0 /\ sent' > 0 /\ result' = "NETWORK_ERROR"
      BY <1>2 DEF NetworkFails, TimeOut, Fails, Progress
  <2>2. ~response_ok(status)'
      BY <2>1 DEF response_ok
  <2> QED BY <2>1, <2>2 DEF Settled, ErrorCode
<1>3. CASE ReadError
  <2>1. status \in Status /\ status' = status /\ result' = getErrorCodeForStatus(status) /\ ~response_ok(status)
      BY <1>3 DEF ReadError, Fails, Progress
  <2>2. ~response_ok(status)'
      BY <2>1 DEF response_ok
  <2> QED BY <2>1, <2>2, CodeOfStatus DEF Settled
<1>4. CASE ReadBody
  <2> DEFINE outcome == Outcome(call.function, body')
  <2>1. /\ body' \in Body /\ status' = status /\ status \in Status
        /\ call' = call /\ call.function \in Function
        /\ result' = outcome /\ response_ok(status)
      BY <1>4 DEF ReadBody, Fails, Succeeds, Progress
  <2>2. response_ok(status)'
      BY <2>1 DEF response_ok
  <2>3. /\ Holds(body', Sought(call.function)) => outcome = Asked(call.function)
        /\ ~Holds(body', Sought(call.function)) => outcome \in Wrong
      BY <2>1, OutcomeRight
  <2>4. status # 0
      BY <2>1, CodeOfStatus
  <2>5. Asked(call.function) \notin {"VALIDATION_ERROR", "NETWORK_ERROR"}
      BY DEF Asked
  <2> HIDE DEF outcome
  <2>6. Holds(body, Sought(call.function))' <=> Holds(body', Sought(call.function))
      BY <2>1 DEF Holds, Sought, Asked
  <2>7. Asked(call.function)' = Asked(call.function)
      BY <2>1 DEF Asked
  <2> QED BY <2>1, <2>2, <2>3, <2>4, <2>5, <2>6, <2>7 DEF Settled, Wrong, ErrorCode
<1>5. CASE UNCHANGED vars
  <2>1. Settled(result)
      BY <1>5 DEF ResultOfLastAnswer, Settled, vars
  <2> QED BY <1>5, <2>1 DEF Settled, vars, response_ok, Holds, Sought, Asked
<1>6. ~(Begin \/ Send \/ Respond \/ Stall \/ Resume \/ Retry)
    BY DEF Begin, Send, Respond, Stall, Resume, Retry
<1> QED BY <1>1, <1>2, <1>3, <1>4, <1>5, <1>6 DEF Next

\* Whatever becomes of its tries, a call's result is that of the last one.
THEOREM ResultIsOfLastAnswer == Spec => []ResultOfLastAnswer
    BY PaidInit, PaidStep, ProgressInit, ProgressStep, ResultStep, PTL DEF Spec
=============================================================================
