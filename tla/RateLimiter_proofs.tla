-------------------------- MODULE RateLimiter_proofs --------------------------
(***************************************************************************)
(* Proofs about the rate limiter: its type invariant, and that a server    *)
(* that takes one request at a time never lets more than max_requests      *)
(* through in a window and refuses nobody before that, for every limit,    *)
(* window and number of threads.                                           *)
(***************************************************************************)
EXTENDS RateLimiter, FiniteSetTheorems, TLAPS

------------------------------------------------------------------------------
(* Typing. *)

\* What a thread's cleaning keeps is a set of records, and so is what a
\* comprehension runs over.
LEMMA SeenType ==
    ASSUME TypeOK, NEW w \in Worker
    PROVE  /\ Seen(w) \in Records
           /\ Filtered(w) \in Records
    BY DEF TypeOK, Seen, Filtered, Records

\* Replacing the list by a set of records keeps the lists typed.
LEMMA ReplaceType ==
    ASSUME TypeOK, NEW w \in Worker, NEW list \in Records, Replace(w, list)
    PROVE  /\ requests' \in Records
           /\ held' \in [Worker -> [detached : BOOLEAN, list : Records]]
<1>1. \A v \in Worker : Seen(v) \in Records
    BY SeenType
<1>2. Current \in [detached : BOOLEAN, list : Records]
    BY DEF Current, Records
<1>3. \A v \in Worker : Detached(Seen(v)) \in [detached : BOOLEAN, list : Records]
    BY <1>1 DEF Detached
<1> QED BY <1>2, <1>3 DEF Replace

LEMMA RequestTypes ==
    /\ Idle \in Request
    /\ \A u \in {"is_rate_limited", "get_remaining_requests", "status"}, t \in Time :
          [pc |-> "clean", use |-> u, time |-> t] \in Request
    BY BoundsAssumption DEF Idle, Request, Time

\* A request stays one when it moves to another step of the same call.
LEMMA MoveType ==
    ASSUME TypeOK, NEW w \in Worker,
           NEW pc \in {"idle", "clean", "filter", "check", "append", "handler"}
    PROVE  [req EXCEPT ![w].pc = pc] \in [Worker -> Request]
    BY DEF TypeOK, Request

LEMMA TypeInit == Init => TypeOK
    BY RequestTypes, BoundsAssumption DEF Init, TypeOK, Records, Current, Time

LEMMA TypeNext ==
    ASSUME TypeOK, [Next]_vars
    PROVE  TypeOK'
<1>1. CASE Tick
    BY <1>1, BoundsAssumption DEF TypeOK, Tick, Time
<1>2. CASE UNCHANGED vars
    BY <1>2 DEF TypeOK, vars
<1>3. ASSUME NEW w \in Worker, Arrive(w)
      PROVE  TypeOK'
    BY <1>3, RequestTypes DEF TypeOK, Arrive
<1>4. \A u \in {"none", "is_rate_limited", "get_remaining_requests", "status"} :
          AfterClean(u) \in {"idle", "clean", "filter", "check", "append", "handler"}
    BY DEF AfterClean
<1>5. ASSUME NEW w \in Worker, CleanEmpty(w)
      PROVE  TypeOK'
  <2>1. req[w].use \in {"none", "is_rate_limited", "get_remaining_requests", "status"}
    BY DEF TypeOK, Request
  <2>2. req' \in [Worker -> Request]
    BY <1>4, <1>5, <2>1, MoveType DEF CleanEmpty
  <2>3. {} \in Records
    BY DEF Records
  <2> QED BY <1>5, <2>2, <2>3, ReplaceType DEF TypeOK, CleanEmpty
<1>6. ASSUME NEW w \in Worker, BeginFilter(w)
      PROVE  TypeOK'
    BY <1>6, MoveType DEF TypeOK, BeginFilter
<1>7. ASSUME NEW w \in Worker, EndFilter(w)
      PROVE  TypeOK'
  <2>1. req[w].use \in {"none", "is_rate_limited", "get_remaining_requests", "status"}
    BY DEF TypeOK, Request
  <2>2. req' \in [Worker -> Request]
    BY <1>4, <1>7, <2>1, MoveType DEF EndFilter
  <2> QED BY <1>7, <2>2, SeenType, ReplaceType DEF TypeOK, EndFilter
<1>8. ASSUME NEW w \in Worker, Reject(w) \/ Handle(w)
      PROVE  TypeOK'
    BY <1>8, RequestTypes DEF TypeOK, Reject, Handle
<1>9. ASSUME NEW w \in Worker, PassCheck(w)
      PROVE  TypeOK'
    BY <1>9, MoveType DEF TypeOK, PassCheck
<1>10. ASSUME NEW w \in Worker, AppendRequest(w)
       PROVE  TypeOK'
  <2>1. [id |-> count + 1, time |-> TimeRecorded(w)] \in Record
    BY <1>10, BoundsAssumption DEF TypeOK, AppendRequest, TimeRecorded, Record, Request
  <2>2. requests' \in Records /\ admitted' \in Records
    BY <1>10, <2>1 DEF TypeOK, AppendRequest, Records
  <2> QED BY <1>10, <2>2, RequestTypes, BoundsAssumption DEF TypeOK, AppendRequest
<1>11. ASSUME NEW w \in Worker, HandleStatus(w)
       PROVE  TypeOK'
    BY <1>11, RequestTypes DEF TypeOK, HandleStatus
<1>12. ASSUME NEW w \in Worker, HandleReset(w)
       PROVE  TypeOK'
  <2>1. {} \in Records
    BY DEF Records
  <2> QED BY <1>12, <2>1, ReplaceType, RequestTypes DEF TypeOK, HandleReset
<1> QED
    BY <1>1, <1>2, <1>3, <1>5, <1>6, <1>7, <1>8, <1>9, <1>10, <1>11, <1>12 DEF Next, Serve

\* The type invariant, in the threaded server as well as in the other.
THEOREM TypeCorrect == Spec => []TypeOK
<1>1. Init => TypeOK
    BY TypeInit
<1>2. TypeOK /\ [Next]_vars => TypeOK'
    BY TypeNext
<1> QED BY <1>1, <1>2, PTL DEF Spec

------------------------------------------------------------------------------
(* The limit, one request at a time.                                       *)
(* LimitHolds speaks of history; what keeps it is that the list still has  *)
(* every request of the window of the request being decided (Kept...), and *)
(* room for one more between the comparison and the append (Room).         *)

Deciding(w) == req[w].use = "is_rate_limited"

\* One request at a time: two threads that are busy are one thread, and no
\* comprehension runs over a list that has been replaced.
OneAtATime ==
    /\ \A v, w \in Worker : req[v].pc # "idle" /\ req[w].pc # "idle" => v = w
    /\ \A w \in Worker : held[w] = Current

\* An idle thread is in no call; only is_rate_limited compares and appends.
Shape ==
    \A w \in Worker : /\ req[w].pc = "idle" => req[w].use # "is_rate_limited"
                      /\ req[w].pc \in {"check", "append"} => Deciding(w)
                      /\ req[w].pc \in {"clean", "filter"} => req[w].use # "none"
                      /\ req[w].pc = "handler" => ~Deciding(w)

\* Nothing is dated later than it happened.
Dated ==
    /\ \A r \in admitted : r.time <= now
    /\ \A w \in Worker : req[w].time <= now
    /\ \A w \in Worker : Deciding(w) => \A r \in admitted : r.time <= req[w].time

\* The list has every admitted request of the window that ends now, and of the
\* one that ends at the arrival of the request being decided.
KeptNow == \A r \in admitted : InWindow(r, now) => r \in requests
KeptAtArrival ==
    \A w \in Worker : Deciding(w) =>
        \A r \in admitted : InWindow(r, req[w].time) => r \in requests

Finite == IsFiniteSet(requests) /\ IsFiniteSet(admitted)

Room == \A w \in Worker : req[w].pc = "append" => Cardinality(requests) < max_requests

Inv == /\ TypeOK /\ OneAtATime /\ Shape /\ Dated
       /\ KeptNow /\ KeptAtArrival /\ Finite /\ Room /\ LimitHolds

LEMMA InvInit == Init => Inv
<1> SUFFICES ASSUME Init PROVE Inv
    OBVIOUS
<1>1. Cardinality({}) = 0
    BY FS_EmptySet
<1>2. \A t \in Time : {r \in admitted : r.time <= t /\ InWindow(r, t)} = {}
    BY DEF Init
<1>3. LimitHolds
    BY <1>1, <1>2, LimitAssumption DEF LimitHolds
<1>4. Finite
    BY FS_EmptySet DEF Init, Finite
<1>5. Dated
    BY BoundsAssumption DEF Init, Dated, Idle, Deciding
<1> QED
    BY <1>3, <1>4, <1>5, TypeInit DEF Inv, Init, OneAtATime, Shape, KeptNow, KeptAtArrival, Room, Idle, Deciding, Current

\* Cleaning by thread w, whatever call it is part of, loses no request of the
\* window that ends now, nor of the one of the request w is deciding.
LEMMA CleaningKeeps ==
    ASSUME Inv, NEW w \in Worker, req[w].pc \in {"clean", "filter"},
           requests' = Filtered(w), UNCHANGED <<now, admitted>>,
           req' = [req EXCEPT ![w].pc = AfterClean(req[w].use)]
    PROVE  /\ KeptNow' /\ KeptAtArrival' /\ Finite' /\ Dated' /\ LimitHolds'
<1>1. Filtered(w) = {r \in requests : InWindow(r, req[w].time)}
    BY DEF Inv, OneAtATime, Filtered, Seen, Current
<1>2. req[w].time \in Int /\ now \in Int /\ req[w].time <= now /\ window \in Int
    BY LimitAssumption DEF Inv, TypeOK, Request, Time, Dated
<1>3. \A r \in admitted : r.time \in Int
    BY DEF Inv, TypeOK, Records, Record, Time
<1>4. KeptNow'
    BY <1>1, <1>2, <1>3 DEF Inv, KeptNow, InWindow
<1>5. \A v \in Worker : req'[v].use = req[v].use /\ req'[v].time = req[v].time
    BY DEF Inv, TypeOK
<1>6. \A v \in Worker : Deciding(v) /\ Deciding(w) => v = w
    BY DEF Inv, OneAtATime, Shape, Deciding
<1>7. KeptAtArrival'
  <2> SUFFICES ASSUME NEW v \in Worker, Deciding(v)', NEW r \in admitted, InWindow(r, req[v].time)
               PROVE  r \in Filtered(w)
    BY <1>5 DEF KeptAtArrival, InWindow
  <2>1. Deciding(v)
    BY <1>5 DEF Deciding
  <2>2. v = w
    BY <2>1 DEF Inv, OneAtATime, Shape, Deciding
  <2> QED BY <1>1, <2>1, <2>2 DEF Inv, KeptAtArrival
<1>8. Finite'
    BY <1>1, FS_Subset DEF Inv, Finite
<1>9. Dated'
    BY <1>5 DEF Inv, Dated, Deciding
<1>10. LimitHolds'
    BY DEF Inv, LimitHolds
<1> QED BY <1>4, <1>7, <1>8, <1>9, <1>10

\* In a window that ends before the request being decided arrived, the append
\* adds nothing; in any other, what was admitted is on the list, which had
\* room.
LEMMA AppendKeepsLimit ==
    ASSUME Inv, NEW w \in Worker, AppendRequest(w)
    PROVE  LimitHolds'
<1> DEFINE rec == [id |-> count + 1, time |-> TimeRecorded(w)]
           ct == req[w].time
<1>1. rec.time = ct /\ ct \in Int /\ window \in Nat
    BY LimitAssumption DEF Inv, TypeOK, Request, Time, TimeRecorded
<1>2. Deciding(w) /\ Cardinality(requests) < max_requests
    BY DEF Inv, Shape, Room, AppendRequest
<1>3. admitted' = admitted \cup {rec}
    BY DEF AppendRequest
<1>4. IsFiniteSet(requests) /\ Cardinality(requests) \in Nat
    BY FS_CardinalityType DEF Inv, Finite
<1> HIDE DEF rec
<1> SUFFICES ASSUME NEW t \in Time
             PROVE  Cardinality({r \in admitted' : r.time <= t /\ InWindow(r, t)}) <= max_requests
    BY DEF LimitHolds, InWindow
<1> DEFINE Before == {r \in admitted : r.time <= t /\ InWindow(r, t)}
           After == {r \in admitted' : r.time <= t /\ InWindow(r, t)}
<1>5. t \in Int
    BY DEF Time
<1>6. Cardinality(Before) <= max_requests
    BY DEF Inv, LimitHolds
<1>7. CASE t < ct
  <2>1. After = Before
    BY <1>1, <1>3, <1>5, <1>7
  <2> QED BY <2>1, <1>6
<1>8. CASE ct <= t
  <2>1. Before \subseteq requests
    <3> SUFFICES ASSUME NEW r \in Before PROVE r \in requests
        OBVIOUS
    <3>1. r.time \in Int
        BY DEF Inv, TypeOK, Records, Record, Time
    <3>2. InWindow(r, ct)
        BY <1>1, <1>5, <1>8, <3>1 DEF InWindow
    <3> QED BY <1>2, <3>2 DEF Inv, KeptAtArrival
  <2>2. After \subseteq requests \cup {rec}
    BY <1>3, <2>1
  <2>3. /\ IsFiniteSet(requests \cup {rec})
        /\ Cardinality(requests \cup {rec}) \in Nat
        /\ Cardinality(requests \cup {rec}) <= Cardinality(requests) + 1
    <3>1. IsFiniteSet(requests \cup {rec})
        BY <1>4, FS_AddElement
    <3>2. Cardinality(requests \cup {rec}) =
             IF rec \in requests THEN Cardinality(requests) ELSE Cardinality(requests) + 1
        BY <1>4, FS_AddElement
    <3> QED BY <1>4, <3>1, <3>2
  <2>4. IsFiniteSet(After) /\ Cardinality(After) <= Cardinality(requests \cup {rec})
    BY <2>2, <2>3, FS_Subset
  <2>5. Cardinality(After) \in Nat /\ max_requests \in Nat
    BY <2>4, FS_CardinalityType, LimitAssumption
  <2> HIDE DEF After
  <2>6. Cardinality(After) <= max_requests
    BY <1>2, <1>4, <2>3, <2>4, <2>5
  <2> QED BY <2>6 DEF After
<1> QED BY <1>1, <1>5, <1>7, <1>8

LEMMA InvNext ==
    ASSUME ~Threaded, Inv, [Next]_vars
    PROVE  Inv'
<1>1. TypeOK'
    BY TypeNext DEF Inv
<1>2. CASE UNCHANGED vars
    BY <1>1, <1>2 DEF vars, Inv, OneAtATime, Shape, Dated, KeptNow, KeptAtArrival, Finite,
                      Room, LimitHolds, Deciding, InWindow
<1>3. CASE Tick
  <2>1. now' = now + 1 /\ UNCHANGED <<requests, req, held, admitted, count>> /\ now \in Int
    BY <1>3 DEF Tick, Inv, TypeOK, Time
  <2>2. \A r \in admitted : r.time \in Int
    BY DEF Inv, TypeOK, Records, Record, Time
  <2>3. \A w \in Worker : req[w].time \in Int
    BY DEF Inv, TypeOK, Request, Time
  <2>4. Dated'
    BY <2>1, <2>2, <2>3 DEF Inv, Dated, Deciding
  <2>5. KeptNow'
    BY <2>1, <2>2, LimitAssumption DEF Inv, KeptNow, InWindow
  <2> QED
    BY <1>1, <2>1, <2>4, <2>5 DEF Inv, OneAtATime, Shape, KeptAtArrival, Finite, Room, LimitHolds,
                                  Deciding, InWindow
<1>4. ASSUME NEW w \in Worker, Arrive(w)
      PROVE  Inv'
  <2>1. /\ req' = [req EXCEPT ![w] = [pc |-> "clean", use |-> "is_rate_limited", time |-> now]]
        /\ UNCHANGED <<now, requests, held, admitted, count>>
        /\ \A v \in Worker : req[v].pc = "idle"
    BY <1>4 DEF Arrive, CanStart
  <2>2. \A v \in Worker : IF v = w THEN req'[v] = [pc |-> "clean", use |-> "is_rate_limited", time |-> now]
                                   ELSE req'[v] = req[v]
    BY <2>1 DEF Inv, TypeOK
  <2>3. now \in Int
    BY DEF Inv, TypeOK, Time
  <2>4. OneAtATime'
    BY <2>1, <2>2 DEF Inv, OneAtATime
  <2>5. Shape'
    BY <2>1, <2>2 DEF Inv, Shape, Deciding
  <2>6. Dated'
    BY <2>1, <2>2, <2>3 DEF Inv, Dated, Deciding
  <2>7. KeptNow' /\ KeptAtArrival'
    BY <2>1, <2>2 DEF Inv, KeptNow, KeptAtArrival, Deciding, InWindow, Shape
  <2>8. Room'
    BY <2>1, <2>2 DEF Inv, Room
  <2> QED
    BY <1>1, <2>1, <2>4, <2>5, <2>6, <2>7, <2>8 DEF Inv, Finite, LimitHolds, InWindow
<1>5. ASSUME NEW w \in Worker, CleanEmpty(w) \/ EndFilter(w)
      PROVE  Inv'
  <2>1. /\ req[w].pc \in {"clean", "filter"}
        /\ requests' = Filtered(w)
        /\ held' = [v \in Worker |-> IF req[v].pc = "filter" /\ v # w
                                       THEN Detached(Seen(v)) ELSE Current]
        /\ req' = [req EXCEPT ![w].pc = AfterClean(req[w].use)]
        /\ UNCHANGED <<now, admitted, count>>
    <3>1. CASE CleanEmpty(w)
        BY <3>1 DEF CleanEmpty, Replace, Filtered, Seen, Inv, OneAtATime, Current
    <3>2. CASE EndFilter(w)
        BY <3>2 DEF EndFilter, Replace
    <3> QED BY <1>5, <3>1, <3>2
  <2>2. KeptNow' /\ KeptAtArrival' /\ Finite' /\ Dated' /\ LimitHolds'
    BY <2>1, CleaningKeeps
  <2>3. \A v \in Worker : /\ v # w => req[v].pc = "idle" /\ req'[v] = req[v]
                          /\ req'[v].use = req[v].use
    BY <2>1 DEF Inv, OneAtATime, TypeOK
  <2>4. req'[w].pc = AfterClean(req[w].use)
    BY <2>1 DEF Inv, TypeOK, Request
  <2>5. OneAtATime'
    BY <2>1, <2>3 DEF Inv, OneAtATime
  <2>6. Shape'
    BY <2>1, <2>3, <2>4 DEF Inv, Shape, Deciding, AfterClean, TypeOK, Request
  <2>7. Room'
    BY <2>3, <2>4 DEF Room, AfterClean
  <2> QED BY <1>1, <2>2, <2>5, <2>6, <2>7 DEF Inv
<1>6. ASSUME NEW w \in Worker, NEW pc \in {"filter", "append"},
             req[w].pc \in {"clean", "check"}, pc = "append" => req[w].pc = "check",
             pc = "append" => Cardinality(requests) < max_requests,
             req' = [req EXCEPT ![w].pc = pc],
             pc = "filter" => req[w].pc = "clean",
             UNCHANGED <<now, requests, held, admitted, count>>
      PROVE  Inv'
  <2>1. \A v \in Worker : /\ req'[v].use = req[v].use /\ req'[v].time = req[v].time
                          /\ v # w => req'[v].pc = req[v].pc
                          /\ v = w => req'[v].pc = pc
    BY <1>6 DEF Inv, TypeOK, Request
  <2>2. OneAtATime'
    BY <1>6, <2>1 DEF Inv, OneAtATime
  <2>3. Shape'
    BY <1>6, <2>1 DEF Inv, Shape, Deciding
  <2>4. Dated' /\ KeptNow' /\ KeptAtArrival'
    BY <1>6, <2>1 DEF Inv, Dated, KeptNow, KeptAtArrival, Deciding, InWindow
  <2>5. Room'
    BY <1>6, <2>1 DEF Inv, Room
  <2> QED BY <1>1, <1>6, <2>2, <2>3, <2>4, <2>5 DEF Inv, Finite, LimitHolds, InWindow
<1>7. ASSUME NEW w \in Worker, BeginFilter(w) \/ PassCheck(w)
      PROVE  Inv'
  <2>1. CASE BeginFilter(w)
    BY <1>6, <2>1 DEF BeginFilter
  <2>2. CASE PassCheck(w)
    <3>1. Cardinality(requests) \in Nat /\ max_requests \in Nat
        BY FS_CardinalityType, LimitAssumption DEF Inv, Finite
    <3>2. Cardinality(requests) < max_requests
        BY <2>2, <3>1 DEF PassCheck, AtLimit
    <3> QED BY <1>6, <2>2, <3>2 DEF PassCheck
  <2> QED BY <1>7, <2>1, <2>2
<1>8. ASSUME NEW w \in Worker, Reject(w) \/ Handle(w)
      PROVE  Inv'
  <2>1. /\ req' = [req EXCEPT ![w] = Idle]
        /\ UNCHANGED <<now, requests, held, admitted, count>>
    BY <1>8 DEF Reject, Handle
  <2>2. \A v \in Worker : IF v = w THEN req'[v] = Idle ELSE req'[v] = req[v]
    BY <2>1 DEF Inv, TypeOK
  <2>3. OneAtATime' /\ Shape' /\ Room'
    BY <2>1, <2>2 DEF Inv, OneAtATime, Shape, Room, Idle, Deciding
  <2>4. Dated'
    BY <2>1, <2>2 DEF Inv, Dated, Idle, Deciding, TypeOK, Time
  <2>5. KeptNow' /\ KeptAtArrival'
    BY <2>1, <2>2 DEF Inv, KeptNow, KeptAtArrival, Idle, Deciding, InWindow
  <2> QED BY <1>1, <2>1, <2>3, <2>4, <2>5 DEF Inv, Finite, LimitHolds, InWindow
<1>9. ASSUME NEW w \in Worker, AppendRequest(w)
      PROVE  Inv'
  <2> DEFINE rec == [id |-> count + 1, time |-> TimeRecorded(w)]
  <2>1. /\ requests' = requests \cup {rec} /\ admitted' = admitted \cup {rec}
        /\ req' = [req EXCEPT ![w] = [pc |-> "clean", use |-> "get_remaining_requests", time |-> now]]
        /\ UNCHANGED <<now, held>>
        /\ req[w].pc = "append"
    BY <1>9 DEF AppendRequest
  <2>2. \A v \in Worker : IF v = w THEN req'[v] = [pc |-> "clean", use |-> "get_remaining_requests", time |-> now]
                                   ELSE req'[v] = req[v] /\ req[v].pc = "idle"
    BY <2>1 DEF Inv, TypeOK, OneAtATime
  <2>3. OneAtATime' /\ Shape' /\ Room'
    BY <2>1, <2>2 DEF Inv, OneAtATime, Shape, Room, Deciding
  <2>4. \A v \in Worker : ~Deciding(v)'
    BY <2>2 DEF Inv, Shape, Deciding
  <2>5. rec.time <= now /\ now \in Int
    BY DEF TimeRecorded, Inv, Dated, TypeOK, Time
  <2>6. Dated'
    BY <2>1, <2>2, <2>4, <2>5 DEF Inv, Dated
  <2>7. KeptNow' /\ KeptAtArrival'
    BY <2>1, <2>4 DEF Inv, KeptNow, KeptAtArrival, InWindow
  <2>8. Finite'
    BY <2>1, FS_AddElement DEF Inv, Finite
  <2>9. LimitHolds'
    BY <1>9, AppendKeepsLimit
  <2> QED BY <1>1, <2>3, <2>6, <2>7, <2>8, <2>9 DEF Inv
<1>10. ASSUME NEW w \in Worker, HandleStatus(w)
       PROVE  Inv'
  <2>1. /\ req' = [req EXCEPT ![w] = [pc |-> "clean", use |-> "status", time |-> now]]
        /\ UNCHANGED <<now, requests, held, admitted, count>>
        /\ req[w].pc = "handler"
    BY <1>10 DEF HandleStatus
  <2>2. \A v \in Worker : IF v = w THEN req'[v] = [pc |-> "clean", use |-> "status", time |-> now]
                                   ELSE req'[v] = req[v]
    BY <2>1 DEF Inv, TypeOK
  <2>3. OneAtATime' /\ Shape' /\ Room'
    BY <2>1, <2>2 DEF Inv, OneAtATime, Shape, Room, Deciding
  <2>4. Dated'
    BY <2>1, <2>2 DEF Inv, Dated, Deciding, TypeOK, Time
  <2>5. KeptNow' /\ KeptAtArrival'
    BY <2>1, <2>2 DEF Inv, KeptNow, KeptAtArrival, Deciding, InWindow
  <2> QED BY <1>1, <2>1, <2>3, <2>4, <2>5 DEF Inv, Finite, LimitHolds, InWindow
<1>11. ASSUME NEW w \in Worker, HandleReset(w)
       PROVE  Inv'
  <2>1. /\ requests' = {} /\ admitted' = {}
        /\ held' = [v \in Worker |-> IF req[v].pc = "filter" /\ v # w
                                       THEN Detached(Seen(v)) ELSE Current]
        /\ req' = [req EXCEPT ![w] = Idle]
        /\ UNCHANGED <<now, count>>
        /\ req[w].pc = "handler"
    BY <1>11 DEF HandleReset, Replace
  <2>2. \A v \in Worker : IF v = w THEN req'[v] = Idle
                                   ELSE req'[v] = req[v] /\ req[v].pc = "idle"
    BY <2>1 DEF Inv, TypeOK, OneAtATime
  <2>3. OneAtATime' /\ Shape' /\ Room'
    BY <2>1, <2>2 DEF Inv, OneAtATime, Shape, Room, Idle, Deciding
  <2>4. Dated'
    BY <2>1, <2>2 DEF Inv, Dated, Idle, Deciding, TypeOK, Time
  <2>5. KeptNow' /\ KeptAtArrival' /\ Finite'
    BY <2>1, FS_EmptySet DEF KeptNow, KeptAtArrival, Finite
  <2>6. \A t \in Time : {r \in admitted' : r.time <= t /\ InWindow(r, t)} = {}
    BY <2>1
  <2>7. LimitHolds'
    BY <2>6, FS_EmptySet, LimitAssumption DEF LimitHolds, InWindow
  <2> QED BY <1>1, <2>3, <2>4, <2>5, <2>7 DEF Inv
<1> QED
    BY <1>2, <1>3, <1>4, <1>5, <1>7, <1>8, <1>9, <1>10, <1>11 DEF Next, Serve

\* One request at a time, no window ever has more than max_requests admitted
\* requests in it.
THEOREM SerialLimit == ~Threaded => (Spec => []LimitHolds)
<1>1. Init => Inv
    BY InvInit
<1>2. ASSUME ~Threaded PROVE Inv /\ [Next]_vars => Inv'
    BY <1>2, InvNext
<1>3. Inv => LimitHolds
    BY DEF Inv
<1>4. ASSUME ~Threaded PROVE Spec => []LimitHolds
    BY <1>1, <1>2, <1>3, <1>4, PTL DEF Spec
<1> QED BY <1>4

------------------------------------------------------------------------------
(* No early refusal, one request at a time.  What is on the list when the  *)
(* lengths are compared was admitted, and is in the window of the request: *)
(* the cleaning before the comparison used the request's own time.         *)

Listed == requests \subseteq admitted
Fresh == \A w \in Worker : req[w].pc = "check" => \A r \in requests : InWindow(r, req[w].time)
RefusalInv == Listed /\ Fresh

LEMMA RefusalNext ==
    ASSUME Inv, RefusalInv, [Next]_vars
    PROVE  RefusalInv'
<1> USE DEF RefusalInv
<1>1. CASE UNCHANGED vars
    BY <1>1 DEF vars, Listed, Fresh, InWindow
<1>2. CASE Tick
    BY <1>2 DEF Tick, Listed, Fresh, InWindow
\* A step of thread w that leaves the list alone, or is not followed by a
\* comparison of w's.
<1>3. ASSUME NEW w \in Worker, NEW r, req' = [req EXCEPT ![w] = r], r.pc # "check",
             UNCHANGED <<requests, admitted>>
      PROVE  RefusalInv'
  <2>1. \A v \in Worker : v # w => req'[v] = req[v]
    BY <1>3 DEF Inv, TypeOK
  <2>2. req'[w].pc # "check"
    BY <1>3 DEF Inv, TypeOK
  <2> QED BY <1>3, <2>1, <2>2 DEF Listed, Fresh, InWindow
<1>4. ASSUME NEW w \in Worker, Arrive(w) \/ Reject(w) \/ Handle(w) \/ HandleStatus(w) \/ BeginFilter(w) \/ PassCheck(w)
      PROVE  RefusalInv'
  <2>1. PICK r : req' = [req EXCEPT ![w] = r] /\ r.pc # "check"
    <3>1. CASE Arrive(w)
      <4> DEFINE r == [pc |-> "clean", use |-> "is_rate_limited", time |-> now]
      <4>1. req' = [req EXCEPT ![w] = r] /\ r.pc # "check"
        BY <3>1 DEF Arrive
      <4> QED BY <4>1
    <3>2. CASE Reject(w) \/ Handle(w)
      <4>1. req' = [req EXCEPT ![w] = Idle] /\ Idle.pc # "check"
        BY <3>2 DEF Reject, Handle, Idle
      <4> QED BY <4>1
    <3>3. CASE HandleStatus(w)
      <4> DEFINE r == [pc |-> "clean", use |-> "status", time |-> now]
      <4>1. req' = [req EXCEPT ![w] = r] /\ r.pc # "check"
        BY <3>3 DEF HandleStatus
      <4> QED BY <4>1
    <3>4. CASE BeginFilter(w)
      <4>1. req' = [req EXCEPT ![w] = [req[w] EXCEPT !.pc = "filter"]] /\ [req[w] EXCEPT !.pc = "filter"].pc # "check"
        BY <3>4 DEF BeginFilter, Inv, TypeOK, Request
      <4> QED BY <4>1
    <3>5. CASE PassCheck(w)
      <4>1. req' = [req EXCEPT ![w] = [req[w] EXCEPT !.pc = "append"]] /\ [req[w] EXCEPT !.pc = "append"].pc # "check"
        BY <3>5 DEF PassCheck, Inv, TypeOK, Request
      <4> QED BY <4>1
    <3> QED BY <1>4, <3>1, <3>2, <3>3, <3>4, <3>5
  <2>2. UNCHANGED <<requests, admitted>>
    BY <1>4 DEF Arrive, Reject, Handle, HandleStatus, BeginFilter, PassCheck
  <2> QED BY <1>3, <2>1, <2>2
\* The other threads are idle: whatever happens to the list, none compares.
<1>5. ASSUME NEW w \in Worker, req[w].pc # "idle", NEW v \in Worker, v # w, req'[v] = req[v]
      PROVE  req'[v].pc # "check"
    BY <1>5 DEF Inv, OneAtATime
<1>6. ASSUME NEW w \in Worker, CleanEmpty(w) \/ EndFilter(w)
      PROVE  RefusalInv'
  <2>1. /\ requests' = {r \in requests : InWindow(r, req[w].time)}
        /\ req' = [req EXCEPT ![w].pc = AfterClean(req[w].use)]
        /\ UNCHANGED admitted /\ req[w].pc # "idle"
    <3>1. CASE CleanEmpty(w)
        BY <3>1 DEF CleanEmpty, Replace
    <3>2. CASE EndFilter(w)
        BY <3>2 DEF EndFilter, Replace, Filtered, Seen, Inv, OneAtATime, Current
    <3> QED BY <1>6, <3>1, <3>2
  <2>2. req'[w].time = req[w].time /\ \A v \in Worker : v # w => req'[v] = req[v]
    BY <2>1 DEF Inv, TypeOK, Request
  <2>3. Listed'
    BY <2>1 DEF Listed
  <2>4. \A r \in requests' : InWindow(r, req'[w].time)
    BY <2>1, <2>2
  <2>5. Fresh'
    BY <1>5, <2>1, <2>2, <2>4 DEF Fresh, InWindow
  <2> QED BY <2>3, <2>5
<1>7. ASSUME NEW w \in Worker, AppendRequest(w)
      PROVE  RefusalInv'
  <2>1. /\ requests' \subseteq admitted'
        /\ req' = [req EXCEPT ![w] = [pc |-> "clean", use |-> "get_remaining_requests", time |-> now]]
        /\ req[w].pc # "idle"
    BY <1>7 DEF AppendRequest, Listed
  <2>2. req'[w].pc = "clean" /\ \A v \in Worker : v # w => req'[v] = req[v]
    BY <2>1 DEF Inv, TypeOK
  <2> QED BY <1>5, <2>1, <2>2 DEF Listed, Fresh
<1>8. ASSUME NEW w \in Worker, HandleReset(w)
      PROVE  RefusalInv'
    BY <1>8 DEF HandleReset, Replace, Listed, Fresh
<1> QED
    BY <1>1, <1>2, <1>4, <1>6, <1>7, <1>8 DEF Next, Serve

\* One request at a time, a 429 is given only to a request in whose window
\* max_requests were let through.
THEOREM SerialRefusal == ~Threaded => (Spec => []RefusedOnlyAtLimit)
<1>1. Init => Inv /\ RefusalInv
    BY InvInit DEF Init, RefusalInv, Listed, Fresh, Idle
<1>2. ASSUME ~Threaded PROVE Inv /\ RefusalInv /\ [Next]_vars => (Inv /\ RefusalInv)'
    BY <1>2, InvNext, RefusalNext
<1>3. Inv /\ RefusalInv => RefusedOnlyAtLimit
  <2> SUFFICES ASSUME Inv, RefusalInv, NEW w \in Worker, req[w].pc = "check", AtLimit
               PROVE  Cardinality({r \in admitted : InWindow(r, req[w].time)}) >= max_requests
      BY DEF RefusedOnlyAtLimit
  <2> DEFINE S == {r \in admitted : InWindow(r, req[w].time)}
  <2>1. requests \subseteq S
      BY DEF RefusalInv, Listed, Fresh
  <2>2. IsFiniteSet(S)
      BY FS_Subset DEF Inv, Finite
  <2> HIDE DEF S
  <2>3. Cardinality(requests) <= Cardinality(S) /\ IsFiniteSet(requests)
      BY <2>1, <2>2, FS_Subset
  <2>4. Cardinality(S) \in Nat /\ Cardinality(requests) \in Nat /\ max_requests \in Nat
      BY <2>2, <2>3, FS_CardinalityType, LimitAssumption
  <2>5. Cardinality(S) >= max_requests
      BY <2>3, <2>4 DEF AtLimit
  <2> QED BY <2>5 DEF S
<1>4. ASSUME ~Threaded PROVE Spec => []RefusedOnlyAtLimit
    BY <1>1, <1>2, <1>3, <1>4, PTL DEF Spec
<1> QED BY <1>4
==============================================================================
