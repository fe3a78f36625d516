----------------------------- MODULE RateLimiter -----------------------------
(***************************************************************************)
(* The rate limiter of the mock server (mock_server/security.py) for one   *)
(* client: the list rate_limiter.requests[client_id] of the times of the   *)
(* requests admitted, kept by the before_request hook that every request   *)
(* of a server thread runs through, with no lock.                          *)
(*                                                                         *)
(* Cleaning the list builds a new one from the old with a comprehension    *)
(* and then stores it.  The comprehension runs over the list object it     *)
(* found at its start: while that object is still the client's list it     *)
(* sees what others append to it; once another thread has stored its own   *)
(* cleaned list, it goes on with an object that nobody appends to any      *)
(* more.  held[w] is what thread w iterates over: Current as long as it is *)
(* the client's list, and the contents of the detached list from then on.  *)
(*                                                                         *)
(* Time is counted in ticks of the clock; time.time() is assumed not to go *)
(* back.  Admitted requests are told apart by their number, so the list    *)
(* and its length are a set and its cardinality.                           *)
(***************************************************************************)
EXTENDS Integers, FiniteSets

CONSTANTS
    Worker,        \* the threads that serve requests
    Threaded,      \* TRUE: requests overlap; FALSE: one request at a time
    max_requests,  \* requests allowed in a window
    window,        \* window_seconds, in ticks
    MaxTime,       \* bound: the last tick
    MaxAdmitted    \* bound: requests admitted in a behaviour

ASSUME WorkerAssumption == Worker # {}
ASSUME ThreadedAssumption == Threaded \in BOOLEAN
ASSUME LimitAssumption == max_requests \in Nat /\ window \in Nat \ {0}
ASSUME BoundsAssumption == MaxTime \in Nat /\ MaxAdmitted \in Nat

VARIABLES
    now,       \* the clock
    requests,  \* the client's list
    req,       \* what each thread is doing
    held,      \* the list a thread's comprehension runs over
    admitted,  \* history: the requests let through since the last reset
    count      \* history: the number of requests let through so far

vars == <<now, requests, req, held, admitted, count>>

Time == 0 .. MaxTime
Record == [id : 1 .. MaxAdmitted, time : Time]
Records == SUBSET Record

Current == [detached |-> FALSE, list |-> {}]
Detached(list) == [detached |-> TRUE, list |-> list]

\* A thread is idle, or in one of the steps of a call: about to clean, in the
\* comprehension, about to compare, about to append, or in the handler.  use
\* says whether the cleaning is that of is_rate_limited, of
\* get_remaining_requests or of GET /test/rate-limit/status.
Idle == [pc |-> "idle", use |-> "none", time |-> 0]
Request == [pc : {"idle", "clean", "filter", "check", "append", "handler"},
            use : {"none", "is_rate_limited", "get_remaining_requests", "status"},
            time : Time]

(* Operators named Thing_Bug are mutants of Thing. *)

------------------------------------------------------------------------------
\* A request is in the window that ends at t.
InWindow(r, t) == r.time > t - window

\* What a comprehension runs over.
Seen(w) == IF held[w].detached THEN held[w].list ELSE requests

\* Thread w replaces the client's list: the comprehensions of the others go on
\* with the old one.
Replace(w, list) ==
    /\ requests' = list
    /\ held' = [v \in Worker |-> IF req[v].pc = "filter" /\ v # w
                                   THEN Detached(Seen(v)) ELSE Current]

CanStart(w) == req[w].pc = "idle" /\ (Threaded \/ \A v \in Worker : req[v].pc = "idle")

\* After a cleaning is_rate_limited goes on to compare; the others only read.
AfterClean(use) == IF use = "is_rate_limited" THEN "check"
                   ELSE IF use = "get_remaining_requests" THEN "handler" ELSE "idle"

\* A request arrives: is_rate_limited reads the clock.
Arrive(w) ==
    /\ CanStart(w)
    /\ req' = [req EXCEPT ![w] = [pc |-> "clean", use |-> "is_rate_limited", time |-> now]]
    /\ UNCHANGED <<now, requests, held, admitted, count>>

\* _clean_old_requests, on a list with nothing in it: there is no turn of the
\* comprehension at which the thread could lose control.
CleanEmpty(w) ==
    /\ req[w].pc = "clean" /\ requests = {}
    /\ Replace(w, {})
    /\ req' = [req EXCEPT ![w].pc = AfterClean(req[w].use)]
    /\ UNCHANGED <<now, admitted, count>>

\* _clean_old_requests takes the list it will run over ...
BeginFilter(w) ==
    /\ req[w].pc = "clean" /\ requests # {}
    /\ req' = [req EXCEPT ![w].pc = "filter"]
    /\ UNCHANGED <<now, requests, held, admitted, count>>

\* ... and stores what is still in the window.
Filtered_Closed(w) == {r \in Seen(w) : r.time >= req[w].time - window}
Filtered(w) == {r \in Seen(w) : InWindow(r, req[w].time)}

EndFilter(w) ==
    /\ req[w].pc = "filter"
    /\ Replace(w, Filtered(w))
    /\ req' = [req EXCEPT ![w].pc = AfterClean(req[w].use)]
    /\ UNCHANGED <<now, admitted, count>>

\* len(requests) >= max_requests
AtLimit_Greater == Cardinality(requests) > max_requests
AtLimit == Cardinality(requests) >= max_requests

\* The length is read; at the limit the request is answered with a 429.
Reject(w) ==
    /\ req[w].pc = "check" /\ AtLimit
    /\ req' = [req EXCEPT ![w] = Idle]
    /\ UNCHANGED <<now, requests, held, admitted, count>>

PassCheck(w) ==
    /\ req[w].pc = "check" /\ ~AtLimit
    /\ req' = [req EXCEPT ![w].pc = "append"]
    /\ UNCHANGED <<now, requests, held, admitted, count>>

\* The time recorded is that of the arrival.
TimeRecorded_Expiry(w) == req[w].time + window
TimeRecorded(w) == req[w].time

\* The request is recorded on the list the client has now; get_remaining_requests then reads the clock again.
AppendRequest(w) ==
    /\ req[w].pc = "append"
    /\ count < MaxAdmitted
    /\ LET r == [id |-> count + 1, time |-> TimeRecorded(w)]
       IN  /\ requests' = requests \cup {r}
           /\ admitted' = admitted \cup {r}
    /\ count' = count + 1
    /\ req' = [req EXCEPT ![w] = [pc |-> "clean", use |-> "get_remaining_requests", time |-> now]]
    /\ UNCHANGED <<now, held>>

\* The handler of the request: one that has nothing to do with the limiter,
Handle(w) ==
    /\ req[w].pc = "handler"
    /\ req' = [req EXCEPT ![w] = Idle]
    /\ UNCHANGED <<now, requests, held, admitted, count>>

\* GET /test/rate-limit/status, which cleans the list once more,
HandleStatus(w) ==
    /\ req[w].pc = "handler"
    /\ req' = [req EXCEPT ![w] = [pc |-> "clean", use |-> "status", time |-> now]]
    /\ UNCHANGED <<now, requests, held, admitted, count>>

\* or POST /test/reset, which forgets the client's list.
HandleReset(w) ==
    /\ req[w].pc = "handler"
    /\ Replace(w, {})
    /\ admitted' = {}
    /\ req' = [req EXCEPT ![w] = Idle]
    /\ UNCHANGED <<now, count>>

Tick ==
    /\ now < MaxTime
    /\ now' = now + 1
    /\ UNCHANGED <<requests, req, held, admitted, count>>

Init ==
    /\ now = 0
    /\ requests = {}
    /\ req = [w \in Worker |-> Idle]
    /\ held = [w \in Worker |-> Current]
    /\ admitted = {}
    /\ count = 0

Serve(w) ==
    \/ Arrive(w)
    \/ CleanEmpty(w)
    \/ BeginFilter(w)
    \/ EndFilter(w)
    \/ Reject(w)
    \/ PassCheck(w)
    \/ AppendRequest(w)
    \/ Handle(w)
    \/ HandleStatus(w)
    \/ HandleReset(w)

Next == Tick \/ \E w \in Worker : Serve(w)

Spec == Init /\ [][Next]_vars

------------------------------------------------------------------------------
(* Properties. *)

\* The type invariant.
TypeOK ==
    /\ now \in Time
    /\ requests \in Records
    /\ req \in [Worker -> Request]
    /\ held \in [Worker -> [detached : BOOLEAN, list : Records]]
    /\ admitted \in Records
    /\ count \in 0 .. MaxAdmitted

\* The limit: of the requests let through since the last reset, no window,
\* wherever it ends, has more than max_requests.  True of a server that takes
\* one request at a time; is_rate_limited compares and appends without a lock,
\* so false of the threaded one.
LimitHolds ==
    \A t \in Time : Cardinality({r \in admitted : r.time <= t /\ InWindow(r, t)}) <= max_requests

\* Nobody is refused early: a request is about to be answered with a 429 only
\* when max_requests were let through in the window that ends at its arrival.
RefusedOnlyAtLimit ==
    \A w \in Worker :
        req[w].pc = "check" /\ AtLimit =>
            Cardinality({r \in admitted : InWindow(r, req[w].time)}) >= max_requests
==============================================================================
