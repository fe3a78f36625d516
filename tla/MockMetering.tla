---------------------------- MODULE MockMetering ----------------------------
(***************************************************************************)
(* The metering data of one account (one uuid) in the mock server: the     *)
(* dict TestDataManager keeps under the uuid (mock_server/                 *)
(* test_data_manager.py), the POST /billing/meters that empties and refills*)
(* it, the statement calculations that loop over it, and the reset         *)
(* (mock_server/app.py).                                                   *)
(*                                                                         *)
(* get_store returns the dict itself, under a lock that covers only the    *)
(* look-up; the callers fill it and loop over it with no lock.  Dicts are  *)
(* therefore modelled by identity, as a heap: a request goes on with the   *)
(* dict it was given after another has deleted it from the manager.        *)
(* A meter is told by the POST it came in and its place in meterList.      *)
(***************************************************************************)
EXTENDS Integers, FiniteSets

CONSTANTS
    Worker,     \* the threads that serve requests
    Threaded,   \* the servers considered: TRUE, one whose requests overlap;
                \* FALSE, one that takes one request at a time
    MaxMeters,  \* bound: meters in one POST
    MaxPosts,   \* bound: POSTs in a behaviour
    MaxDicts    \* bound: dicts created in a behaviour

ASSUME ThreadedAssumption == Threaded \in SUBSET BOOLEAN
ASSUME BoundsAssumption == MaxMeters \in Nat /\ MaxPosts \in Nat /\ MaxDicts \in Nat

VARIABLES
    threaded,   \* the server of this behaviour
    dicts,      \* dicts[d]: the meters in dict d
    allocated,  \* the dicts created so far are 1 .. allocated
    store,      \* metering_data[uuid], NoDict when there is none
    req,        \* what each thread is executing
    posts,      \* history: the number of POSTs taken up so far
    inserted,   \* history: how many meters each POST has inserted
    acked,      \* history: the POSTs answered with success
    cleared,    \* history: the POSTs after which the account was cleared
    stale       \* history: the POSTs already answered when it was cleared

vars == <<threaded, dicts, allocated, store, req, posts, inserted, acked, cleared, stale>>

(* Operators named Thing_Bug are mutants of Thing. *)

Post == 1 .. MaxPosts
Meter == [post : Post, n : 1 .. MaxMeters]
DictId == 1 .. MaxDicts
NoDict == 0

\* dict: the one the request was given; post and left: which POST it is and the
\* meters still to insert; size and seen: for a loop, the size the dict had at
\* its start and the meters it has been over.
Idle == [pc |-> "idle", dict |-> NoDict, post |-> 0, left |-> 0, size |-> 0, seen |-> {}]
Request == [pc : {"idle", "cleared", "insert", "given", "loop"},
            dict : DictId \cup {NoDict}, post : Post \cup {0}, left : 0 .. MaxMeters,
            size : Nat, seen : SUBSET Meter]

AllIdle == \A w \in Worker : req[w].pc = "idle"
CanStart(w) == req[w].pc = "idle" /\ (threaded \/ AllIdle)
Finish(w) == req' = [req EXCEPT ![w] = Idle]

\* The meters that the dict a request was given has now.
Contents(w) == dicts[req[w].dict]

\* clear_uuid_data, of the metering store: the uuid's dict is deleted from it.
ClearUuidData_OtherStore == UNCHANGED store
ClearUuidData == store' = NoDict

\* get_store: the dict itself, made on demand because the store is a
\* defaultdict.
GetStore_Copies(d) ==
    /\ allocated < MaxDicts /\ d = allocated + 1
    /\ allocated' = d
    /\ dicts' = [dicts EXCEPT ![d] = IF store = NoDict THEN {} ELSE dicts[store]]
    /\ store' = IF store = NoDict THEN d ELSE store
GetStore(d) ==
    \/ /\ store # NoDict /\ d = store
       /\ UNCHANGED <<dicts, allocated, store>>
    \/ /\ store = NoDict
       /\ allocated < MaxDicts /\ d = allocated + 1
       /\ allocated' = d
       /\ dicts' = [dicts EXCEPT ![d] = {}]
       /\ store' = d

------------------------------------------------------------------------------
(* POST /billing/meters. *)

\* What was posted before is cleared ...
BeginPost(w) ==
    /\ CanStart(w)
    /\ posts < MaxPosts
    /\ \E n \in 0 .. MaxMeters :
          req' = [req EXCEPT ![w] = [Idle EXCEPT !.pc = "cleared", !.post = posts + 1, !.left = n]]
    /\ ClearUuidData
    /\ posts' = posts + 1
    /\ cleared' = cleared \cup 1 .. posts
    /\ stale' = stale \cup acked
    /\ UNCHANGED <<threaded, dicts, allocated, inserted, acked>>

\* ... and the store, "now empty", is looked up.
GetEmptyStore(w) ==
    /\ req[w].pc = "cleared"
    /\ \E d \in DictId :
          /\ GetStore(d)
          /\ req' = [req EXCEPT ![w].pc = "insert", ![w].dict = d]
    /\ UNCHANGED <<threaded, posts, inserted, acked, cleared, stale>>

\* Its meters are numbered from 1, as they are inserted.
NewMeter(p) == [post |-> p, n |-> inserted[p] + 1]

\* One turn of the loop over meterList.
InsertMeter(w) ==
    /\ req[w].pc = "insert" /\ req[w].left > 0
    /\ LET p == req[w].post
       IN  /\ dicts' = [dicts EXCEPT ![req[w].dict] = @ \cup {NewMeter(p)}]
           /\ inserted' = [inserted EXCEPT ![p] = @ + 1]
    /\ req' = [req EXCEPT ![w].left = @ - 1]
    /\ UNCHANGED <<threaded, allocated, store, posts, acked, cleared, stale>>

\* An element of meterList is not an object: the request fails with a 500 and
\* the meters already inserted stay.
FailPost(w) ==
    /\ req[w].pc = "insert" /\ req[w].left > 0
    /\ Finish(w)
    /\ UNCHANGED <<threaded, dicts, allocated, store, posts, inserted, acked, cleared, stale>>

\* Every meter is inserted and the meters' ids are answered.
EndPost(w) ==
    /\ req[w].pc = "insert" /\ req[w].left = 0
    /\ acked' = acked \cup {req[w].post}
    /\ Finish(w)
    /\ UNCHANGED <<threaded, dicts, allocated, store, posts, inserted, cleared, stale>>

------------------------------------------------------------------------------
(* A statement or bill: every one of them loops over metering_store.values() *)
(* to compute its charge.                                                    *)

BeginStatement(w) ==
    /\ CanStart(w)
    /\ \E d \in DictId :
          /\ GetStore(d)
          /\ req' = [req EXCEPT ![w] = [Idle EXCEPT !.pc = "given", !.dict = d]]
    /\ UNCHANGED <<threaded, posts, inserted, acked, cleared, stale>>

\* The iterator notes the size of the dict.
BeginLoop(w) ==
    /\ req[w].pc = "given"
    /\ req' = [req EXCEPT ![w].pc = "loop", ![w].size = Cardinality(Contents(w))]
    /\ UNCHANGED <<threaded, dicts, allocated, store, posts, inserted, acked, cleared, stale>>

SizeUnchanged(w) == Cardinality(Contents(w)) = req[w].size

\* The next meter; the order in which the dict yields them does not matter here.
LoopMeter(w) ==
    /\ req[w].pc = "loop" /\ SizeUnchanged(w)
    /\ \E m \in Contents(w) \ req[w].seen :
          req' = [req EXCEPT ![w].seen = @ \cup {m}]
    /\ UNCHANGED <<threaded, dicts, allocated, store, posts, inserted, acked, cleared, stale>>

\* The dict has grown since the loop began: RuntimeError.  Or the next meter's
\* counterVolume, which no POST checks, is not a number: ValueError.  A 500.
LoopFails(w) ==
    /\ req[w].pc = "loop"
    /\ ~SizeUnchanged(w) \/ Contents(w) \ req[w].seen # {}
    /\ Finish(w)
    /\ UNCHANGED <<threaded, dicts, allocated, store, posts, inserted, acked, cleared, stale>>

\* The loop is over: the statement is computed from what it saw.
Answering(w) == req[w].pc = "loop" /\ SizeUnchanged(w) /\ req[w].seen = Contents(w)
AnswerStatement(w) ==
    /\ Answering(w)
    /\ Finish(w)
    /\ UNCHANGED <<threaded, dicts, allocated, store, posts, inserted, acked, cleared, stale>>

------------------------------------------------------------------------------
(* The reset. *)

\* DELETE /test/reset/<uuid> clears the uuid in the manager.  POST /test/reset is
\* no action: it clears the uuid's keys of the global metering_data, a dict that
\* POST /billing/meters does not write, and the manager is not told.
ResetByDelete ==
    /\ threaded \/ AllIdle
    /\ ClearUuidData
    /\ cleared' = cleared \cup 1 .. posts
    /\ stale' = stale \cup acked
    /\ UNCHANGED <<threaded, dicts, allocated, req, posts, inserted, acked>>

------------------------------------------------------------------------------
Init ==
    /\ threaded \in Threaded
    /\ dicts = [d \in DictId |-> {}]
    /\ allocated = 0
    /\ store = NoDict
    /\ req = [w \in Worker |-> Idle]
    /\ posts = 0
    /\ inserted = [p \in Post |-> 0]
    /\ acked = {}
    /\ cleared = {}
    /\ stale = {}

Serve(w) ==
    \/ BeginPost(w)
    \/ GetEmptyStore(w)
    \/ InsertMeter(w)
    \/ FailPost(w)
    \/ EndPost(w)
    \/ BeginStatement(w)
    \/ BeginLoop(w)
    \/ LoopMeter(w)
    \/ LoopFails(w)
    \/ AnswerStatement(w)

Next ==
    \/ \E w \in Worker : Serve(w)
    \/ ResetByDelete

Spec == Init /\ [][Next]_vars

------------------------------------------------------------------------------
(* Properties. *)

\* The meters POST p has put in the server.
Posted(p) == {[post |-> p, n |-> k] : k \in 1 .. inserted[p]}

\* A meter whose POST was answered is lost only to a later clearing of the
\* account (another POST, a DELETE reset), however requests overlap: it is in
\* the dict the next statement will be computed from.
NoMeterLostUnlessCleared ==
    \A p \in acked \ cleared : /\ store # NoDict
                               /\ Posted(p) \subseteq dicts[store]

\* A statement is computed from exactly what the last POST put in, nothing
\* older being left ("fresh calculation", create_metering), and from nothing
\* after a DELETE reset.  True of a server that takes one request at a time.
StatementOfLastPost ==
    \A w \in Worker : ~threaded /\ Answering(w) =>
        req[w].seen = IF posts \in {0} \cup cleared THEN {} ELSE Posted(posts)

\* What a server with threads still gets right: usage whose POST was answered
\* before the account was cleared is not charged for again, although requests
\* may still hold the dict it was in.  (Two POSTs that overlap may be charged
\* together: create_metering clears and looks up the store in two steps.)
NoStaleUsage ==
    store # NoDict => \A m \in dicts[store] : m.post \notin stale
==============================================================================
