------------------------ MODULE MockMetering_proofs ------------------------
(***************************************************************************)
(* Proofs about MockMetering, for any number of threads, POSTs, meters and *)
(* dicts: no meter whose POST was answered is lost but to a later clearing,*)
(* none is charged for again after one, and a server that takes one        *)
(* request at a time computes a statement from the last POST.              *)
(***************************************************************************)
EXTENDS MockMetering, FiniteSetTheorems, TLAPS

------------------------------------------------------------------------------
(* The invariant. *)

InPost(w) == req[w].pc \in {"cleared", "insert"}

Types == /\ threaded \in BOOLEAN
         /\ dicts \in [DictId -> SUBSET Meter]
         /\ store \in DictId \cup {NoDict}
         /\ req \in [Worker -> Request]
         /\ posts \in 0 .. MaxPosts
         /\ inserted \in [Post -> Nat]
         /\ acked \subseteq 1 .. posts /\ cleared \subseteq 1 .. posts /\ stale \subseteq acked

\* Meters are inserted one by one, so that a dict is finite, as is what a POST brings.
Finite == /\ \A d \in DictId : IsFiniteSet(dicts[d])
          /\ \A w \in Worker : InPost(w) => inserted[req[w].post] + req[w].left <= MaxMeters

\* A POST has one request, which is over when it is answered, and inserts nothing
\* before it has a dict.
OneRequest ==
    /\ \A w \in Worker : InPost(w) => req[w].post \in 1 .. posts /\ req[w].post \notin acked
    /\ \A w, v \in Worker : InPost(w) /\ InPost(v) /\ req[w].post = req[v].post => w = v
    /\ \A w \in Worker : req[w].pc = "cleared" => inserted[req[w].post] = 0
    /\ \A p \in Post : p > posts => inserted[p] = 0

HasDict == \A w \in Worker : req[w].pc \in {"insert", "given", "loop"} => req[w].dict \in DictId

\* A POST after which nothing was cleared has the dict of the store.
Holds(p) == store # NoDict /\ Posted(p) \subseteq dicts[store]
InStore == \A w \in Worker :
              req[w].pc = "insert" /\ req[w].post \notin cleared =>
                 req[w].dict = store /\ Holds(req[w].post)

Inv == /\ Types /\ Finite /\ OneRequest /\ HasDict /\ InStore
       /\ NoMeterLostUnlessCleared /\ NoStaleUsage

------------------------------------------------------------------------------
(* What the operators do. *)

LEMMA Bounds ==
    /\ MaxMeters \in Nat /\ MaxPosts \in Nat /\ MaxDicts \in Nat
    /\ NoDict \notin DictId /\ 0 \notin Post
    BY BoundsAssumption DEF NoDict, DictId, Post

LEMMA PostedType ==
    ASSUME NEW p \in Post, NEW m \in Posted(p)
    PROVE  m.post = p
    BY DEF Posted

LEMMA PostedSame ==
    ASSUME NEW p, inserted'[p] = inserted[p]
    PROVE  Posted(p)' = Posted(p)
    BY DEF Posted

LEMMA PostedGrows ==
    ASSUME NEW p, inserted[p] \in Nat, inserted'[p] = inserted[p] + 1
    PROVE  Posted(p)' = Posted(p) \cup {NewMeter(p)}
<1>1. 1 .. inserted'[p] = (1 .. inserted[p]) \cup {inserted[p] + 1}
    OBVIOUS
<1> QED BY <1>1 DEF Posted, NewMeter

LEMMA PostedNone ==
    ASSUME NEW p, inserted[p] = 0
    PROVE  Posted(p) = {}
    BY DEF Posted

\* What get_store returns is the store afterwards, an empty dict if there was none.
LEMMA Got ==
    ASSUME Types, Finite, NEW d \in DictId, GetStore(d)
    PROVE  /\ store' = d
           /\ dicts' \in [DictId -> SUBSET Meter] /\ \A e \in DictId : IsFiniteSet(dicts'[e])
           /\ store # NoDict => store = d /\ dicts' = dicts
           /\ store = NoDict => dicts'[d] = {}
<1>1. CASE store # NoDict
    BY <1>1 DEF GetStore, Types, Finite
<1>2. CASE store = NoDict
    <2>1. store' = d /\ dicts' = [dicts EXCEPT ![d] = {}]
        BY <1>2 DEF GetStore
    <2>2. IsFiniteSet({})
        BY FS_EmptySet
    <2> QED BY <1>2, <2>1, <2>2 DEF Types, Finite
<1> QED BY <1>1, <1>2


\* A request that is replaced.
LEMMA Replaced ==
    ASSUME Types, NEW w \in Worker, NEW r \in Request, req' = [req EXCEPT ![w] = r]
    PROVE  /\ req' \in [Worker -> Request] /\ req'[w] = r
           /\ \A v \in Worker : v # w => req'[v] = req[v]
    BY DEF Types

LEMMA IdleType == Idle \in Request /\ Idle.pc = "idle"
<1>1. 0 \in 0 .. MaxMeters
    BY Bounds
<1> QED BY <1>1 DEF Idle, Request

\* The requests the handlers write.
Posting(p, n) == [Idle EXCEPT !.pc = "cleared", !.post = p, !.left = n]
Given(x, d) == [x EXCEPT !.pc = "insert", !.dict = d]
Inserted(x) == [x EXCEPT !.left = @ - 1]
Stating(d) == [Idle EXCEPT !.pc = "given", !.dict = d]
Looping(x, n) == [x EXCEPT !.pc = "loop", !.size = n]
Seeing(x, m) == [x EXCEPT !.seen = @ \cup {m}]

LEMMA PostingType ==
    ASSUME NEW p \in Post, NEW n \in 0 .. MaxMeters
    PROVE  /\ Posting(p, n) \in Request
           /\ Posting(p, n).pc = "cleared" /\ Posting(p, n).post = p /\ Posting(p, n).left = n
    BY IdleType DEF Posting, Request

LEMMA GivenType ==
    ASSUME NEW x \in Request, NEW d \in DictId
    PROVE  /\ Given(x, d) \in Request
           /\ Given(x, d).pc = "insert" /\ Given(x, d).dict = d
           /\ Given(x, d).post = x.post /\ Given(x, d).left = x.left
    BY DEF Given, Request

LEMMA InsertedType ==
    ASSUME NEW x \in Request, x.left > 0
    PROVE  /\ Inserted(x) \in Request
           /\ Inserted(x).pc = x.pc /\ Inserted(x).dict = x.dict
           /\ Inserted(x).post = x.post /\ Inserted(x).left = x.left - 1
<1>1. x.left \in 0 .. MaxMeters /\ MaxMeters \in Nat
    BY Bounds DEF Request
<1>2. x.left - 1 \in 0 .. MaxMeters
    BY <1>1
<1> QED BY <1>2 DEF Inserted, Request

LEMMA StatingType ==
    ASSUME NEW d \in DictId
    PROVE  /\ Stating(d) \in Request
           /\ Stating(d).pc = "given" /\ Stating(d).dict = d
    BY IdleType DEF Stating, Request

LEMMA LoopingType ==
    ASSUME NEW x \in Request, NEW n \in Nat
    PROVE  /\ Looping(x, n) \in Request
           /\ Looping(x, n).pc = "loop" /\ Looping(x, n).dict = x.dict
    BY DEF Looping, Request

LEMMA SeeingType ==
    ASSUME NEW x \in Request, NEW m \in Meter
    PROVE  /\ Seeing(x, m) \in Request
           /\ Seeing(x, m).pc = x.pc /\ Seeing(x, m).dict = x.dict
    BY DEF Seeing, Request

\* A step of one request that leaves the account alone, and is not about to insert.
LEMMA Elsewhere ==
    ASSUME Inv, NEW w \in Worker, NEW r \in Request, req' = [req EXCEPT ![w] = r],
           r.pc \in {"idle", "given", "loop"}, r.pc # "idle" => r.dict \in DictId,
           threaded' = threaded, dicts' = dicts, store' = store, posts' = posts,
           inserted' = inserted, acked' = acked, cleared' = cleared, stale' = stale
    PROVE  Inv'
<1>1. /\ req' \in [Worker -> Request] /\ req'[w] = r
      /\ \A v \in Worker : v # w => req'[v] = req[v]
    BY Replaced DEF Inv
<1>2. ~InPost(w)' /\ \A v \in Worker : InPost(v)' => InPost(v) /\ req'[v] = req[v]
    BY <1>1 DEF InPost
<1>3. Types' /\ Finite'
    BY <1>1, <1>2 DEF Inv, Types, Finite, NoDict
<1>4. OneRequest'
    BY <1>1, <1>2 DEF Inv, OneRequest
<1>5. HasDict'
    BY <1>1 DEF Inv, HasDict
<1>6. \A p \in Post : Posted(p)' = Posted(p)
    BY PostedSame
<1>7. InStore'
    <2> SUFFICES ASSUME NEW v \in Worker, req'[v].pc = "insert", req'[v].post \notin cleared
                 PROVE  req'[v].dict = store /\ Holds(req[v].post)'
        BY DEF InStore
    <2>1. req'[v] = req[v]
        BY <1>1
    <2>2. req[v].dict = store /\ store # NoDict /\ Posted(req[v].post) \subseteq dicts[store]
        BY <2>1 DEF Inv, InStore, Holds
    <2>3. Posted(req[v].post)' = Posted(req[v].post)
        BY <2>1 DEF Posted
    <2> QED BY <2>1, <2>2, <2>3 DEF Holds, NoDict
<1>8. NoMeterLostUnlessCleared' /\ NoStaleUsage'
    BY DEF Inv, NoMeterLostUnlessCleared, NoStaleUsage, Posted, NoDict
<1> QED BY <1>3, <1>4, <1>5, <1>7, <1>8 DEF Inv

\* The store is emptied: every POST so far is cleared after, every answered one stale.
LEMMA ClearedAll ==
    ASSUME Inv, Types', store' = NoDict, dicts' = dicts, cleared' = cleared \cup 1 .. posts,
           acked' = acked, \A w \in Worker : req'[w].pc = "insert" => req'[w] = req[w]
    PROVE  InStore' /\ NoMeterLostUnlessCleared' /\ NoStaleUsage'
<1>1. acked' \subseteq cleared'
    BY DEF Inv, Types
<1>2. \A w \in Worker : req'[w].pc = "insert" => req'[w].post \in cleared'
    BY DEF Inv, OneRequest, InPost
<1> QED BY <1>1, <1>2 DEF InStore, NoMeterLostUnlessCleared, NoStaleUsage, NoDict

------------------------------------------------------------------------------
(* The steps. *)

LEMMA BeginPostKeeps == ASSUME Inv, NEW w \in Worker, BeginPost(w) PROVE Inv'
<1>1. PICK n \in 0 .. MaxMeters :
         req' = [req EXCEPT ![w] = [Idle EXCEPT !.pc = "cleared", !.post = posts + 1, !.left = n]]
    BY DEF BeginPost
<1> DEFINE r == Posting(posts + 1, n)
<1>2. /\ posts \in Nat /\ posts < MaxPosts /\ posts + 1 \in Post /\ MaxPosts \in Nat
      /\ acked \subseteq 1 .. posts /\ cleared \subseteq 1 .. posts /\ stale \subseteq acked
    BY Bounds DEF BeginPost, Inv, Types, Post
<1>3. /\ store' = NoDict /\ posts' = posts + 1 /\ cleared' = cleared \cup 1 .. posts
      /\ stale' = stale \cup acked /\ threaded' = threaded /\ dicts' = dicts
      /\ inserted' = inserted /\ acked' = acked
    BY DEF BeginPost, ClearUuidData
<1>4. req' = [req EXCEPT ![w] = r]
    BY <1>1 DEF Posting
<1>5. r \in Request /\ r.pc = "cleared" /\ r.post = posts + 1 /\ r.left = n
    BY <1>2, PostingType
<1> HIDE DEF r
<1>6. /\ req' \in [Worker -> Request] /\ req'[w] = r
      /\ \A v \in Worker : v # w => req'[v] = req[v]
    BY <1>4, <1>5, Replaced DEF Inv
<1>7. Types'
    <2>1. posts' \in 0 .. MaxPosts
        BY <1>2, <1>3
    <2>2. acked' \subseteq 1 .. posts' /\ cleared' \subseteq 1 .. posts' /\ stale' \subseteq acked'
        BY <1>2, <1>3
    <2> QED BY <1>3, <1>6, <2>1, <2>2 DEF Inv, Types, NoDict
<1>8. inserted[posts + 1] = 0
    BY <1>2 DEF Inv, OneRequest
<1>9. Finite'
    <2> SUFFICES ASSUME NEW v \in Worker, InPost(v)'
                 PROVE  inserted'[req'[v].post] + req'[v].left <= MaxMeters
        BY <1>3 DEF Inv, Finite
    <2>1. CASE v = w
        BY <1>3, <1>5, <1>6, <1>8, <2>1, Bounds
    <2>2. CASE v # w
        BY <1>3, <1>6, <2>2 DEF Inv, Finite, InPost
    <2> QED BY <2>1, <2>2
<1>10. OneRequest'
    <2>1. \A v \in Worker : v # w /\ InPost(v)' =>
             InPost(v) /\ req'[v] = req[v] /\ req[v].post \in 1 .. posts
        BY <1>6 DEF Inv, OneRequest, InPost
    <2>2. \A v \in Worker : InPost(v)' => req'[v].post \in 1 .. posts' /\ req'[v].post \notin acked'
        <3>1. posts + 1 \in 1 .. posts' /\ posts + 1 \notin acked /\ 1 .. posts \subseteq 1 .. posts'
            BY <1>2, <1>3
        <3> QED BY <1>3, <1>5, <1>6, <2>1, <3>1 DEF Inv, OneRequest
    <2>3. \A v, u \in Worker : InPost(v)' /\ InPost(u)' /\ req'[v].post = req'[u].post => v = u
        <3>1. posts + 1 \notin 1 .. posts
            BY <1>2
        <3> QED BY <1>5, <1>6, <2>1, <3>1 DEF Inv, OneRequest
    <2>4. \A v \in Worker : req'[v].pc = "cleared" => inserted'[req'[v].post] = 0
        BY <1>3, <1>5, <1>6, <1>8 DEF Inv, OneRequest
    <2>5. \A p \in Post : p > posts' => inserted'[p] = 0
        <3>1. \A p \in Post : p > posts' => p > posts
            BY <1>2, <1>3 DEF Post
        <3> QED BY <1>3, <3>1 DEF Inv, OneRequest
    <2> QED BY <2>2, <2>3, <2>4, <2>5 DEF OneRequest
<1>11. HasDict'
    BY <1>5, <1>6 DEF Inv, HasDict
<1>12. InStore' /\ NoMeterLostUnlessCleared' /\ NoStaleUsage'
    <2>1. \A v \in Worker : req'[v].pc = "insert" => req'[v] = req[v]
        BY <1>5, <1>6
    <2> QED BY <1>3, <1>7, <2>1, ClearedAll
<1> QED BY <1>7, <1>9, <1>10, <1>11, <1>12 DEF Inv

LEMMA GetEmptyStoreKeeps == ASSUME Inv, NEW w \in Worker, GetEmptyStore(w) PROVE Inv'
<1>1. PICK d \in DictId : GetStore(d) /\ req' = [req EXCEPT ![w].pc = "insert", ![w].dict = d]
    BY DEF GetEmptyStore
<1>p. PICK p : p = req[w].post
    OBVIOUS
<1> DEFINE r == Given(req[w], d)
<1>2. /\ req[w].pc = "cleared" /\ threaded' = threaded /\ posts' = posts /\ inserted' = inserted
      /\ acked' = acked /\ cleared' = cleared /\ stale' = stale
    BY DEF GetEmptyStore
<1>3. req[w] \in Request
    BY DEF Inv, Types
<1>4. r \in Request /\ r.pc = "insert" /\ r.dict = d /\ r.post = p /\ r.left = req[w].left
    BY <1>3, <1>p, GivenType
<1>5. req' = [req EXCEPT ![w] = r]
    BY <1>1 DEF Inv, Types, Given
<1> HIDE DEF r
<1>6. /\ req' \in [Worker -> Request] /\ req'[w] = r
      /\ \A v \in Worker : v # w => req'[v] = req[v]
    BY <1>4, <1>5, Replaced DEF Inv
<1>7. /\ store' = d
      /\ dicts' \in [DictId -> SUBSET Meter] /\ \A e \in DictId : IsFiniteSet(dicts'[e])
      /\ store # NoDict => store = d /\ dicts' = dicts
      /\ store = NoDict => dicts'[d] = {}
    BY <1>1, Got DEF Inv
<1>8. Types'
    BY <1>2, <1>6, <1>7 DEF Inv, Types, NoDict
<1>9. \A v \in Worker : InPost(v)' => InPost(v) /\ req'[v].post = req[v].post /\ req'[v].left = req[v].left
    BY <1>p, <1>2, <1>4, <1>6 DEF InPost
<1>10. Finite'
    BY <1>2, <1>7, <1>9 DEF Inv, Finite
<1>11. OneRequest'
    <2>1. \A v \in Worker : req'[v].pc = "cleared" => req'[v] = req[v]
        BY <1>4, <1>6
    <2> QED BY <1>2, <1>9, <2>1 DEF Inv, OneRequest
<1>12. HasDict'
    BY <1>4, <1>6 DEF Inv, HasDict
<1>13. inserted[p] = 0
    BY <1>p, <1>2 DEF Inv, OneRequest
<1>14. InStore'
    <2> SUFFICES ASSUME NEW v \in Worker, req'[v].pc = "insert", req'[v].post \notin cleared
                 PROVE  req'[v].dict = store' /\ Holds(req[v].post)'
        BY <1>2 DEF InStore
    <2>1. CASE v = w
        <3>1. Posted(req[v].post)' = {}
            BY <1>2, <1>4, <1>6, <1>13, <2>1 DEF Posted
        <3>2. req'[v].dict = store' /\ store' # NoDict
            BY <1>4, <1>6, <1>7, <2>1, Bounds
        <3> QED BY <3>1, <3>2 DEF Holds, NoDict
    <2>2. CASE v # w
        <3>1. req[v].dict = store /\ store # NoDict /\ Posted(req[v].post) \subseteq dicts[store]
            BY <1>6, <2>2 DEF Inv, InStore, Holds
        <3>2. Posted(req[v].post)' = Posted(req[v].post)
            BY <1>2, <1>6, <2>2 DEF Posted
        <3> QED BY <1>6, <1>7, <2>2, <3>1, <3>2 DEF Holds, NoDict
    <2> QED BY <2>1, <2>2
<1>15. NoMeterLostUnlessCleared'
    BY <1>2, <1>7 DEF Inv, NoMeterLostUnlessCleared, Posted, NoDict
<1>16. NoStaleUsage'
    BY <1>2, <1>7 DEF Inv, NoStaleUsage, NoDict
<1> QED BY <1>8, <1>10, <1>11, <1>12, <1>14, <1>15, <1>16 DEF Inv

LEMMA InsertMeterKeeps == ASSUME Inv, NEW w \in Worker, InsertMeter(w) PROVE Inv'
<1>p. PICK p, d : p = req[w].post /\ d = req[w].dict
    OBVIOUS
<1> DEFINE r == Inserted(req[w])
<1>1. /\ req[w].pc = "insert" /\ req[w].left > 0
      /\ dicts' = [dicts EXCEPT ![d] = @ \cup {NewMeter(p)}]
      /\ inserted' = [inserted EXCEPT ![p] = @ + 1]
      /\ req' = [req EXCEPT ![w] = r]
      /\ threaded' = threaded /\ store' = store /\ posts' = posts
      /\ acked' = acked /\ cleared' = cleared /\ stale' = stale
    BY <1>p DEF InsertMeter, Inserted, Inv, Types
<1>2. /\ req[w] \in Request /\ posts \in 0 .. MaxPosts /\ MaxPosts \in Nat /\ MaxMeters \in Nat
      /\ inserted \in [Post -> Nat] /\ dicts \in [DictId -> SUBSET Meter]
    BY Bounds DEF Inv, Types
<1>3. /\ r \in Request /\ r.pc = "insert" /\ r.dict = d /\ r.post = p /\ r.left = req[w].left - 1
    BY <1>1, <1>2, <1>p, InsertedType
<1> HIDE DEF r
<1>4. /\ req' \in [Worker -> Request] /\ req'[w] = r
      /\ \A v \in Worker : v # w => req'[v] = req[v]
    BY <1>1, <1>3, Replaced DEF Inv
<1>5. /\ p \in 1 .. posts /\ p \in Post /\ p \notin acked /\ d \in DictId
      /\ inserted[p] + req[w].left <= MaxMeters /\ inserted[p] \in Nat /\ req[w].left \in Nat
    <2>1. p \in 1 .. posts /\ p \notin acked /\ d \in DictId /\ inserted[p] + req[w].left <= MaxMeters
        BY <1>1, <1>p DEF Inv, OneRequest, HasDict, Finite, InPost
    <2>2. p \in Post
        BY <1>2, <2>1 DEF Post
    <2>3. req[w].left \in Nat
        BY <1>2 DEF Request
    <2> QED BY <1>2, <2>1, <2>2, <2>3
<1>6. /\ inserted' \in [Post -> Nat] /\ inserted'[p] = inserted[p] + 1
      /\ \A q \in Post : q # p => inserted'[q] = inserted[q]
    BY <1>1, <1>2, <1>5
<1>7. NewMeter(p) \in Meter /\ NewMeter(p).post = p
    <2>1. inserted[p] + 1 \in 1 .. MaxMeters
        BY <1>1, <1>2, <1>5
    <2> QED BY <1>5, <2>1 DEF NewMeter, Meter
<1>8. /\ dicts' \in [DictId -> SUBSET Meter] /\ dicts'[d] = dicts[d] \cup {NewMeter(p)}
      /\ \A e \in DictId : e # d => dicts'[e] = dicts[e]
    BY <1>1, <1>2, <1>5, <1>7
<1>9. \A v \in Worker : /\ InPost(v)' <=> InPost(v)
                        /\ req'[v].pc = req[v].pc /\ req'[v].post = req[v].post /\ req'[v].dict = req[v].dict
    BY <1>1, <1>3, <1>4, <1>p DEF InPost
<1>10. \A v \in Worker : v # w /\ InPost(v) => req[v].post # p /\ req[v].post \in Post
    BY <1>1, <1>2, <1>p DEF Inv, OneRequest, InPost, Post
<1>11. Types'
    BY <1>1, <1>4, <1>6, <1>8 DEF Inv, Types, NoDict
<1>12. Finite'
    <2>1. \A e \in DictId : IsFiniteSet(dicts'[e])
        <3>1. \A e \in DictId : IsFiniteSet(dicts[e])
            BY DEF Inv, Finite
        <3>2. IsFiniteSet(dicts[d] \cup {NewMeter(p)})
            BY <1>5, <3>1, FS_AddElement
        <3> QED BY <1>8, <3>1, <3>2
    <2>2. ASSUME NEW v \in Worker, InPost(v)'
          PROVE  inserted'[req'[v].post] + req'[v].left <= MaxMeters
        <3>1. CASE v = w
            BY <1>1, <1>3, <1>4, <1>5, <1>6, <3>1
        <3>2. CASE v # w
            BY <1>4, <1>6, <1>9, <1>10, <2>2, <3>2 DEF Inv, Finite
        <3> QED BY <3>1, <3>2
    <2> QED BY <2>1, <2>2 DEF Finite
<1>13. OneRequest'
    <2>1. \A v \in Worker : InPost(v)' => req'[v].post \in 1 .. posts' /\ req'[v].post \notin acked'
        BY <1>1, <1>9 DEF Inv, OneRequest
    <2>2. \A v, u \in Worker : InPost(v)' /\ InPost(u)' /\ req'[v].post = req'[u].post => v = u
        BY <1>9 DEF Inv, OneRequest
    <2>3. \A v \in Worker : req'[v].pc = "cleared" => inserted'[req'[v].post] = 0
        <3> SUFFICES ASSUME NEW v \in Worker, req[v].pc = "cleared"
                     PROVE  inserted'[req[v].post] = 0
            BY <1>9
        <3>1. v # w /\ InPost(v) /\ inserted[req[v].post] = 0
            BY <1>1 DEF Inv, OneRequest, InPost
        <3> QED BY <1>6, <1>10, <3>1
    <2>4. \A q \in Post : q > posts' => inserted'[q] = 0
        <3>1. \A q \in Post : q > posts => q # p
            BY <1>2, <1>5 DEF Post
        <3> QED BY <1>1, <1>6, <3>1 DEF Inv, OneRequest
    <2> QED BY <2>1, <2>2, <2>3, <2>4 DEF OneRequest
<1>14. HasDict'
    BY <1>9 DEF Inv, HasDict
<1>15. Posted(p)' = Posted(p) \cup {NewMeter(p)}
    BY <1>5, <1>6, PostedGrows
<1>16. \A q \in Post : q # p => Posted(q)' = Posted(q)
    BY <1>6 DEF Posted
<1>17. \A e \in DictId : dicts[e] \subseteq dicts'[e]
    BY <1>8
<1>18. InStore'
    <2> SUFFICES ASSUME NEW v \in Worker, req[v].pc = "insert", req[v].post \notin cleared
                 PROVE  req[v].dict = store /\ store # NoDict /\ Posted(req[v].post)' \subseteq dicts'[store]
        <3>1. \A v \in Worker : Posted(req'[v].post) = Posted(req[v].post)
            BY <1>9
        <3> QED BY <1>1, <1>9 DEF InStore, Holds, NoDict, Posted
    <2>1. req[v].dict = store /\ store # NoDict /\ Posted(req[v].post) \subseteq dicts[store] /\ store \in DictId
        BY DEF Inv, InStore, Holds, Types
    <2>2. CASE v = w
        <3>1. Posted(req[v].post)' = Posted(p) \cup {NewMeter(p)}
            BY <1>9, <1>15, <1>p, <2>2 DEF Posted
        <3>2. store = d /\ req[v].post = p
            BY <1>p, <2>1, <2>2
        <3> QED BY <1>8, <2>1, <3>1, <3>2
    <2>3. CASE v # w
        <3>1. req[v].post # p /\ req[v].post \in Post
            BY <1>10, <2>3 DEF InPost
        <3>2. Posted(req[v].post)' = Posted(req[v].post)
            BY <1>6, <1>9, <3>1 DEF Posted
        <3> QED BY <1>17, <2>1, <3>2
    <2> QED BY <2>2, <2>3
<1>19. NoMeterLostUnlessCleared'
    <2> SUFFICES ASSUME NEW q \in acked, q \notin cleared
                 PROVE  store # NoDict /\ Posted(q)' \subseteq dicts'[store]
        BY <1>1 DEF NoMeterLostUnlessCleared, NoDict, Posted
    <2>1. q # p /\ q \in Post
        <3>1. q \in 1 .. posts
            BY DEF Inv, Types
        <3> QED BY <1>2, <1>5, <3>1 DEF Post
    <2>2. store # NoDict /\ Posted(q) \subseteq dicts[store] /\ store \in DictId
        BY DEF Inv, NoMeterLostUnlessCleared, Types
    <2> QED BY <1>16, <1>17, <2>1, <2>2
<1>20. NoStaleUsage'
    <2>1. stale \subseteq acked
        BY DEF Inv, Types
    <2>2. store # NoDict => store \in DictId /\ \A m \in dicts[store] : m.post \notin stale
        BY DEF Inv, Types, NoStaleUsage
    <2>3. store # NoDict => \A m \in dicts'[store] : m \in dicts[store] \/ m = NewMeter(p)
        BY <1>8, <2>2
    <2> QED BY <1>1, <1>5, <1>7, <2>1, <2>2, <2>3 DEF NoStaleUsage, NoDict
<1> QED BY <1>11, <1>12, <1>13, <1>14, <1>18, <1>19, <1>20 DEF Inv

LEMMA EndPostKeeps == ASSUME Inv, NEW w \in Worker, EndPost(w) PROVE Inv'
<1>p. PICK p : p = req[w].post
    OBVIOUS
<1>1. /\ req[w].pc = "insert" /\ acked' = acked \cup {p} /\ req' = [req EXCEPT ![w] = Idle]
      /\ threaded' = threaded /\ dicts' = dicts /\ store' = store /\ posts' = posts
      /\ inserted' = inserted /\ cleared' = cleared /\ stale' = stale
    BY <1>p DEF EndPost, Finish
<1>2. /\ req' \in [Worker -> Request] /\ req'[w] = Idle
      /\ \A v \in Worker : v # w => req'[v] = req[v]
    BY <1>1, IdleType, Replaced DEF Inv
<1>3. p \in 1 .. posts
    BY <1>1, <1>p DEF Inv, OneRequest, InPost
<1>4. \A v \in Worker : InPost(v)' => v # w /\ InPost(v) /\ req'[v] = req[v] /\ req[v].post # p
    BY <1>1, <1>2, <1>p, IdleType DEF Inv, OneRequest, InPost
<1>5. Types'
    BY <1>1, <1>2, <1>3 DEF Inv, Types, NoDict
<1>6. Finite'
    BY <1>1, <1>4 DEF Inv, Finite
<1>7. OneRequest'
    <2>1. \A v \in Worker : req'[v].pc = "cleared" => InPost(v)'
        BY DEF InPost
    <2> QED BY <1>1, <1>4, <2>1 DEF Inv, OneRequest
<1>8. HasDict'
    BY <1>2, IdleType DEF Inv, HasDict
<1>9. InStore'
    <2> SUFFICES ASSUME NEW v \in Worker, req'[v].pc = "insert", req'[v].post \notin cleared
                 PROVE  req'[v].dict = store /\ store # NoDict /\ Posted(req[v].post)' \subseteq dicts[store]
        BY <1>1 DEF InStore, Holds, NoDict
    <2>1. req'[v] = req[v]
        BY <1>4 DEF InPost
    <2>2. Posted(req[v].post)' = Posted(req[v].post)
        BY <1>1, <2>1 DEF Posted
    <2> QED BY <2>1, <2>2 DEF Inv, InStore, Holds
<1>10. NoMeterLostUnlessCleared'
    <2> SUFFICES ASSUME NEW q \in acked \cup {p}, q \notin cleared
                 PROVE  store # NoDict /\ Posted(q) \subseteq dicts[store]
        BY <1>1 DEF NoMeterLostUnlessCleared, NoDict, Posted
    <2>1. CASE q = p
        BY <1>1, <1>p, <2>1 DEF Inv, InStore, Holds
    <2>2. CASE q \in acked
        BY <2>2 DEF Inv, NoMeterLostUnlessCleared
    <2> QED BY <2>1, <2>2
<1>11. NoStaleUsage'
    BY <1>1 DEF Inv, NoStaleUsage, NoDict
<1> QED BY <1>5, <1>6, <1>7, <1>8, <1>9, <1>10, <1>11 DEF Inv

LEMMA BeginStatementKeeps == ASSUME Inv, NEW w \in Worker, BeginStatement(w) PROVE Inv'
<1>1. PICK d \in DictId : GetStore(d) /\ req' = [req EXCEPT ![w] = Stating(d)]
    BY DEF BeginStatement, Stating
<1>2. /\ threaded' = threaded /\ posts' = posts /\ inserted' = inserted
      /\ acked' = acked /\ cleared' = cleared /\ stale' = stale
    BY DEF BeginStatement
<1>3. /\ store' = d
      /\ dicts' \in [DictId -> SUBSET Meter] /\ \A e \in DictId : IsFiniteSet(dicts'[e])
      /\ store # NoDict => store = d /\ dicts' = dicts
      /\ store = NoDict => dicts'[d] = {}
    BY <1>1, Got DEF Inv
<1>4. /\ req' \in [Worker -> Request] /\ req'[w] = Stating(d)
      /\ Stating(d).pc = "given" /\ Stating(d).dict = d
      /\ \A v \in Worker : v # w => req'[v] = req[v]
    BY <1>1, StatingType, Replaced DEF Inv
<1>5. \A v \in Worker : InPost(v)' => v # w /\ InPost(v) /\ req'[v] = req[v]
    BY <1>4 DEF InPost
<1>6. Types' /\ Finite'
    BY <1>2, <1>3, <1>4, <1>5 DEF Inv, Types, Finite, NoDict
<1>7. OneRequest'
    <2>1. \A v \in Worker : req'[v].pc = "cleared" => InPost(v)'
        BY DEF InPost
    <2> QED BY <1>2, <1>5, <2>1 DEF Inv, OneRequest
<1>8. HasDict'
    BY <1>4 DEF Inv, HasDict
<1>9. InStore'
    <2> SUFFICES ASSUME NEW v \in Worker, req'[v].pc = "insert", req'[v].post \notin cleared
                 PROVE  req'[v].dict = store' /\ store' # NoDict /\ Posted(req[v].post)' \subseteq dicts'[store']
        BY <1>2 DEF InStore, Holds, NoDict
    <2>1. req'[v] = req[v]
        BY <1>5 DEF InPost
    <2>2. Posted(req[v].post)' = Posted(req[v].post)
        BY <1>2, <2>1 DEF Posted
    <2>3. req[v].dict = store /\ store # NoDict /\ Posted(req[v].post) \subseteq dicts[store]
        BY <2>1 DEF Inv, InStore, Holds
    <2> QED BY <1>3, <2>1, <2>2, <2>3
<1>10. NoMeterLostUnlessCleared' /\ NoStaleUsage'
    BY <1>2, <1>3 DEF Inv, NoMeterLostUnlessCleared, NoStaleUsage, Posted, NoDict
<1> QED BY <1>6, <1>7, <1>8, <1>9, <1>10 DEF Inv

\* The steps of a statement's loop, and what ends a request without an answer.
LEMMA OtherStepsKeep ==
    ASSUME Inv, NEW w \in Worker,
           FailPost(w) \/ BeginLoop(w) \/ LoopMeter(w) \/ LoopFails(w) \/ AnswerStatement(w)
    PROVE  Inv'
<1>1. /\ threaded' = threaded /\ dicts' = dicts /\ store' = store /\ posts' = posts
      /\ inserted' = inserted /\ acked' = acked /\ cleared' = cleared /\ stale' = stale
    BY DEF FailPost, BeginLoop, LoopMeter, LoopFails, AnswerStatement
<1>2. CASE FailPost(w) \/ LoopFails(w) \/ AnswerStatement(w)
    <2>1. req' = [req EXCEPT ![w] = Idle]
        BY <1>2 DEF FailPost, LoopFails, AnswerStatement, Finish
    <2> QED BY <1>1, <2>1, IdleType, Elsewhere
<1>3. CASE BeginLoop(w)
    <2>1. /\ req[w] \in Request /\ req[w].pc = "given" /\ req[w].dict \in DictId
          /\ req' = [req EXCEPT ![w] = Looping(req[w], Cardinality(Contents(w)))]
        BY <1>3 DEF BeginLoop, Looping, Inv, Types, HasDict
    <2>2. Cardinality(Contents(w)) \in Nat
        BY <2>1, FS_CardinalityType DEF Inv, Finite, Contents
    <2>3. PICK n \in Nat : n = Cardinality(Contents(w))
        BY <2>2
    <2>4. Looping(req[w], n) \in Request /\ Looping(req[w], n).pc = "loop" /\ Looping(req[w], n).dict \in DictId
        BY <2>1, LoopingType
    <2> QED BY <1>1, <2>1, <2>3, <2>4, Elsewhere
<1>4. CASE LoopMeter(w)
    <2>1. /\ req[w] \in Request /\ req[w].pc = "loop" /\ req[w].dict \in DictId
          /\ dicts \in [DictId -> SUBSET Meter]
        BY <1>4 DEF LoopMeter, Inv, Types, HasDict
    <2>2. PICK m \in Contents(w) : req' = [req EXCEPT ![w] = Seeing(req[w], m)]
        BY <1>4 DEF LoopMeter, Seeing, Inv, Types
    <2>3. m \in Meter
        BY <2>1, <2>2 DEF Contents
    <2>4. Seeing(req[w], m) \in Request /\ Seeing(req[w], m).pc = "loop" /\ Seeing(req[w], m).dict \in DictId
        BY <2>1, <2>3, SeeingType
    <2> QED BY <1>1, <2>2, <2>4, Elsewhere
<1> QED BY <1>2, <1>3, <1>4

LEMMA ResetKeeps == ASSUME Inv, ResetByDelete PROVE Inv'
<1>1. /\ store' = NoDict /\ cleared' = cleared \cup 1 .. posts /\ stale' = stale \cup acked
      /\ threaded' = threaded /\ dicts' = dicts /\ req' = req /\ posts' = posts
      /\ inserted' = inserted /\ acked' = acked
    BY DEF ResetByDelete, ClearUuidData
<1>2. Types'
    BY <1>1 DEF Inv, Types, NoDict
<1>3. Finite' /\ OneRequest' /\ HasDict'
    BY <1>1 DEF Inv, Finite, OneRequest, HasDict, InPost
<1>4. InStore' /\ NoMeterLostUnlessCleared' /\ NoStaleUsage'
    BY <1>1, <1>2, ClearedAll
<1> QED BY <1>2, <1>3, <1>4 DEF Inv

LEMMA InitInv == Init => Inv
<1> SUFFICES ASSUME Init PROVE Inv
    OBVIOUS
<1>1. \A w \in Worker : req[w] = Idle /\ ~InPost(w) /\ req[w].pc = "idle"
    BY IdleType DEF Init, InPost
<1>2. /\ dicts = [d \in DictId |-> {}] /\ store = NoDict /\ posts = 0
      /\ inserted = [p \in Post |-> 0] /\ acked = {} /\ cleared = {} /\ stale = {}
    BY DEF Init
<1>3. Types
    <2>1. threaded \in BOOLEAN
        BY ThreadedAssumption DEF Init
    <2>2. req \in [Worker -> Request]
        BY IdleType DEF Init
    <2> QED BY <1>2, <2>1, <2>2, Bounds DEF Types
<1>4. Finite
    BY <1>1, <1>2, FS_EmptySet DEF Finite
<1>5. OneRequest /\ HasDict /\ InStore
    BY <1>1, <1>2 DEF OneRequest, HasDict, InStore
<1>6. NoMeterLostUnlessCleared /\ NoStaleUsage
    BY <1>2 DEF NoMeterLostUnlessCleared, NoStaleUsage
<1> QED BY <1>3, <1>4, <1>5, <1>6 DEF Inv

LEMMA StepInv == ASSUME Inv, [Next]_vars PROVE Inv'
<1>1. ASSUME NEW w \in Worker, Serve(w) PROVE Inv'
    BY <1>1, BeginPostKeeps, GetEmptyStoreKeeps, InsertMeterKeeps, EndPostKeeps,
       BeginStatementKeeps, OtherStepsKeep DEF Serve
<1>2. CASE ResetByDelete
    BY <1>2, ResetKeeps
<1>3. CASE UNCHANGED vars
    <2>1. /\ threaded' = threaded /\ dicts' = dicts /\ store' = store /\ req' = req /\ posts' = posts
          /\ inserted' = inserted /\ acked' = acked /\ cleared' = cleared /\ stale' = stale
        BY <1>3 DEF vars
    <2> QED BY <2>1 DEF Inv, Types, Finite, OneRequest, HasDict, InStore, Holds, InPost,
                        NoMeterLostUnlessCleared, NoStaleUsage, Posted, NoDict
<1> QED BY <1>1, <1>2, <1>3 DEF Next

LEMMA Invariant == Spec => []Inv
    BY InitInv, StepInv, PTL DEF Spec

------------------------------------------------------------------------------
(* The theorems. *)

\* However requests overlap, a meter whose POST was answered is in the dict the next
\* statement is computed from, until the account is cleared (create_metering clears,
\* looks the store up and fills it in separate steps).
THEOREM AnsweredMetersStay == Spec => []NoMeterLostUnlessCleared
<1>1. Inv => NoMeterLostUnlessCleared
    BY DEF Inv
<1> QED BY <1>1, Invariant, PTL

\* Nor is one found again after a clearing, although requests go on with dicts
\* that were deleted from the manager.
THEOREM ClearedMetersAreGone == Spec => []NoStaleUsage
<1>1. Inv => NoStaleUsage
    BY DEF Inv
<1> QED BY <1>1, Invariant, PTL

------------------------------------------------------------------------------
(* A server that takes one request at a time.                                *)

\* What the account's dict then holds.
Current == IF posts \in {0} \cup cleared THEN {} ELSE Posted(posts)

OneAtATime == \A w, v \in Worker : req[w].pc # "idle" /\ req[v].pc # "idle" => w = v

LastPost ==
    /\ OneAtATime
    /\ \A w \in Worker : InPost(w) => req[w].post = posts /\ posts \notin cleared
    /\ \A w \in Worker : req[w].pc = "cleared" => store = NoDict
    /\ \A w \in Worker : req[w].pc \in {"given", "loop"} => req[w].dict = store
    /\ Current = IF store = NoDict THEN {} ELSE dicts[store]

SerialInv == ~threaded => LastPost

\* A request that is on its own, or ends.
LEMMA AloneStill ==
    ASSUME Types, OneAtATime, NEW w \in Worker, CanStart(w) \/ req[w].pc # "idle", ~threaded,
           NEW r \in Request, req' = [req EXCEPT ![w] = r]
    PROVE  /\ OneAtATime'
           /\ req'[w] = r /\ \A v \in Worker : v # w => req'[v] = req[v] /\ req'[v].pc = "idle"
<1>1. req' \in [Worker -> Request] /\ req'[w] = r /\ \A v \in Worker : v # w => req'[v] = req[v]
    BY Replaced
<1>2. \A v \in Worker : v # w => req[v].pc = "idle"
    BY DEF CanStart, AllIdle, OneAtATime
<1> QED BY <1>1, <1>2 DEF OneAtATime

\* Steps that leave the account alone.
LEMMA AloneElsewhere ==
    ASSUME Types, LastPost, ~threaded, NEW w \in Worker, req[w].pc # "idle",
           NEW r \in Request, req' = [req EXCEPT ![w] = r],
           r.pc = "idle" \/ (r.pc = "loop" /\ req[w].pc \in {"given", "loop"} /\ r.dict = req[w].dict),
           dicts' = dicts, store' = store, posts' = posts, inserted' = inserted, cleared' = cleared
    PROVE  LastPost'
<1>1. OneAtATime' /\ req'[w] = r /\ \A v \in Worker : v # w => req'[v] = req[v] /\ req'[v].pc = "idle"
    BY AloneStill DEF LastPost
<1>2. Current' = Current
    BY DEF Current, Posted
<1>3. \A v \in Worker : ~InPost(v)' /\ req'[v].pc # "cleared"
    BY <1>1 DEF InPost
<1>4. \A v \in Worker : req'[v].pc \in {"given", "loop"} => req'[v].dict = store'
    BY <1>1 DEF LastPost
<1> QED BY <1>1, <1>2, <1>3, <1>4 DEF LastPost, NoDict

LEMMA SerialBeginPost ==
    ASSUME Inv, LastPost, ~threaded, NEW w \in Worker, BeginPost(w) PROVE LastPost'
<1>1. PICK n \in 0 .. MaxMeters : req' = [req EXCEPT ![w] = Posting(posts + 1, n)]
    BY DEF BeginPost, Posting
<1>2. /\ posts \in Nat /\ posts + 1 \in Post /\ posts + 1 > posts /\ posts + 1 # 0
      /\ cleared \subseteq 1 .. posts
    BY Bounds DEF BeginPost, Inv, Types, Post
<1>3. /\ store' = NoDict /\ posts' = posts + 1 /\ cleared' = cleared \cup 1 .. posts
      /\ inserted' = inserted /\ CanStart(w)
    BY DEF BeginPost, ClearUuidData
<1>4. /\ OneAtATime' /\ req'[w].pc = "cleared" /\ req'[w].post = posts'
      /\ \A v \in Worker : v # w => req'[v].pc = "idle"
    <2>1. Types /\ OneAtATime
        BY DEF Inv, LastPost
    <2>2. Posting(posts + 1, n) \in Request /\ Posting(posts + 1, n).pc = "cleared" /\ Posting(posts + 1, n).post = posts + 1
        BY <1>2, PostingType
    <2> QED BY <1>1, <1>3, <2>1, <2>2, AloneStill
<1>5. posts' \notin cleared' /\ posts' # 0
    BY <1>2, <1>3
<1>6. Current' = {}
    <2>1. inserted[posts + 1] = 0
        BY <1>2 DEF Inv, OneRequest
    <2>2. inserted'[posts'] = 0
        BY <1>3, <2>1
    <2>3. Posted(posts)' = {}
        BY <2>2 DEF Posted
    <2> QED BY <1>5, <2>3 DEF Current
<1> QED BY <1>3, <1>4, <1>5, <1>6 DEF LastPost, InPost, NoDict

LEMMA SerialGetEmptyStore ==
    ASSUME Inv, LastPost, ~threaded, NEW w \in Worker, GetEmptyStore(w) PROVE LastPost'
<1>1. PICK d \in DictId : GetStore(d) /\ req' = [req EXCEPT ![w] = Given(req[w], d)]
    BY DEF GetEmptyStore, Given, Inv, Types
<1>2. /\ req[w].pc = "cleared" /\ req[w] \in Request /\ store = NoDict /\ posts' = posts
      /\ inserted' = inserted /\ cleared' = cleared
    BY DEF GetEmptyStore, LastPost, Inv, Types
<1>3. store' = d /\ dicts'[d] = {} /\ d # NoDict
    BY <1>1, <1>2, Got, Bounds DEF Inv
<1>4. Given(req[w], d) \in Request /\ Given(req[w], d).pc = "insert" /\ Given(req[w], d).post = req[w].post
    BY <1>2, GivenType
<1>5. /\ OneAtATime' /\ req'[w].pc = "insert" /\ req'[w].post = req[w].post
      /\ \A v \in Worker : v # w => req'[v].pc = "idle"
    BY <1>1, <1>2, <1>4, AloneStill DEF Inv, LastPost
<1>6. Current' = {}
    BY <1>2 DEF Current, Posted, LastPost
<1>7. req[w].post = posts /\ posts \notin cleared
    BY <1>2 DEF LastPost, InPost
<1> QED BY <1>2, <1>3, <1>5, <1>6, <1>7 DEF LastPost, InPost, NoDict

LEMMA SerialInsertMeter ==
    ASSUME Inv, LastPost, ~threaded, NEW w \in Worker, InsertMeter(w) PROVE LastPost'
<1>1. /\ req[w].pc = "insert" /\ req[w].left > 0 /\ req[w] \in Request
      /\ req' = [req EXCEPT ![w] = Inserted(req[w])]
      /\ store' = store /\ posts' = posts /\ cleared' = cleared
    BY DEF InsertMeter, Inserted, Inv, Types
<1>2. /\ req[w].post = posts /\ posts \notin cleared /\ posts \in 1 .. posts /\ posts \in Post
      /\ req[w].dict = store /\ store # NoDict /\ store \in DictId
    <2>1. req[w].post = posts /\ posts \notin cleared
        BY <1>1 DEF LastPost, InPost
    <2>2. posts \in 1 .. posts /\ posts \in 0 .. MaxPosts /\ MaxPosts \in Nat
        BY <1>1, <2>1, Bounds DEF Inv, OneRequest, Types, InPost
    <2>3. posts \in Post
        BY <2>2 DEF Post
    <2> QED BY <1>1, <2>1, <2>2, <2>3 DEF Inv, InStore, Holds, Types
<1>3. /\ dicts' = [dicts EXCEPT ![store] = @ \cup {NewMeter(posts)}]
      /\ inserted' = [inserted EXCEPT ![posts] = @ + 1]
    BY <1>2 DEF InsertMeter
<1>4. dicts'[store] = dicts[store] \cup {NewMeter(posts)} /\ inserted'[posts] = inserted[posts] + 1
    BY <1>2, <1>3 DEF Inv, Types
<1>5. Posted(posts)' = Posted(posts) \cup {NewMeter(posts)}
    <2>1. PICK p : p = posts
        OBVIOUS
    <2>2. Posted(p)' = Posted(p) \cup {NewMeter(p)}
        BY <1>2, <1>4, <2>1, PostedGrows DEF Inv, Types
    <2> QED BY <1>1, <2>1, <2>2 DEF Posted
<1>6. Current = dicts[store] /\ Current = Posted(posts) /\ Current' = Posted(posts)'
    BY <1>1, <1>2 DEF LastPost, Current
<1>7. /\ OneAtATime' /\ req'[w].pc = "insert" /\ req'[w].post = req[w].post
      /\ \A v \in Worker : v # w => req'[v].pc = "idle"
    BY ZenonT(60), <1>1, InsertedType, AloneStill DEF Inv, LastPost
<1> QED BY <1>1, <1>2, <1>4, <1>5, <1>6, <1>7 DEF LastPost, InPost, NoDict

LEMMA SerialBeginStatement ==
    ASSUME Inv, LastPost, ~threaded, NEW w \in Worker, BeginStatement(w) PROVE LastPost'
<1>1. PICK d \in DictId : GetStore(d) /\ req' = [req EXCEPT ![w] = Stating(d)]
    BY DEF BeginStatement, Stating
<1>2. posts' = posts /\ inserted' = inserted /\ cleared' = cleared /\ CanStart(w)
    BY DEF BeginStatement
<1>3. /\ store' = d /\ d # NoDict /\ (store = NoDict => dicts'[d] = {})
      /\ store # NoDict => dicts'[d] = dicts[store]
    BY <1>1, Got, Bounds DEF Inv
<1>4. /\ OneAtATime' /\ req'[w].pc = "given" /\ req'[w].dict = d
      /\ \A v \in Worker : v # w => req'[v].pc = "idle"
    <2>1. Types /\ OneAtATime
        BY DEF Inv, LastPost
    <2>2. Stating(d) \in Request /\ Stating(d).pc = "given" /\ Stating(d).dict = d
        BY StatingType
    <2> QED BY <1>1, <1>2, <2>1, <2>2, AloneStill
<1>5. Current' = Current
    BY <1>2 DEF Current, Posted
<1> QED BY <1>3, <1>4, <1>5 DEF LastPost, InPost, NoDict

LEMMA SerialOthers ==
    ASSUME Inv, LastPost, ~threaded, NEW w \in Worker,
           FailPost(w) \/ EndPost(w) \/ BeginLoop(w) \/ LoopMeter(w) \/ LoopFails(w) \/ AnswerStatement(w)
    PROVE  LastPost'
<1>1. /\ dicts' = dicts /\ store' = store /\ posts' = posts /\ inserted' = inserted /\ cleared' = cleared
      /\ req[w].pc # "idle" /\ req[w] \in Request
    BY DEF FailPost, EndPost, BeginLoop, LoopMeter, LoopFails, AnswerStatement, Answering, Inv, Types
<1>2. CASE FailPost(w) \/ EndPost(w) \/ LoopFails(w) \/ AnswerStatement(w)
    <2>1. req' = [req EXCEPT ![w] = Idle]
        BY <1>2 DEF FailPost, EndPost, LoopFails, AnswerStatement, Finish
    <2> QED BY <1>1, <2>1, IdleType, AloneElsewhere DEF Inv
<1>3. CASE BeginLoop(w)
    <2>1. /\ req[w].pc = "given" /\ req[w].dict \in DictId
          /\ req' = [req EXCEPT ![w] = Looping(req[w], Cardinality(Contents(w)))]
        BY <1>3 DEF BeginLoop, Looping, Inv, Types, HasDict
    <2>2. Cardinality(Contents(w)) \in Nat
        BY <2>1, FS_CardinalityType DEF Inv, Finite, Contents
    <2>3. PICK n \in Nat : n = Cardinality(Contents(w))
        BY <2>2
    <2>4. /\ Looping(req[w], n) \in Request /\ Looping(req[w], n).pc = "loop"
          /\ Looping(req[w], n).dict = req[w].dict
        BY <1>1, LoopingType
    <2> QED BY <1>1, <2>1, <2>3, <2>4, AloneElsewhere DEF Inv
<1>4. CASE LoopMeter(w)
    <2>1. req[w].pc = "loop" /\ req[w].dict \in DictId /\ dicts \in [DictId -> SUBSET Meter]
        BY <1>4 DEF LoopMeter, Inv, Types, HasDict
    <2>2. PICK m \in Contents(w) : req' = [req EXCEPT ![w] = Seeing(req[w], m)]
        BY <1>4 DEF LoopMeter, Seeing, Inv, Types
    <2>3. m \in Meter
        BY <2>1, <2>2 DEF Contents
    <2>4. /\ Seeing(req[w], m) \in Request /\ Seeing(req[w], m).pc = "loop"
          /\ Seeing(req[w], m).dict = req[w].dict
        BY <1>1, <2>1, <2>3, SeeingType
    <2> QED BY <1>1, <2>1, <2>2, <2>4, AloneElsewhere DEF Inv
<1> QED BY <1>2, <1>3, <1>4

LEMMA SerialReset ==
    ASSUME Inv, LastPost, ~threaded, ResetByDelete PROVE LastPost'
<1>1. /\ store' = NoDict /\ cleared' = cleared \cup 1 .. posts /\ req' = req /\ posts' = posts
      /\ \A w \in Worker : req[w].pc = "idle"
    BY DEF ResetByDelete, ClearUuidData, AllIdle
<1>2. Current' = {}
    <2>1. posts \in Nat
        BY DEF Inv, Types
    <2>2. posts' \in {0} \cup cleared'
        BY <1>1, <2>1
    <2> QED BY <2>2 DEF Current
<1> QED BY <1>1, <1>2 DEF LastPost, OneAtATime, InPost, NoDict

LEMMA StepSerial == ASSUME Inv, SerialInv, [Next]_vars PROVE SerialInv'
<1>1. threaded' = threaded
    BY DEF Next, vars, Serve, BeginPost, GetEmptyStore, InsertMeter, FailPost, EndPost, BeginStatement,
           BeginLoop, LoopMeter, LoopFails, AnswerStatement, ResetByDelete
<1> SUFFICES ASSUME ~threaded, LastPost PROVE LastPost'
    BY <1>1 DEF SerialInv
<1>2. ASSUME NEW w \in Worker, Serve(w) PROVE LastPost'
    BY <1>2, SerialBeginPost, SerialGetEmptyStore, SerialInsertMeter, SerialBeginStatement,
       SerialOthers DEF Serve
<1>3. CASE ResetByDelete
    BY <1>3, SerialReset
<1>4. CASE UNCHANGED vars
    <2>1. /\ dicts' = dicts /\ store' = store /\ req' = req /\ posts' = posts
          /\ inserted' = inserted /\ cleared' = cleared
        BY <1>4 DEF vars
    <2>2. Current' = Current
        BY <2>1 DEF Current, Posted
    <2> QED BY <2>1, <2>2 DEF LastPost, OneAtATime, InPost, NoDict
<1> QED BY <1>2, <1>3, <1>4 DEF Next

LEMMA InitSerial == Init => SerialInv
<1> SUFFICES ASSUME Init PROVE LastPost
    BY DEF SerialInv
<1>1. \A w \in Worker : req[w].pc = "idle"
    BY IdleType DEF Init
<1>2. store = NoDict /\ posts = 0
    BY DEF Init
<1> QED BY <1>1, <1>2 DEF LastPost, OneAtATime, InPost, Current

\* A statement of such a server charges for all the last POST inserted, also when that
\* failed half-way, and for nothing else.
THEOREM StatementIsOfLastPost == Spec => []StatementOfLastPost
<1>1. Inv /\ SerialInv /\ [Next]_vars => SerialInv'
    BY StepSerial
<1>2. Inv /\ SerialInv => StatementOfLastPost
    <2> SUFFICES ASSUME Inv, LastPost, NEW w \in Worker, Answering(w)
                 PROVE  req[w].seen = Current
        BY DEF SerialInv, StatementOfLastPost, Current
    <2>1. req[w].dict = store /\ req[w].dict \in DictId /\ req[w].seen = dicts[req[w].dict]
        BY DEF Answering, Contents, LastPost, Inv, HasDict
    <2>2. store # NoDict
        BY <2>1, Bounds
    <2> QED BY <2>1, <2>2 DEF LastPost
<1> QED BY <1>1, <1>2, InitSerial, Invariant, PTL DEF Spec
==============================================================================
