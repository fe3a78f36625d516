---------------------------- MODULE CreditAccount ----------------------------
(***************************************************************************)
(* What a credit account promises, apart from how the mock server keeps    *)
(* it: buckets of credit that are loaded and spent, where a bucket is      *)
(* never spent beyond its limit, what is spent is exactly what statements  *)
(* were given, and a limit changes only where nothing is spent.  Credit    *)
(* that is spent comes back in two ways: a negative statement hands it     *)
(* back, to the buckets that take it, or the account is reopened (a grant  *)
(* that rewrites it, a cancellation, a calculation, a reset).              *)
(***************************************************************************)
EXTENDS Integers

CONSTANTS
    Bucket,
    Returning  \* the buckets that negative statements hand credit back to

VARIABLES
    limit,  \* limit[b]: credit granted in bucket b
    spent,  \* spent[b]: credit of bucket b applied to statements
    given   \* all the credit statements were given, less what they gave back

account == <<limit, spent, given>>

Nothing == [b \in Bucket |-> 0]

Init == limit = Nothing /\ spent = Nothing /\ given = 0

\* The account is reopened with a new limit and nothing spent.
Reopen ==
    /\ limit' \in [Bucket -> Int]
    /\ spent' = Nothing
    /\ UNCHANGED given

\* The limit of a bucket of which nothing is spent is changed.
Load(b) ==
    /\ spent[b] = 0
    /\ limit'[b] \in Int
    /\ limit' = [limit EXCEPT ![b] = limit'[b]]
    /\ UNCHANGED <<spent, given>>

\* A statement is given n of a bucket's credit (n below 0: it gives it back).
Give(b, n) ==
    /\ spent' = [spent EXCEPT ![b] = @ + n]
    /\ given' = given + n
    /\ UNCHANGED limit

\* A statement takes credit from a bucket, within its limit.
Spend(b) ==
    /\ given' > given /\ spent[b] + (given' - given) <= limit[b]
    /\ Give(b, given' - given)

\* A negative statement hands credit back to a bucket that is not used up.
HandBack(b) ==
    /\ b \in Returning /\ spent[b] < limit[b]
    /\ given' < given
    /\ Give(b, given' - given)

Next == Reopen \/ \E b \in Bucket : Load(b) \/ Spend(b) \/ HandBack(b)

Spec == Init /\ [][Next]_account
==============================================================================
