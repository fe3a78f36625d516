-------------------------- MODULE MockCredits_proofs --------------------------
(***************************************************************************)
(* Theorems about MockCredits, for any number of threads, any grants and   *)
(* charges.                                                                *)
(*                                                                         *)
(* However requests overlap: types, that every account of a byType dict    *)
(* balances (AllBalanced), how far it can be overdrawn (OverdraftInv), and *)
(* that what was taken off statements is what the dicts say was used.      *)
(*                                                                         *)
(* With one request at a time (SerialInv): the credit used stays within    *)
(* what was granted, is used up in the order of the types before a charge  *)
(* is left, and is that of a CreditAccount; a payment is for the total     *)
(* that was shown (BillsMatch).                                            *)
(***************************************************************************)
EXTENDS MockCredits, FiniteSetTheorems, TLAPS

\* Where the dict a request holds is one that exists, its place in the
\* priority list one that names a type, and what it is about to take of it
\* not negative.
InFlight ==
    \A w \in Worker :
        /\ req[w].pc \in {"scan", "debit"} => req[w].ledger \in 1 .. allocated
        /\ req[w].pc = "debit" => req[w].i \in 1 .. 3 /\ req[w].use \in Nat

\* What the request of a thread about to debit holds.
LEMMA DebitTypes ==
  ASSUME TypeOK, InFlight, NEW w \in Worker, req[w].pc = "debit"
  PROVE  /\ req[w] \in Request
         /\ req[w].ledger \in LedgerId /\ req[w].ledger <= allocated
         /\ req[w].i \in 1 .. 3 /\ req[w].use \in Nat /\ req[w].use \in Int
         /\ CreditPriority[req[w].i] \in CreditType /\ CreditPriority[req[w].i] \in Bucket
<1>1. /\ req[w].ledger \in 1 .. allocated /\ allocated \in 0 .. MaxLedgers
      /\ req[w].i \in 1 .. 3 /\ req[w].use \in Nat
  BY DEF TypeOK, InFlight
<1>2. req[w].ledger \in LedgerId /\ req[w].ledger <= allocated
  BY <1>1, MaxLedgersAssumption DEF LedgerId
<1>3. \A j \in 1 .. 3 : CreditPriority[j] \in CreditType /\ CreditPriority[j] \in Bucket
  BY DEF CreditPriority, CreditType, Bucket
<1>4. req[w] \in Request
  BY DEF TypeOK
<1>5. req[w].use \in Int
  BY <1>1
<1> QED BY <1>1, <1>2, <1>3, <1>4, <1>5

\* Types are preserved by every step.
LEMMA TypeInit == Init => TypeOK /\ InFlight
<1> SUFFICES ASSUME Init PROVE TypeOK /\ InFlight
  OBVIOUS
<1> USE DEF Init, LedgerId, NoLedger
<1>1. Idle \in Request
  BY DEF Idle, Request
<1>2. EmptyByType \in [Bucket -> Account]
  BY DEF EmptyByType, Granted, Account
<1>3. allocated \in 0 .. MaxLedgers /\ credit_data \in 0 .. allocated
  BY MaxLedgersAssumption
<1>4. NoBill \in [owner : Worker \cup {NoOne}, total : Int] /\ NoQuote \in [given : BOOLEAN, total : Int]
  BY DEF NoBill, NoQuote
<1>5. \A l \in LedgerId, b \in CreditType : ledgers[l][b].used \in Nat
  BY DEF EmptyByType, Granted, Bucket
<1>6. TypeOK
  BY <1>1, <1>2, <1>3, <1>4, <1>5 DEF TypeOK
<1>7. InFlight
  BY DEF InFlight, Idle
<1> QED BY <1>6, <1>7

LEMMA InstallType ==
  ASSUME TypeOK, NEW shape \in {"flat", "byType"}, NEW a \in [Bucket -> Account],
         \A b \in CreditType : a[b].used = 0, Install(shape, a)
  PROVE  /\ kind' \in [LedgerId -> {"flat", "byType"}]
         /\ ledgers' \in [LedgerId -> [Bucket -> Account]]
         /\ \A l \in LedgerId, b \in CreditType : ledgers'[l][b].used \in Nat
         /\ allocated' \in 0 .. MaxLedgers
         /\ credit_data' \in 0 .. allocated'
         /\ allocated < allocated'
BY MaxLedgersAssumption DEF TypeOK, Install, LedgerId

\* What the helpers on accounts return.
LEMMA AccountTypes ==
  /\ \A n \in Int : Granted(n) \in Account
  /\ \A a \in Account, n \in Int : Debited(a, n) \in Account /\ Debited(a, n).used = a.used + n
  /\ \A a \in Account, n \in Int : DebitedFlat(a, n) \in Account
  /\ \A a \in Account, n \in Int : Loaded(a, n) \in Account /\ Loaded(a, n).used = a.used
<1>1. \A n \in Int : Granted(n) \in Account
  BY DEF Granted, Account
<1>2. ASSUME NEW a \in Account, NEW n \in Int
      PROVE  Debited(a, n) \in Account /\ Debited(a, n).used = a.used + n
  <2>1. a.used + n \in Int /\ a.rest - n \in Int
    BY DEF Account
  <2> QED BY <2>1 DEF Debited, Account
<1>3. ASSUME NEW a \in Account, NEW n \in Int PROVE DebitedFlat(a, n) \in Account
  <2>1. a.used + n \in Int /\ a.total \in Int
    BY DEF Account
  <2>2. (IF a.total < a.used + n THEN 0 ELSE a.total - (a.used + n)) \in Int
    BY <2>1
  <2> QED BY <2>1, <2>2 DEF DebitedFlat, Account
<1>4. ASSUME NEW a \in Account, NEW n \in Int
      PROVE  Loaded(a, n) \in Account /\ Loaded(a, n).used = a.used
  <2>1. a.total + n \in Int /\ a.rest + n \in Int
    BY DEF Account
  <2> QED BY <2>1 DEF Loaded, Account
<1> QED BY <1>1, <1>2, <1>3, <1>4

LEMMA DictTypes ==
  /\ EmptyByType \in [Bucket -> Account]
  /\ \A n \in Int : generate_credit_data(n) \in [Bucket -> Account]
  /\ \A b \in Bucket : EmptyByType[b].used = 0
  /\ \A n : \A b \in Bucket : generate_credit_data(n)[b].used = 0
<1>1. EmptyByType \in [Bucket -> Account] /\ \A n \in Int : generate_credit_data(n) \in [Bucket -> Account]
  BY AccountTypes DEF EmptyByType, generate_credit_data
<1>2. /\ \A b \in Bucket : EmptyByType[b].used = 0
      /\ \A n : \A b \in Bucket : generate_credit_data(n)[b].used = 0
  BY DEF EmptyByType, generate_credit_data, Granted
<1> QED BY <1>1, <1>2

LEMMA TypesAreBuckets == CreditType \subseteq Bucket /\ "FLAT" \in Bucket \ CreditType
BY DEF Bucket, CreditType

LEMMA CreditToUseType ==
  ASSUME NEW r \in Int, NEW c \in Int
  PROVE  /\ CreditToUse(r, c) \in Int /\ CreditToUse(r, c) <= r
         /\ r > 0 /\ c > 0 => CreditToUse(r, c) \in Nat
BY DEF CreditToUse

\* The total a grant starts from is a number.
LEMMA GrantTypes ==
  ASSUME TypeOK, GrantCredit PROVE \E n \in Int : Install("flat", generate_credit_data(n))
<1> DEFINE total == IF credit_data = NoLedger THEN 0 ELSE ledgers[credit_data]["FLAT"].total
<1>1. total \in Int
  BY MaxLedgersAssumption DEF TypeOK, LedgerId, NoLedger, Bucket, Account
<1>2. PICK amount \in Int : Install("flat", generate_credit_data(total + amount))
  BY GrantAssumption DEF GrantCredit
<1> QED BY <1>1, <1>2

LEMMA IdleType == Idle \in Request
BY DEF Idle, Request

LEMMA EnterTypes ==
  ASSUME TypeOK, InFlight, NEW w \in Worker, NEW op \in StatementEndpoint,
         NEW charge \in Int, EnterApplyCredits(w, op, charge), UNCHANGED allocated
  PROVE  req' \in [Worker -> Request] /\ InFlight'
<1> DEFINE r == [Idle EXCEPT
               !.op = op, !.left = charge,
               !.pc = IF HasByType THEN "scan" ELSE "store",
               !.ledger = IF HasByType THEN credit_data ELSE NoLedger]
<1>1. /\ r.pc \in {"scan", "store"} /\ r.ledger \in LedgerId \cup {NoLedger}
      /\ r.pc = "scan" => r.ledger \in 1 .. allocated
  BY MaxLedgersAssumption DEF Idle, HasByType, NoLedger, LedgerId, TypeOK
<1>2. r \in Request
  <2>1. op \in StatementEndpoint \cup {"calculate", "none"}
    OBVIOUS
  <2>2. (IF HasByType THEN "scan" ELSE "store") \in {"idle", "scan", "debit", "store", "flatDebit", "load"}
    OBVIOUS
  <2>3. (IF HasByType THEN credit_data ELSE NoLedger) \in LedgerId \cup {NoLedger}
    BY MaxLedgersAssumption DEF HasByType, NoLedger, LedgerId, TypeOK
  <2> QED BY <2>1, <2>2, <2>3, IdleType DEF Request
<1>3. req' = [req EXCEPT ![w] = r]
  BY DEF EnterApplyCredits
<1> HIDE DEF r
<1>4. req' \in [Worker -> Request]
  BY <1>2, <1>3 DEF TypeOK
<1>5. InFlight'
  BY <1>1, <1>3 DEF InFlight, TypeOK
<1> QED BY <1>4, <1>5

LEMMA TypeNext == TypeOK /\ InFlight /\ [Next]_vars => TypeOK' /\ InFlight'
<1> SUFFICES ASSUME TypeOK, InFlight, [Next]_vars PROVE TypeOK' /\ InFlight'
  OBVIOUS
<1> USE DEF TypeOK, InFlight
<1>0. CASE UNCHANGED vars
  BY <1>0 DEF vars
<1>1. ASSUME NEW w \in Worker, BeginPaymentStatement(w) PROVE TypeOK' /\ InFlight'
  <2>1. PICK charge \in Int : EnterApplyCredits(w, "payments", charge)
    BY <1>1, ChargeAssumption DEF BeginPaymentStatement
  <2>2. req' \in [Worker -> Request] /\ InFlight'
    BY <1>1, <2>1, EnterTypes DEF BeginPaymentStatement, StatementEndpoint
  <2> QED BY <1>1, <2>2 DEF BeginPaymentStatement
<1>2. ASSUME NEW w \in Worker, BeginConsoleStatement(w) PROVE TypeOK' /\ InFlight'
  <2>1. PICK charge \in Int, adjusted \in Int :
             /\ billing_data' = [owner |-> w, total |-> charge]
             /\ EnterApplyCredits(w, "console", adjusted)
    BY <1>2, ChargeAssumption DEF BeginConsoleStatement
  <2>2. req' \in [Worker -> Request] /\ InFlight'
    BY <1>2, <2>1, EnterTypes DEF BeginConsoleStatement, StatementEndpoint
  <2> QED BY <1>2, <2>1, <2>2 DEF BeginConsoleStatement
<1>3. ASSUME NEW w \in Worker, BeginBillingDetail(w) PROVE TypeOK' /\ InFlight'
  <2> DEFINE rest == IF credit_data = NoLedger THEN 0 ELSE ledgers[credit_data]["FLAT"].rest
  <2>1. rest \in Int
    BY MaxLedgersAssumption DEF LedgerId, NoLedger, Bucket, Account
  <2> HIDE DEF rest
  <2>2. PICK charge \in Int :
          /\ billing_data' = [owner |-> w, total |-> charge]
          /\ \/ quoted' = Quote(charge) /\ UNCHANGED req
             \/ /\ rest > 0
                /\ req' = [req EXCEPT ![w] = [Idle EXCEPT
                             !.op = "detail", !.pc = "flatDebit", !.left = charge,
                             !.use = CreditToUse(rest, charge)]]
                /\ UNCHANGED quoted
    BY <1>3, ChargeAssumption DEF BeginBillingDetail, rest
  <2>3. UNCHANGED <<kind, ledgers, allocated, credit_data, discounted>>
    BY <1>3 DEF BeginBillingDetail
  <2>4. CASE quoted' = Quote(charge) /\ UNCHANGED req
    BY <2>2, <2>3, <2>4 DEF Quote
  <2>5. CASE rest > 0 /\ req' = [req EXCEPT ![w] = [Idle EXCEPT
                             !.op = "detail", !.pc = "flatDebit", !.left = charge,
                             !.use = CreditToUse(rest, charge)]] /\ UNCHANGED quoted
    <3>1. CreditToUse(rest, charge) \in Int
      BY <2>1, <2>5, CreditToUseType
    <3>2. /\ "detail" \in StatementEndpoint \cup {"calculate", "none"}
          /\ "flatDebit" \in {"idle", "scan", "debit", "store", "flatDebit", "load"}
          /\ charge \in Int
      BY DEF StatementEndpoint
    <3>3. [Idle EXCEPT !.op = "detail", !.pc = "flatDebit", !.left = charge,
                       !.use = CreditToUse(rest, charge)] \in Request
      BY <3>1, <3>2, IdleType DEF Request
    <3>4. req' \in [Worker -> Request]
      BY <2>5, <3>3
    <3>5. InFlight'
      BY <2>3, <2>5, <3>3 DEF Request, Idle
    <3> QED BY <2>2, <2>3, <2>5, <3>4, <3>5
  <2> QED BY <2>2, <2>4, <2>5
<1>4. ASSUME NEW w \in Worker, BeginCalculation(w) PROVE TypeOK' /\ InFlight'
  <2>1. Install("byType", EmptyByType)
    BY <1>4 DEF BeginCalculation
  <2>2. PICK credits \in CreditLists :
          req' = [req EXCEPT ![w] = [Idle EXCEPT
                     !.op = "calculate", !.pc = "load", !.credits = credits]]
    BY <1>4 DEF BeginCalculation
  <2>3. credits \in Seq(CreditItem)
    BY MaxItemsAssumption DEF CreditLists
  <2> DEFINE r == [Idle EXCEPT !.op = "calculate", !.pc = "load", !.credits = credits]
  <2>4. r \in Request /\ r.pc = "load"
    BY <2>3, IdleType DEF Request
  <2>5. req' = [req EXCEPT ![w] = r]
    BY <2>2
  <2> HIDE DEF r
  <2>6. req' \in [Worker -> Request]
    BY <2>4, <2>5
  <2>7. /\ kind' \in [LedgerId -> {"flat", "byType"}]
        /\ ledgers' \in [LedgerId -> [Bucket -> Account]]
        /\ \A l \in LedgerId, b \in CreditType : ledgers'[l][b].used \in Nat
        /\ allocated' \in 0 .. MaxLedgers
        /\ credit_data' \in 0 .. allocated'
        /\ allocated < allocated'
    BY <2>1, InstallType, DictTypes, TypesAreBuckets
  <2>8. InFlight'
    BY <2>4, <2>5, <2>7
  <2> QED BY <1>4, <2>6, <2>7, <2>8 DEF BeginCalculation
<1>5. ASSUME NEW w \in Worker, SkipCreditType(w) PROVE TypeOK' /\ InFlight'
  <2>1. req[w].i \in 1 .. 3
    BY <1>5 DEF SkipCreditType, Request, PastLastType, CreditPriority
  <2>2. req[w].i + 1 \in 1 .. 4
    BY <2>1
  <2>3. [req[w] EXCEPT !.i = @ + 1] \in Request
    BY <2>2 DEF Request
  <2> QED BY <1>5, <2>3 DEF SkipCreditType
<1>6. ASSUME NEW w \in Worker, ReadCreditType(w) PROVE TypeOK' /\ InFlight'
  <2>1. req[w].i \in 1 .. 3 /\ req[w].ledger \in 1 .. allocated
    BY <1>6 DEF ReadCreditType, Request, PastLastType, CreditPriority
  <2>2. Looking(w).rest \in Int
    <3>1. CreditPriority[req[w].i] \in Bucket
      BY <2>1 DEF CreditPriority, Bucket, CreditType
    <3>2. Looking(w) \in Account
      BY <2>1, <3>1, MaxLedgersAssumption DEF Looking, LedgerId
    <3> QED BY <3>2 DEF Account
  <2>3. CreditToUse(Looking(w).rest, req[w].left) \in Nat
    <3>1. req[w].left \in Int
      BY DEF Request
    <3>2. req[w].left > 0 /\ Looking(w).rest > 0
      BY <1>6, <3>1 DEF ReadCreditType, Covered
    <3> QED BY <2>2, <3>1, <3>2, CreditToUseType
  <2> DEFINE r == [req[w] EXCEPT !.pc = "debit", !.use = CreditToUse(Looking(w).rest, req[w].left)]
  <2>4. r \in Request /\ r.i = req[w].i /\ r.ledger = req[w].ledger /\ r.use \in Nat
    <3>1. PICK n \in Nat : n = CreditToUse(Looking(w).rest, req[w].left)
      BY <2>3
    <3>2. r = [req[w] EXCEPT !.pc = "debit", !.use = n]
      BY <3>1
    <3>3. req[w] \in Request /\ n \in Int
      OBVIOUS
    <3> HIDE DEF r, TypeOK, InFlight
    <3> QED BY <3>2, <3>3 DEF Request
  <2>5. req' = [req EXCEPT ![w] = r]
    BY <1>6 DEF ReadCreditType
  <2> HIDE DEF r
  <2>6. InFlight'
    BY <1>6, <2>1, <2>4, <2>5 DEF ReadCreditType
  <2>7. req' \in [Worker -> Request]
    BY <2>4, <2>5
  <2> QED BY <1>6, <2>6, <2>7 DEF ReadCreditType
<1>7. ASSUME NEW w \in Worker, DebitCreditType(w) PROVE TypeOK' /\ InFlight'
  <2> DEFINE l == req[w].ledger
             b == CreditPriority[req[w].i]
             n == req[w].use
  <2>1. l \in LedgerId /\ b \in Bucket /\ b \in CreditType /\ n \in Nat /\ req[w].i \in 1 .. 3
    BY <1>7, DebitTypes DEF DebitCreditType
  <2>2. /\ Debited(ledgers[l][b], n) \in Account
        /\ Debited(ledgers[l][b], n).used \in Nat
    <3>1. ledgers[l][b] \in Account /\ ledgers[l][b].used \in Nat /\ n \in Int
      BY <2>1
    <3> HIDE DEF l, b, n
    <3>2. Debited(ledgers[l][b], n).used = ledgers[l][b].used + n
      BY <3>1, AccountTypes
    <3>3. n \in Nat
      BY <2>1
    <3>4. Debited(ledgers[l][b], n) \in Account
      BY <3>1, AccountTypes
    <3>5. ledgers[l][b].used + n \in Nat
      BY <3>1, <3>3
    <3> QED BY <3>2, <3>4, <3>5
  <2>3. ledgers' = [ledgers EXCEPT ![l][b] = Debited(ledgers[l][b], n)]
    BY <1>7 DEF DebitCreditType
  <2>4. /\ ledgers' \in [LedgerId -> [Bucket -> Account]]
        /\ \A k \in LedgerId, c \in CreditType : ledgers'[k][c].used \in Nat
    <3> HIDE DEF l, b, n
    <3> QED BY <2>1, <2>2, <2>3
  <2> DEFINE r == [req[w] EXCEPT !.pc = "scan", !.i = @ + 1, !.left = @ - n]
  <2>5. req[w].i + 1 \in 1 .. 4 /\ req[w].left - n \in Int
    BY <2>1 DEF Request
  <2>6. r \in Request /\ r.ledger = l /\ r.pc = "scan"
    BY ZenonT(60), <2>5 DEF Request
  <2>7. req' = [req EXCEPT ![w] = r] /\ l \in 1 .. allocated
    BY <1>7 DEF DebitCreditType
  <2> HIDE DEF r
  <2>8. InFlight'
    BY <1>7, <2>6, <2>7 DEF DebitCreditType
  <2>9. discounted' \in Int
    BY <1>7, <2>1 DEF DebitCreditType
  <2>10. req' \in [Worker -> Request]
    BY <2>6, <2>7
  <2> QED BY <1>7, <2>4, <2>8, <2>9, <2>10 DEF DebitCreditType
<1>8. ASSUME NEW w \in Worker, EndApplyCredits(w) PROVE TypeOK' /\ InFlight'
  BY ZenonT(60), <1>8 DEF EndApplyCredits, Request
<1>9. ASSUME NEW w \in Worker, AnswerStatement(w) PROVE TypeOK' /\ InFlight'
  BY SMTT(30), <1>9 DEF AnswerStatement, Finish, Idle, Request, Quote, NoLedger
<1>10. ASSUME NEW w \in Worker, DebitFlat(w) PROVE TypeOK' /\ InFlight'
  <2>1. credit_data \in LedgerId /\ "FLAT" \in Bucket /\ req[w].use \in Int /\ req[w].left \in Int
    BY SMTT(30), <1>10, MaxLedgersAssumption DEF DebitFlat, Request, LedgerId, NoLedger, Bucket
  <2>2. DebitedFlat(ledgers[credit_data]["FLAT"], req[w].use) \in Account
    BY <2>1, AccountTypes
  <2>3. ledgers' = [ledgers EXCEPT ![credit_data]["FLAT"] =
                      DebitedFlat(ledgers[credit_data]["FLAT"], req[w].use)]
    BY <1>10 DEF DebitFlat
  <2>4. /\ ledgers' \in [LedgerId -> [Bucket -> Account]]
        /\ \A k \in LedgerId, c \in CreditType : ledgers'[k][c].used \in Nat
    <3>1. \A k \in LedgerId, c \in CreditType : ledgers'[k][c] = ledgers[k][c]
      BY <2>1, <2>3, TypesAreBuckets
    <3>2. ledgers' \in [LedgerId -> [Bucket -> Account]]
      BY <2>1, <2>2, <2>3
    <3> QED BY <3>1, <3>2
  <2>5. /\ billing_data' \in [owner : Worker \cup {NoOne}, total : Int]
        /\ quoted' \in [given : BOOLEAN, total : Int]
        /\ discounted' \in Int
    BY <1>10, <2>1 DEF DebitFlat, FinalBill, Quote
  <2>6. req' \in [Worker -> Request]
    BY <1>10, IdleType DEF DebitFlat, Finish
  <2>7. InFlight'
    BY <1>10 DEF DebitFlat, Finish, Idle
  <2> QED BY <1>10, <2>4, <2>5, <2>6, <2>7 DEF DebitFlat
<1>11. ASSUME NEW w \in Worker, DebitFlatFails(w) PROVE TypeOK' /\ InFlight'
  BY <1>11 DEF DebitFlatFails, Finish, Idle, Request, NoLedger
<1>12. ASSUME NEW w \in Worker, LoadCredit(w) PROVE TypeOK' /\ InFlight'
  <2> DEFINE c == Head(req[w].credits)
             a == ledgers[credit_data][c.type]
  <2>1. c \in CreditItem /\ Tail(req[w].credits) \in Seq(CreditItem) /\ credit_data \in LedgerId
    BY <1>12, MaxLedgersAssumption DEF LoadCredit, Request, LedgerId, NoLedger
  <2>2. c.amount \in Int /\ c.type \in Bucket /\ c.type \in CreditType
    BY <2>1, GrantAssumption DEF CreditItem, Bucket
  <2>3. Loaded(a, c.amount) \in Account /\ Loaded(a, c.amount).used \in Nat
    <3>1. a \in Account /\ c.amount \in Int /\ a.used \in Nat
      BY <2>1, <2>2
    <3> HIDE DEF a, c
    <3> QED BY <3>1, AccountTypes
  <2>4. ledgers' = IF kind[credit_data] = "byType"
                     THEN [ledgers EXCEPT ![credit_data][c.type] = Loaded(a, c.amount)]
                     ELSE ledgers
    BY <1>12 DEF LoadCredit
  <2> HIDE DEF a, c
  <2>7. /\ ledgers' \in [LedgerId -> [Bucket -> Account]]
        /\ \A k \in LedgerId, t \in CreditType : ledgers'[k][t].used \in Nat
    BY <2>1, <2>2, <2>3, <2>4
  <2> DEFINE r == [req[w] EXCEPT !.credits = Tail(@)]
  <2>8. r \in Request /\ r.pc = "load"
    BY <1>12, <2>1 DEF LoadCredit, Request
  <2>9. req' = [req EXCEPT ![w] = r]
    BY <1>12 DEF LoadCredit
  <2> HIDE DEF r
  <2>10. InFlight'
    BY <1>12, <2>8, <2>9 DEF LoadCredit
  <2> QED BY <1>12, <2>7, <2>8, <2>9, <2>10 DEF LoadCredit
<1>13. ASSUME NEW w \in Worker, EndCalculation(w) PROVE TypeOK' /\ InFlight'
  BY <1>13 DEF EndCalculation, Finish, Idle, Request, NoLedger
<1>14. ASSUME GrantCredit PROVE TypeOK' /\ InFlight'
  <2>1. PICK n \in Int : Install("flat", generate_credit_data(n))
    BY <1>14, GrantTypes
  <2>2. /\ kind' \in [LedgerId -> {"flat", "byType"}]
        /\ ledgers' \in [LedgerId -> [Bucket -> Account]]
        /\ \A l \in LedgerId, b \in CreditType : ledgers'[l][b].used \in Nat
        /\ allocated' \in 0 .. MaxLedgers
        /\ credit_data' \in 0 .. allocated'
        /\ allocated < allocated'
    <3>1. /\ generate_credit_data(n) \in [Bucket -> Account]
          /\ \A b \in CreditType : generate_credit_data(n)[b].used = 0
      BY DictTypes, TypesAreBuckets
    <3> QED BY <2>1, <3>1, InstallType
  <2> QED BY <1>14, <2>2 DEF GrantCredit
<1>15. ASSUME CancelCredit PROVE TypeOK' /\ InFlight'
  <2>1. /\ generate_credit_data(0) \in [Bucket -> Account]
        /\ \A b \in CreditType : generate_credit_data(0)[b].used = 0
    BY DictTypes, TypesAreBuckets
  <2> QED BY <1>15, <2>1, InstallType DEF CancelCredit
<1>16. ASSUME ResetTestData PROVE TypeOK' /\ InFlight'
  BY <1>16 DEF ResetTestData, NoLedger, NoBill, NoQuote
<1> QED
  BY <1>0, <1>1, <1>2, <1>3, <1>4, <1>5, <1>6, <1>7, <1>8, <1>9, <1>10, <1>11, <1>12,
     <1>13, <1>14, <1>15, <1>16 DEF Next, Start, Continue

\* Every reachable state is well typed, and a thread in the credit loop holds
\* a dict that exists and a place in the priority list that names a type.
THEOREM Typing == Spec => [](TypeOK /\ InFlight)
<1>1. Init => TypeOK /\ InFlight
  BY TypeInit
<1>2. TypeOK /\ InFlight /\ [Next]_vars => (TypeOK /\ InFlight)'
  BY TypeNext
<1> QED BY <1>1, <1>2, PTL DEF Spec

\* TypeOK alone.
THEOREM TypeCorrect == Spec => []TypeOK
BY Typing, PTL

------------------------------------------------------------------------------
(* Conservation.  It is inductive once the types and InFlight are known;   *)
(* it is stated here of every dict, created or not.                        *)

Balanced(a) == a.total = a.used + a.rest
AllBalanced == \A l \in LedgerId, b \in CreditType : Balanced(ledgers[l][b])

\* The steps that touch a byType account keep it balanced.
LEMMA BalancedSteps ==
  ASSUME NEW a \in Account, NEW n \in Int, Balanced(a)
  PROVE  Balanced(Debited(a, n)) /\ Balanced(Loaded(a, n))
BY DEF Balanced, Debited, Loaded, Account

LEMMA BalancedInstall ==
  ASSUME TypeOK, AllBalanced, NEW shape,
         NEW a \in [Bucket -> Account], \A b \in CreditType : Balanced(a[b]),
         Install(shape, a)
  PROVE  AllBalanced'
BY DEF TypeOK, AllBalanced, Install, LedgerId

LEMMA BalancedDicts ==
  /\ \A b \in CreditType : Balanced(EmptyByType[b])
  /\ \A n \in Int, b \in CreditType : Balanced(generate_credit_data(n)[b])
BY DEF EmptyByType, generate_credit_data, Granted, Balanced, CreditType, Bucket

LEMMA BalancedNext == TypeOK /\ InFlight /\ AllBalanced /\ [Next]_vars => AllBalanced'
<1> SUFFICES ASSUME TypeOK, InFlight, AllBalanced, [Next]_vars PROVE AllBalanced'
  OBVIOUS
<1>0. ASSUME UNCHANGED ledgers PROVE AllBalanced'
  BY <1>0 DEF AllBalanced
<1>1. CASE UNCHANGED vars
  BY <1>0, <1>1 DEF vars
<1>2. ASSUME NEW w \in Worker, BeginCalculation(w) PROVE AllBalanced'
  BY <1>2, BalancedInstall, BalancedDicts, DictTypes DEF BeginCalculation
<1>3. ASSUME NEW w \in Worker, DebitCreditType(w) PROVE AllBalanced'
  <2> DEFINE l == req[w].ledger
             b == CreditPriority[req[w].i]
             n == req[w].use
  <2>1. l \in LedgerId /\ b \in CreditType /\ b \in Bucket /\ n \in Int
    BY <1>3, DebitTypes DEF DebitCreditType
  <2>2. ledgers[l][b] \in Account /\ Balanced(ledgers[l][b])
    BY <2>1 DEF TypeOK, AllBalanced
  <2>3. Balanced(Debited(ledgers[l][b], n))
    BY <2>1, <2>2, BalancedSteps
  <2>4. ledgers' = [ledgers EXCEPT ![l][b] = Debited(ledgers[l][b], n)]
    BY <1>3 DEF DebitCreditType
  <2> HIDE DEF l, b, n
  <2> QED BY <2>1, <2>3, <2>4 DEF AllBalanced, TypeOK
<1>4. ASSUME NEW w \in Worker, DebitFlat(w) PROVE AllBalanced'
  <2>1. \A b \in CreditType : b # "FLAT"
    BY DEF CreditType
  <2>2. \A l \in LedgerId, b \in CreditType : ledgers'[l][b] = ledgers[l][b]
    BY <1>4, <2>1 DEF DebitFlat, TypeOK, Bucket
  <2> QED BY <2>2 DEF AllBalanced
<1>5. ASSUME NEW w \in Worker, LoadCredit(w) PROVE AllBalanced'
  <2> DEFINE c == Head(req[w].credits)
             a == ledgers[credit_data][c.type]
  <2>1. c \in CreditItem /\ credit_data \in LedgerId
    BY <1>5, MaxLedgersAssumption DEF LoadCredit, TypeOK, Request, LedgerId, NoLedger
  <2>2. c.amount \in Int /\ c.type \in CreditType /\ c.type \in Bucket
    BY <2>1, GrantAssumption DEF CreditItem, Bucket
  <2>3. a \in Account /\ Balanced(a)
    BY <2>1, <2>2 DEF TypeOK, AllBalanced
  <2>4. ledgers' = IF kind[credit_data] = "byType"
                     THEN [ledgers EXCEPT ![credit_data][c.type] = Loaded(a, c.amount)]
                     ELSE ledgers
    BY <1>5 DEF LoadCredit
  <2> HIDE DEF a, c
  <2>5. Balanced(Loaded(a, c.amount))
    BY <2>2, <2>3, BalancedSteps
  <2> QED BY <2>1, <2>2, <2>4, <2>5 DEF AllBalanced, TypeOK
<1>6. ASSUME GrantCredit PROVE AllBalanced'
  <2>1. PICK n \in Int : Install("flat", generate_credit_data(n))
    BY <1>6, GrantTypes
  <2> QED BY <2>1, BalancedInstall, BalancedDicts, DictTypes
<1>7. ASSUME CancelCredit PROVE AllBalanced'
  BY <1>7, BalancedInstall, BalancedDicts, DictTypes DEF CancelCredit
<1>8. ASSUME NEW w \in Worker,
             \/ BeginPaymentStatement(w) \/ BeginConsoleStatement(w) \/ BeginBillingDetail(w)
             \/ SkipCreditType(w) \/ ReadCreditType(w) \/ EndApplyCredits(w)
             \/ AnswerStatement(w) \/ DebitFlatFails(w) \/ EndCalculation(w)
      PROVE  AllBalanced'
  BY <1>0, <1>8 DEF BeginPaymentStatement, BeginConsoleStatement, BeginBillingDetail, SkipCreditType,
     ReadCreditType, EndApplyCredits, AnswerStatement, DebitFlatFails, EndCalculation
<1>9. ASSUME ResetTestData PROVE AllBalanced'
  BY <1>0, <1>9 DEF ResetTestData
<1> QED
  BY <1>1, <1>2, <1>3, <1>4, <1>5, <1>6, <1>7, <1>8, <1>9 DEF Next, Start, Continue

\* Whatever the interleaving, no credit of a byType dict is lost or invented.
THEOREM CreditConservation == Spec => []Conservation
<1>1. Init => AllBalanced
  BY BalancedDicts DEF Init, AllBalanced
<1>2. TypeOK /\ InFlight /\ AllBalanced /\ [Next]_vars => AllBalanced'
  BY BalancedNext
<1>3. TypeOK /\ AllBalanced => Conservation
  BY MaxLedgersAssumption DEF TypeOK, AllBalanced, Conservation, Balanced, LedgerId
<1> QED BY <1>1, <1>2, <1>3, Typing, PTL DEF Spec

------------------------------------------------------------------------------
(* One request at a time.  What the walk down the priority list relies on  *)
(* and the threaded server takes away: the dict a request holds is the one *)
(* the account has, the types it has passed have nothing left, what it     *)
(* decided to use is still there when it takes it, and nothing is used of  *)
(* credits that are still being loaded.                                    *)

Sound(a) == Balanced(a) /\ (a.used > 0 => a.rest >= 0)
AllSound == \A l \in LedgerId, b \in Bucket : Sound(ledgers[l][b])

\* Nothing is left of the j-th type of dict d.
Exhausted(d, j) == d[CreditPriority[j]].rest <= 0

\* What holds of a request r while the account's dicts are as they are.
WalkAt(r, dicts, current) ==
    /\ r.pc \in {"scan", "debit"} => r.ledger = current
    /\ r.pc = "scan" => \A j \in 1 .. 3 : j < r.i => Exhausted(dicts[r.ledger], j) \/ r.left <= 0
    /\ r.pc = "debit" =>
          /\ \A j \in 1 .. 3 : j < r.i => Exhausted(dicts[r.ledger], j)
          /\ r.left > 0 /\ dicts[r.ledger][CreditPriority[r.i]].rest > 0
          /\ r.use = CreditToUse(dicts[r.ledger][CreditPriority[r.i]].rest, r.left)
    /\ r.pc = "store" /\ r.ledger # NoLedger =>
          r.left <= 0 \/ \A j \in 1 .. 3 : Exhausted(dicts[r.ledger], j)
    /\ r.pc = "flatDebit" =>
          /\ current # NoLedger
          /\ r.use <= dicts[current]["FLAT"].rest
          /\ dicts[current]["FLAT"].rest > 0
    /\ r.pc = "load" =>
          /\ current # NoLedger
          /\ \A b \in Bucket : dicts[current][b].used = 0

OthersIdle(w) == \A v \in Worker : v # w => req[v].pc = "idle"
OneAtATime == \A w \in Worker : req[w].pc # "idle" => OthersIdle(w)
Walk == \A w \in Worker : WalkAt(req[w], ledgers, credit_data)
SerialInv == OneAtATime /\ Walk /\ AllSound

\* A step of the only busy thread (or of a first one) keeps the walk if the
\* request it leaves that thread with does.
LEMMA WalkStep ==
  ASSUME TypeOK, NEW w \in Worker, OthersIdle(w), NEW r, req' = [req EXCEPT ![w] = r],
         WalkAt(r, ledgers', credit_data')
  PROVE  OneAtATime' /\ Walk'
<1>1. req'[w] = r /\ \A v \in Worker : v # w => req'[v].pc = "idle"
  BY DEF TypeOK, OthersIdle
<1>2. OneAtATime'
  BY <1>1 DEF OneAtATime, OthersIdle
<1>3. \A v \in Worker : v # w => WalkAt(req'[v], ledgers', credit_data')
  BY <1>1 DEF WalkAt
<1> QED BY <1>1, <1>2, <1>3 DEF Walk

\* A step taken while no request is in progress, which starts none.
LEMMA WalkIdle ==
  ASSUME AllIdle, UNCHANGED req PROVE OneAtATime' /\ Walk'
BY DEF AllIdle, OneAtATime, OthersIdle, Walk, WalkAt

LEMMA SerialStart ==
  ASSUME ~Threaded, NEW w \in Worker, CanStart(w) PROVE AllIdle /\ OthersIdle(w)
BY DEF CanStart, CanServe, AllIdle, OthersIdle

LEMMA IdleWalks == \A dicts, current : WalkAt(Idle, dicts, current)
BY DEF WalkAt, Idle

LEMMA SoundSteps ==
  ASSUME NEW a \in Account, NEW n \in Int, Sound(a)
  PROVE  /\ a.used = 0 => Sound(Loaded(a, n))
         /\ n <= a.rest => Sound(Debited(a, n)) /\ Sound(DebitedFlat(a, n))
<1>1. a.total = a.used + a.rest /\ a.total \in Int /\ a.used \in Int /\ a.rest \in Int
  BY DEF Sound, Balanced, Account
<1>2. ASSUME a.used = 0 PROVE Sound(Loaded(a, n))
  BY <1>1, <1>2 DEF Sound, Balanced, Loaded, Account
<1>3. ASSUME n <= a.rest PROVE Sound(Debited(a, n))
  BY <1>1, <1>3 DEF Sound, Balanced, Debited, Account
<1>4. ASSUME n <= a.rest PROVE Sound(DebitedFlat(a, n))
  <2>1. ~(a.total < a.used + n) /\ a.total = (a.used + n) + (a.total - (a.used + n))
        /\ a.total - (a.used + n) >= 0
    BY <1>1, <1>4
  <2> QED BY <1>1, <1>4, <2>1 DEF Sound, Balanced, DebitedFlat, Account
<1> QED BY <1>2, <1>3, <1>4

LEMMA SoundDicts ==
  /\ \A b \in Bucket : Sound(EmptyByType[b])
  /\ \A n \in Int, b \in Bucket : Sound(generate_credit_data(n)[b])
BY DEF EmptyByType, generate_credit_data, Granted, Sound, Balanced

LEMMA SoundInstall ==
  ASSUME TypeOK, AllSound, NEW shape,
         NEW a \in [Bucket -> Account], \A b \in Bucket : Sound(a[b]),
         Install(shape, a)
  PROVE  AllSound'
BY DEF TypeOK, AllSound, Install, LedgerId

\* One account of one dict is replaced by a sound one.
LEMMA SoundUpdate ==
  ASSUME TypeOK, AllSound, NEW l \in LedgerId, NEW b \in Bucket, NEW a, Sound(a),
         ledgers' = [ledgers EXCEPT ![l][b] = a]
  PROVE  AllSound'
BY DEF TypeOK, AllSound

\* What a request is when it begins, reads or debits a type, or takes the
\* flat credit.
Entered(op, charge) ==
    [Idle EXCEPT !.op = op, !.left = charge,
                 !.pc = IF HasByType THEN "scan" ELSE "store",
                 !.ledger = IF HasByType THEN credit_data ELSE NoLedger]
FlatRequest(charge, n) ==
    [Idle EXCEPT !.op = "detail", !.pc = "flatDebit", !.left = charge, !.use = n]
Reading(r, n) == [r EXCEPT !.pc = "debit", !.use = n]
AfterDebit(r) == [r EXCEPT !.pc = "scan", !.i = @ + 1, !.left = @ - r.use]

LEMMA EnteredWalks ==
  ASSUME NEW op, NEW charge PROVE WalkAt(Entered(op, charge), ledgers, credit_data)
<1>1. /\ Entered(op, charge).pc \in {"scan", "store"} /\ Entered(op, charge).i = 1
      /\ Entered(op, charge).pc = "scan" => Entered(op, charge).ledger = credit_data
      /\ Entered(op, charge).pc = "store" => Entered(op, charge).ledger = NoLedger
  BY DEF Entered, Idle
<1>2. \A j \in 1 .. 3 : ~(j < 1)
  OBVIOUS
<1> QED BY <1>1, <1>2 DEF WalkAt

LEMMA ReadingWalks ==
  ASSUME NEW r \in Request, NEW dicts, NEW current, WalkAt(r, dicts, current),
         r.pc = "scan", r.left > 0, dicts[r.ledger][CreditPriority[r.i]].rest > 0
  PROVE  WalkAt(Reading(r, CreditToUse(dicts[r.ledger][CreditPriority[r.i]].rest, r.left)), dicts, current)
<1> DEFINE n == CreditToUse(dicts[r.ledger][CreditPriority[r.i]].rest, r.left)
           s == Reading(r, n)
<1>1. s.pc = "debit" /\ s.use = n /\ s.i = r.i /\ s.left = r.left /\ s.ledger = r.ledger
  BY DEF Reading, Request
<1>2. \A j \in 1 .. 3 : j < r.i => Exhausted(dicts[r.ledger], j)
  BY DEF WalkAt, Request
<1>3. r.ledger = current
  BY DEF WalkAt
<1>4. /\ \A j \in 1 .. 3 : j < s.i => Exhausted(dicts[s.ledger], j)
      /\ s.left > 0 /\ dicts[s.ledger][CreditPriority[s.i]].rest > 0
      /\ s.use = CreditToUse(dicts[s.ledger][CreditPriority[s.i]].rest, s.left)
  BY <1>1, <1>2
<1> HIDE DEF s
<1>5. WalkAt(s, dicts, current)
  BY <1>1, <1>3, <1>4 DEF WalkAt
<1> QED BY <1>5 DEF s

LEMMA SkippedWalks ==
  ASSUME NEW r \in Request, NEW dicts, NEW current, WalkAt(r, dicts, current),
         r.pc = "scan", Exhausted(dicts[r.ledger], r.i)
  PROVE  WalkAt([r EXCEPT !.i = @ + 1], dicts, current)
<1> DEFINE s == [r EXCEPT !.i = @ + 1]
<1>1. s.pc = "scan" /\ s.i = r.i + 1 /\ s.left = r.left /\ s.ledger = r.ledger /\ r.i \in Int
  BY DEF Request
<1>2. \A j \in 1 .. 3 : j < r.i + 1 => j < r.i \/ j = r.i
  BY <1>1
<1>3. \A j \in 1 .. 3 : j < r.i + 1 => Exhausted(dicts[r.ledger], j) \/ r.left <= 0
  BY <1>2 DEF WalkAt
<1>4. r.ledger = current
  BY DEF WalkAt
<1> HIDE DEF s
<1>5. WalkAt(s, dicts, current)
  BY <1>1, <1>3, <1>4 DEF WalkAt
<1> QED BY <1>5 DEF s

LEMMA EndedWalks ==
  ASSUME NEW r \in Request, NEW dicts, NEW current, WalkAt(r, dicts, current),
         r.pc = "scan", r.i > 3 \/ r.left <= 0
  PROVE  WalkAt([r EXCEPT !.pc = "store"], dicts, current)
<1> DEFINE s == [r EXCEPT !.pc = "store"]
<1>1. s.pc = "store" /\ s.left = r.left /\ s.ledger = r.ledger
  BY DEF Request
<1>2. r.left <= 0 \/ \A j \in 1 .. 3 : Exhausted(dicts[r.ledger], j)
  BY DEF WalkAt, Request
<1> HIDE DEF s
<1>3. WalkAt(s, dicts, current)
  BY <1>1, <1>2 DEF WalkAt
<1> QED BY <1>3 DEF s

\* Taking min(rest, left) exhausts the type or covers the charge.
LEMMA UsesUp ==
  ASSUME NEW rest \in Int, NEW left \in Int, rest > 0, left > 0
  PROVE  /\ CreditToUse(rest, left) \in Nat \ {0} /\ CreditToUse(rest, left) <= rest
         /\ rest - CreditToUse(rest, left) <= 0 \/ left - CreditToUse(rest, left) <= 0
BY DEF CreditToUse

LEMMA PriorityTypes ==
  /\ \A j \in 1 .. 3 : CreditPriority[j] \in CreditType /\ CreditPriority[j] \in Bucket
  /\ \A j, k \in 1 .. 3 : CreditPriority[j] = CreditPriority[k] => j = k
  /\ \A b \in CreditType : \E j \in 1 .. 3 : b = CreditPriority[j]
  /\ \A b \in CreditType : b # "FLAT"
  /\ Len(CreditPriority) = 3
<1>1. \A j \in 1 .. 3 : j = 1 \/ j = 2 \/ j = 3
  OBVIOUS
<1> QED BY <1>1 DEF CreditPriority, CreditType, Bucket

LEMMA DebitedWalks ==
  ASSUME NEW r \in Request, r.i \in 1 .. 3, r.pc = "debit", r.ledger \in LedgerId,
         NEW dicts \in [LedgerId -> [Bucket -> Account]], NEW current,
         WalkAt(r, dicts, current)
  PROVE  WalkAt(AfterDebit(r),
                [dicts EXCEPT ![r.ledger][CreditPriority[r.i]] = Debited(@, r.use)], current)
<1> DEFINE b == CreditPriority[r.i]
           a == dicts[r.ledger][b]
           s == AfterDebit(r)
           after == [dicts EXCEPT ![r.ledger][b] = Debited(@, r.use)]
<1>1. /\ s.pc = "scan" /\ s.i = r.i + 1 /\ s.left = r.left - r.use /\ s.ledger = r.ledger
      /\ r.use \in Int /\ r.left \in Int
  BY DEF AfterDebit, Request
<1>2. b \in Bucket /\ a \in Account /\ a.rest \in Int
  BY PriorityTypes DEF Account
<1>3. after[r.ledger][b].rest = a.rest - r.use
  BY <1>2 DEF Debited, Account
<1>4. \A j \in 1 .. 3 : j # r.i => after[r.ledger][CreditPriority[j]] = dicts[r.ledger][CreditPriority[j]]
  BY PriorityTypes
<1>5. r.left > 0 /\ a.rest > 0 /\ r.use = CreditToUse(a.rest, r.left) /\ r.ledger = current
  BY DEF WalkAt
<1>6. \A j \in 1 .. 3 : j < r.i => Exhausted(dicts[r.ledger], j)
  BY DEF WalkAt
<1>7. Exhausted(after[r.ledger], r.i) \/ s.left <= 0
  BY <1>1, <1>2, <1>3, <1>5, UsesUp DEF Exhausted
<1>8. \A j \in 1 .. 3 : j < r.i => Exhausted(after[r.ledger], j)
  BY <1>4, <1>6 DEF Exhausted
<1>9. \A j \in 1 .. 3 : j < r.i + 1 => j < r.i \/ j = r.i
  OBVIOUS
<1>10. \A j \in 1 .. 3 : j < s.i => Exhausted(after[r.ledger], j) \/ s.left <= 0
  BY <1>1, <1>7, <1>8, <1>9
<1> HIDE DEF s, after
<1>11. WalkAt(s, after, current)
  BY <1>1, <1>5, <1>10 DEF WalkAt
<1> QED BY <1>11 DEF s, after

\* A step of a thread that is already busy finds the others idle.
LEMMA SerialGoesOn ==
  ASSUME OneAtATime, NEW w \in Worker, req[w].pc # "idle" PROVE OthersIdle(w) /\ ~AllIdle
BY DEF OneAtATime, AllIdle

LEMMA SerialNext ==
  ASSUME ~Threaded, TypeOK, InFlight, SerialInv, [Next]_vars PROVE SerialInv'
<1> USE DEF SerialInv
<1>0. CASE UNCHANGED vars
  BY <1>0 DEF vars, OneAtATime, OthersIdle, Walk, AllSound
<1>1. ASSUME UNCHANGED ledgers PROVE AllSound'
  BY <1>1 DEF AllSound
<1>2. ASSUME NEW w \in Worker, CanStart(w), NEW op, NEW charge, EnterApplyCredits(w, op, charge),
             UNCHANGED <<ledgers, credit_data>>
      PROVE  SerialInv'
  <2>1. OthersIdle(w) /\ req' = [req EXCEPT ![w] = Entered(op, charge)]
    BY <1>2, SerialStart DEF EnterApplyCredits, Entered
  <2>2. WalkAt(Entered(op, charge), ledgers', credit_data')
    BY <1>2, EnteredWalks
  <2> QED BY <1>1, <1>2, <2>1, <2>2, WalkStep
<1>3. ASSUME NEW w \in Worker, BeginPaymentStatement(w) PROVE SerialInv'
  BY <1>2, <1>3 DEF BeginPaymentStatement
<1>4. ASSUME NEW w \in Worker, BeginConsoleStatement(w) PROVE SerialInv'
  BY <1>2, <1>4 DEF BeginConsoleStatement
<1>5. ASSUME NEW w \in Worker, BeginBillingDetail(w) PROVE SerialInv'
  <2> DEFINE rest == IF credit_data = NoLedger THEN 0 ELSE ledgers[credit_data]["FLAT"].rest
  <2>1. rest \in Int
    BY MaxLedgersAssumption DEF TypeOK, LedgerId, NoLedger, Bucket, Account
  <2>2. PICK charge \in Int :
             \/ UNCHANGED req
             \/ rest > 0 /\ req' = [req EXCEPT ![w] = FlatRequest(charge, CreditToUse(rest, charge))]
    BY <1>5, ChargeAssumption DEF BeginBillingDetail, FlatRequest
  <2>3. UNCHANGED <<ledgers, credit_data>> /\ CanStart(w)
    BY <1>5 DEF BeginBillingDetail
  <2>4. CASE UNCHANGED req
    BY <1>1, <2>3, <2>4, SerialStart, WalkIdle
  <2>5. CASE rest > 0 /\ req' = [req EXCEPT ![w] = FlatRequest(charge, CreditToUse(rest, charge))]
    <3> DEFINE n == CreditToUse(rest, charge)
    <3>1. credit_data # NoLedger /\ rest = ledgers[credit_data]["FLAT"].rest /\ rest > 0
      BY <2>5
    <3> HIDE DEF rest
    <3>2. n <= rest
      BY <2>1, <2>5, CreditToUseType
    <3> HIDE DEF n
    <3>3. FlatRequest(charge, n).pc = "flatDebit" /\ FlatRequest(charge, n).use = n
      BY DEF FlatRequest, Idle
    <3>4. WalkAt(FlatRequest(charge, n), ledgers, credit_data)
      BY <3>1, <3>2, <3>3 DEF WalkAt
    <3>5. WalkAt(FlatRequest(charge, n), ledgers', credit_data')
      BY <2>3, <3>4
    <3>6. req' = [req EXCEPT ![w] = FlatRequest(charge, n)]
      BY <2>5 DEF n
    <3> QED BY <1>1, <2>3, <3>5, <3>6, SerialStart, WalkStep
  <2> QED BY <2>2, <2>4, <2>5
<1>6. ASSUME NEW w \in Worker, BeginCalculation(w) PROVE SerialInv'
  <2>1. PICK credits \in CreditLists :
          req' = [req EXCEPT ![w] = [Idle EXCEPT
                     !.op = "calculate", !.pc = "load", !.credits = credits]]
    BY <1>6 DEF BeginCalculation
  <2> DEFINE r == [Idle EXCEPT !.op = "calculate", !.pc = "load", !.credits = credits]
  <2>2. r.pc = "load"
    BY DEF Idle
  <2>3. req' = [req EXCEPT ![w] = r]
    BY <2>1
  <2> HIDE DEF r
  <2>4. WalkAt(r, ledgers', credit_data')
    <3>1. credit_data' # NoLedger /\ ledgers'[credit_data'] = EmptyByType
      BY <1>6, MaxLedgersAssumption DEF BeginCalculation, Install, TypeOK, LedgerId, NoLedger
    <3> QED BY <2>2, <3>1, DictTypes DEF WalkAt
  <2>5. OneAtATime' /\ Walk'
    BY <1>6, <2>3, <2>4, SerialStart, WalkStep DEF BeginCalculation
  <2>6. AllSound'
    BY <1>6, SoundInstall, SoundDicts, DictTypes DEF BeginCalculation
  <2> QED BY <2>5, <2>6
<1>7. ASSUME NEW w \in Worker, SkipCreditType(w) PROVE SerialInv'
  <2>1. req' = [req EXCEPT ![w] = [req[w] EXCEPT !.i = @ + 1]] /\ UNCHANGED <<ledgers, credit_data>>
    BY <1>7 DEF SkipCreditType, TypeOK
  <2>2. WalkAt([req[w] EXCEPT !.i = @ + 1], ledgers, credit_data)
    <3>1. req[w] \in Request /\ WalkAt(req[w], ledgers, credit_data) /\ req[w].pc = "scan"
      BY <1>7 DEF SkipCreditType, TypeOK, Walk
    <3>2. Exhausted(ledgers[req[w].ledger], req[w].i)
      BY <1>7 DEF SkipCreditType, Exhausted, Looking
    <3> QED BY <3>1, <3>2, SkippedWalks
  <2>3. WalkAt([req[w] EXCEPT !.i = @ + 1], ledgers', credit_data')
    BY <2>1, <2>2
  <2>4. OthersIdle(w)
    BY <1>7, SerialGoesOn DEF SkipCreditType
  <2> QED BY <1>1, <2>1, <2>3, <2>4, WalkStep
<1>8. ASSUME NEW w \in Worker, ReadCreditType(w) PROVE SerialInv'
  <2> DEFINE rest == ledgers[req[w].ledger][CreditPriority[req[w].i]].rest
             r == Reading(req[w], CreditToUse(rest, req[w].left))
  <2>1. req' = [req EXCEPT ![w] = r] /\ UNCHANGED <<ledgers, credit_data>>
    BY <1>8 DEF ReadCreditType, TypeOK, Reading, Looking
  <2>2. req[w] \in Request /\ WalkAt(req[w], ledgers, credit_data)
    BY DEF TypeOK, Walk
  <2>3. req[w].pc = "scan" /\ req[w].left > 0 /\ rest > 0
    BY <1>8, <2>2 DEF ReadCreditType, Looking, Covered, Request
  <2>4. WalkAt(r, ledgers, credit_data)
    BY <2>2, <2>3, ReadingWalks
  <2> HIDE DEF r
  <2>5. WalkAt(r, ledgers', credit_data')
    BY <2>1, <2>4
  <2>6. OthersIdle(w)
    BY <1>8, SerialGoesOn DEF ReadCreditType
  <2> QED BY <1>1, <2>1, <2>5, <2>6, WalkStep
<1>9. ASSUME NEW w \in Worker, DebitCreditType(w) PROVE SerialInv'
  <2> DEFINE l == req[w].ledger
             b == CreditPriority[req[w].i]
             n == req[w].use
  <2>1. /\ req[w] \in Request /\ req[w].i \in 1 .. 3 /\ req[w].pc = "debit"
        /\ WalkAt(req[w], ledgers, credit_data)
    BY <1>9 DEF DebitCreditType, TypeOK, InFlight, Walk
  <2>2. l \in LedgerId /\ b \in Bucket /\ n \in Int /\ ledgers[l][b] \in Account
    <3>1. l \in LedgerId /\ b \in Bucket /\ n \in Int
      BY <2>1, DebitTypes DEF InFlight
    <3> QED BY <3>1 DEF TypeOK
  <2>3. /\ ledgers' = [ledgers EXCEPT ![l][b] = Debited(@, n)]
        /\ req' = [req EXCEPT ![w] = AfterDebit(req[w])]
        /\ UNCHANGED credit_data
    BY <1>9 DEF DebitCreditType, TypeOK, AfterDebit
  <2>4. WalkAt(AfterDebit(req[w]), ledgers', credit_data')
    BY <2>1, <2>2, <2>3, DebitedWalks DEF TypeOK
  <2>5. OneAtATime' /\ Walk'
    BY <2>1, <2>3, <2>4, SerialGoesOn, WalkStep
  <2>6. n <= ledgers[l][b].rest
    <3>1. /\ n = CreditToUse(ledgers[l][b].rest, req[w].left)
          /\ ledgers[l][b].rest > 0 /\ req[w].left > 0
      BY <2>1 DEF WalkAt
    <3>2. ledgers[l][b].rest \in Int /\ req[w].left \in Int
      BY <2>1, <2>2 DEF Account, Request
    <3> QED BY <3>1, <3>2, UsesUp
  <2>7. Sound(Debited(ledgers[l][b], n))
    BY <2>2, <2>6, SoundSteps DEF AllSound
  <2>8. ledgers' = [ledgers EXCEPT ![l][b] = Debited(ledgers[l][b], n)]
    BY <2>2, <2>3
  <2>9. AllSound'
    BY <2>2, <2>7, <2>8, SoundUpdate
  <2> QED BY <2>5, <2>9
<1>10. ASSUME NEW w \in Worker, EndApplyCredits(w) PROVE SerialInv'
  <2>1. req' = [req EXCEPT ![w] = [req[w] EXCEPT !.pc = "store"]] /\ UNCHANGED <<ledgers, credit_data>>
    BY <1>10 DEF EndApplyCredits, TypeOK
  <2>2. /\ req[w] \in Request /\ WalkAt(req[w], ledgers, credit_data) /\ req[w].pc = "scan"
        /\ req[w].i > 3 \/ req[w].left <= 0
    BY <1>10, PriorityTypes DEF EndApplyCredits, TypeOK, Walk, PastLastType, Covered
  <2>3. WalkAt([req[w] EXCEPT !.pc = "store"], ledgers', credit_data')
    BY <2>1, <2>2, EndedWalks
  <2>4. OthersIdle(w)
    BY <2>2, SerialGoesOn
  <2> QED BY <1>1, <2>1, <2>3, <2>4, WalkStep
<1>11. ASSUME NEW w \in Worker, req[w].pc # "idle", Finish(w) PROVE OneAtATime' /\ Walk'
  BY <1>11, SerialGoesOn, IdleWalks, WalkStep DEF Finish
<1>12. ASSUME NEW w \in Worker, AnswerStatement(w) PROVE SerialInv'
  BY <1>1, <1>11, <1>12 DEF AnswerStatement
<1>13. ASSUME NEW w \in Worker, DebitFlat(w) PROVE SerialInv'
  <2> DEFINE a == ledgers[credit_data]["FLAT"]
             n == req[w].use
  <2>1. credit_data \in LedgerId /\ "FLAT" \in Bucket /\ n \in Int /\ a \in Account
    BY <1>13, MaxLedgersAssumption DEF DebitFlat, TypeOK, Request, LedgerId, NoLedger, Bucket
  <2>2. n <= a.rest
    BY <1>13 DEF DebitFlat, Walk, WalkAt
  <2>3. ledgers' = [ledgers EXCEPT ![credit_data]["FLAT"] = DebitedFlat(a, n)]
    BY <1>13 DEF DebitFlat
  <2>4. Sound(a)
    BY <2>1 DEF AllSound
  <2> HIDE DEF a, n
  <2>5. AllSound'
    BY <2>1, <2>2, <2>3, <2>4, SoundSteps, SoundUpdate
  <2>6. OneAtATime' /\ Walk'
    BY <1>11, <1>13 DEF DebitFlat
  <2> QED BY <2>5, <2>6
<1>14. ASSUME NEW w \in Worker, DebitFlatFails(w) PROVE SerialInv'
  BY <1>1, <1>11, <1>14 DEF DebitFlatFails
<1>15. ASSUME NEW w \in Worker, LoadCredit(w) PROVE SerialInv'
  <2> DEFINE c == Head(req[w].credits)
             a == ledgers[credit_data][c.type]
             r == [req[w] EXCEPT !.credits = Tail(@)]
  <2>1. c \in CreditItem /\ credit_data \in LedgerId
    BY <1>15, MaxLedgersAssumption DEF LoadCredit, TypeOK, Request, LedgerId, NoLedger
  <2>2. c.amount \in Int /\ c.type \in Bucket
    BY <2>1, GrantAssumption DEF CreditItem, Bucket
  <2>3. a \in Account /\ Sound(a) /\ a.used = 0 /\ \A b \in Bucket : ledgers[credit_data][b].used = 0
    BY <1>15, <2>1, <2>2 DEF LoadCredit, TypeOK, AllSound, Walk, WalkAt
  <2>4. \/ ledgers' = [ledgers EXCEPT ![credit_data][c.type] = Loaded(a, c.amount)]
        \/ ledgers' = ledgers
    BY <1>15 DEF LoadCredit
  <2>5. r.pc = "load" /\ req' = [req EXCEPT ![w] = r] /\ UNCHANGED credit_data
    BY <1>15 DEF LoadCredit, TypeOK, Request
  <2> HIDE DEF a, c, r
  <2>6. AllSound'
    BY <1>1, <2>1, <2>2, <2>3, <2>4, SoundSteps, SoundUpdate
  <2>7. WalkAt(r, ledgers', credit_data')
    <3>1. Loaded(a, c.amount).used = 0
      BY <2>2, <2>3, AccountTypes
    <3>2. \A b \in Bucket : ledgers'[credit_data][b].used = 0
      BY <2>1, <2>2, <2>3, <2>4, <3>1 DEF TypeOK
    <3>3. credit_data # NoLedger
      BY <2>1 DEF LedgerId, NoLedger
    <3> QED BY <2>5, <3>2, <3>3 DEF WalkAt
  <2>8. OthersIdle(w)
    BY <1>15, SerialGoesOn DEF LoadCredit
  <2> QED BY <2>5, <2>6, <2>7, <2>8, WalkStep
<1>16. ASSUME NEW w \in Worker, EndCalculation(w) PROVE SerialInv'
  BY <1>1, <1>11, <1>16 DEF EndCalculation
<1>17. ASSUME CanServe, UNCHANGED req PROVE OneAtATime' /\ Walk'
  BY <1>17, WalkIdle DEF CanServe
<1>18. ASSUME GrantCredit PROVE SerialInv'
  <2>1. PICK n \in Int : Install("flat", generate_credit_data(n))
    BY <1>18, GrantTypes
  <2>2. AllSound'
    BY <2>1, SoundInstall, SoundDicts, DictTypes
  <2> QED BY <1>17, <1>18, <2>2 DEF GrantCredit
<1>19. ASSUME CancelCredit PROVE SerialInv'
  <2>1. AllSound'
    BY <1>19, SoundInstall, SoundDicts, DictTypes DEF CancelCredit
  <2> QED BY <1>17, <1>19, <2>1 DEF CancelCredit
<1>20. ASSUME ResetTestData PROVE SerialInv'
  BY <1>1, <1>17, <1>20 DEF ResetTestData
<1> QED
  BY <1>0, <1>3, <1>4, <1>5, <1>6, <1>7, <1>8, <1>9, <1>10, <1>12, <1>13, <1>14, <1>15, <1>16,
     <1>18, <1>19, <1>20 DEF Next, Start, Continue

LEMMA SerialInit == Init => SerialInv
<1> SUFFICES ASSUME Init PROVE SerialInv
  OBVIOUS
<1>1. OneAtATime
  BY DEF Init, OneAtATime, OthersIdle, Idle
<1>2. Walk
  BY IdleWalks DEF Init, Walk
<1>3. AllSound
  BY SoundDicts DEF Init, AllSound
<1> QED BY <1>1, <1>2, <1>3 DEF SerialInv

LEMMA SerialInvariant == ~Threaded => (Spec => [](TypeOK /\ InFlight /\ SerialInv))
<1>1. Init => TypeOK /\ InFlight /\ SerialInv
  BY TypeInit, SerialInit
<1>2. ASSUME ~Threaded
      PROVE  TypeOK /\ InFlight /\ SerialInv /\ [Next]_vars => (TypeOK /\ InFlight /\ SerialInv)'
  BY <1>2, TypeNext, SerialNext
<1>3. ASSUME ~Threaded PROVE Spec => [](TypeOK /\ InFlight /\ SerialInv)
  BY <1>1, <1>2, <1>3, PTL DEF Spec
<1> QED BY <1>3

\* One request at a time, no more is used than was granted and no rest of
\* credit that was used is negative: the overlap of read and debit is the only way to overspend.
THEOREM SerialWithinGrant == ~Threaded => (Spec => []WithinGrant)
<1>1. TypeOK /\ SerialInv => WithinGrant
  <2> SUFFICES ASSUME TypeOK, SerialInv, credit_data # NoLedger, NEW b \in Bucket,
                      ledgers[credit_data][b].used > 0
               PROVE  ledgers[credit_data][b].used <= ledgers[credit_data][b].total /\ ledgers[credit_data][b].rest >= 0
    BY DEF WithinGrant
  <2>1. credit_data \in LedgerId
    BY MaxLedgersAssumption DEF TypeOK, LedgerId, NoLedger
  <2>2. ledgers[credit_data][b] \in Account /\ Sound(ledgers[credit_data][b])
    BY <2>1 DEF TypeOK, SerialInv, AllSound
  <2> QED BY <2>2 DEF Sound, Balanced, Account
<1>2. ASSUME ~Threaded PROVE Spec => []WithinGrant
  BY <1>1, <1>2, SerialInvariant, PTL
<1> QED BY <1>2

\* One request at a time, a statement of the payments and console endpoints
\* that found a dict by type keeps a charge only when no type of that dict has
\* anything left (of a flat dict, which these endpoints do not use, and of
\* bills/detail, which uses no credit by type, it says nothing).
THEOREM SerialExhausts == ~Threaded => (Spec => []ChargeOnlyWhenExhausted)
<1>1. TypeOK /\ SerialInv => ChargeOnlyWhenExhausted
  <2> SUFFICES ASSUME TypeOK, SerialInv, NEW w \in Worker, req[w].pc = "store", req[w].left > 0,
                      req[w].ledger # NoLedger, NEW b \in CreditType
               PROVE  ledgers[req[w].ledger][b].rest <= 0
    BY DEF ChargeOnlyWhenExhausted
  <2>1. req[w].left \in Int /\ WalkAt(req[w], ledgers, credit_data)
    BY DEF TypeOK, SerialInv, Walk, Request
  <2>2. \A j \in 1 .. 3 : Exhausted(ledgers[req[w].ledger], j)
    BY <2>1 DEF WalkAt
  <2>3. PICK j \in 1 .. 3 : b = CreditPriority[j]
    BY PriorityTypes
  <2> QED BY <2>2, <2>3 DEF Exhausted
<1>2. ASSUME ~Threaded PROVE Spec => []ChargeOnlyWhenExhausted
  BY <1>1, <1>2, SerialInvariant, PTL
<1> QED BY <1>2

------------------------------------------------------------------------------
(* The order of the types, one request at a time.                          *)

\* Only a debit of the loop raises a used figure of a byType account.
LEMMA UsedRises ==
  ASSUME TypeOK, InFlight, [Next]_vars, NEW l \in 1 .. allocated, NEW b \in CreditType,
         ledgers'[l][b].used > ledgers[l][b].used
  PROVE  \E w \in Worker : /\ DebitCreditType(w) /\ req[w].ledger = l
                           /\ b = CreditPriority[req[w].i]
<1>1. l \in LedgerId /\ b \in Bucket /\ ledgers[l][b].used \in Int /\ l # allocated + 1
  BY MaxLedgersAssumption DEF TypeOK, LedgerId, Bucket, Account
<1>2. ledgers'[l][b] # ledgers[l][b]
  BY <1>1
<1>3. ASSUME NEW shape, NEW a, Install(shape, a) PROVE FALSE
  <2>1. ledgers' = [ledgers EXCEPT ![allocated + 1] = a]
    BY <1>3 DEF Install
  <2>2. ledgers'[l] = ledgers[l]
    BY <1>1, <2>1 DEF TypeOK
  <2> QED BY <1>2, <2>2
<1>4. ASSUME NEW w \in Worker, DebitFlat(w) PROVE FALSE
  BY <1>1, <1>2, <1>4, PriorityTypes DEF DebitFlat, TypeOK
<1>5. ASSUME NEW w \in Worker, LoadCredit(w) PROVE FALSE
  <2> DEFINE c == Head(req[w].credits)
             a == ledgers[credit_data][c.type]
  <2>1. c \in CreditItem /\ credit_data \in LedgerId
    BY <1>5, MaxLedgersAssumption DEF LoadCredit, TypeOK, Request, LedgerId, NoLedger
  <2>2. c.type \in Bucket /\ c.amount \in Int
    BY <2>1, GrantAssumption DEF CreditItem, Bucket
  <2>3. a \in Account
    BY <2>1, <2>2 DEF TypeOK
  <2>4. \/ ledgers' = [ledgers EXCEPT ![credit_data][c.type] = Loaded(a, c.amount)]
        \/ ledgers' = ledgers
    BY <1>5 DEF LoadCredit
  <2>5. Loaded(a, c.amount).used = a.used
    BY <2>3 DEF Loaded, Account
  <2>6. a = ledgers[credit_data][c.type]
    OBVIOUS
  <2> HIDE DEF a, c
  <2>7. ledgers'[l][b].used = ledgers[l][b].used
    BY <1>1, <2>1, <2>2, <2>4, <2>5, <2>6 DEF TypeOK
  <2> QED BY <1>1, <2>7
<1>6. ASSUME UNCHANGED ledgers PROVE FALSE
  BY <1>2, <1>6
<1>7. ASSUME NEW w \in Worker, DebitCreditType(w)
      PROVE  req[w].ledger = l /\ b = CreditPriority[req[w].i]
  <2>1. req[w].ledger \in LedgerId /\ CreditPriority[req[w].i] \in Bucket
    BY <1>7, PriorityTypes, MaxLedgersAssumption DEF DebitCreditType, InFlight, TypeOK, LedgerId
  <2> QED BY <1>1, <1>2, <1>7, <2>1 DEF DebitCreditType, TypeOK
<1>8. ASSUME NEW w \in Worker, BeginCalculation(w) PROVE FALSE
  BY <1>3, <1>8 DEF BeginCalculation
<1>9. ASSUME GrantCredit \/ CancelCredit PROVE FALSE
  BY <1>3, <1>9 DEF GrantCredit, CancelCredit
<1>10. ASSUME NEW w \in Worker,
             \/ BeginPaymentStatement(w) \/ BeginConsoleStatement(w) \/ BeginBillingDetail(w)
             \/ SkipCreditType(w) \/ ReadCreditType(w) \/ EndApplyCredits(w)
             \/ AnswerStatement(w) \/ DebitFlatFails(w) \/ EndCalculation(w)
       PROVE FALSE
  BY <1>6, <1>10 DEF BeginPaymentStatement, BeginConsoleStatement, BeginBillingDetail, SkipCreditType,
     ReadCreditType, EndApplyCredits, AnswerStatement, DebitFlatFails, EndCalculation
<1>11. ASSUME ResetTestData \/ UNCHANGED vars PROVE FALSE
  BY <1>6, <1>11 DEF ResetTestData, vars
<1> QED
  BY <1>4, <1>5, <1>7, <1>8, <1>9, <1>10, <1>11 DEF Next, Start, Continue

\* The types a type waits for come before it in the list.
LEMMA DearerComesFirst ==
  ASSUME NEW i \in 1 .. 3, NEW c \in Dearer[CreditPriority[i]]
  PROVE  \E j \in 1 .. 3 : j < i /\ c = CreditPriority[j]
<1>1. i = 1 \/ i = 2 \/ i = 3
  OBVIOUS
<1>2. CASE i = 1
  BY <1>2 DEF Dearer, CreditPriority
<1>3. CASE i = 2
  <2>1. c = CreditPriority[1]
    BY <1>3 DEF Dearer, CreditPriority
  <2> QED BY <1>3, <2>1
<1>4. CASE i = 3
  <2>1. c = CreditPriority[1] \/ c = CreditPriority[2]
    BY <1>4 DEF Dearer, CreditPriority
  <2> QED BY <1>4, <2>1
<1> QED BY <1>1, <1>2, <1>3, <1>4

\* One request at a time, FREE credit is used only when PROMOTIONAL has
\* nothing left, and PAID only when neither has.
THEOREM SerialPriority == ~Threaded => (Spec => PriorityRespected)
<1> DEFINE Ordered ==
      \A l \in 1 .. allocated, b \in CreditType :
          ledgers'[l][b].used > ledgers[l][b].used =>
              \A c \in Dearer[b] : ledgers[l][c].rest <= 0
<1>1. ASSUME TypeOK, InFlight, SerialInv, [Next]_vars PROVE Ordered
  <2> SUFFICES ASSUME NEW l \in 1 .. allocated, NEW b \in CreditType,
                      ledgers'[l][b].used > ledgers[l][b].used, NEW c \in Dearer[b]
               PROVE  ledgers[l][c].rest <= 0
    OBVIOUS
  <2>1. PICK w \in Worker : DebitCreditType(w) /\ req[w].ledger = l /\ b = CreditPriority[req[w].i]
    BY <1>1, UsedRises
  <2>2. req[w].pc = "debit" /\ req[w].i \in 1 .. 3 /\ WalkAt(req[w], ledgers, credit_data)
    BY <1>1, <2>1 DEF DebitCreditType, InFlight, SerialInv, Walk
  <2>3. PICK j \in 1 .. 3 : j < req[w].i /\ c = CreditPriority[j]
    BY <2>1, <2>2, DearerComesFirst
  <2> QED BY <2>1, <2>2, <2>3 DEF WalkAt, Exhausted
<1> HIDE DEF Ordered
<1>2. ASSUME ~Threaded PROVE Spec => [][Ordered]_vars
  BY <1>1, <1>2, SerialInvariant, PTL DEF Spec
<1> QED BY <1>2 DEF PriorityRespected, Ordered

------------------------------------------------------------------------------
(* The bill a payment is for, one request at a time, where the statements  *)
(* come from the detail and payments endpoints.  While the flat credit is  *)
(* being taken the bill is not yet the statement's, but it is the object   *)
(* the request will update.                                                *)

BillsMatch ==
    /\ \A w \in Worker : req[w].pc = "flatDebit" => billing_data.owner = w /\ credit_data # NoLedger
    /\ \A w \in Worker : req[w].pc \in {"scan", "debit", "store"} => req[w].op = "payments"
    /\ (\A w \in Worker : req[w].pc # "flatDebit") /\ quoted.given => billing_data.total = quoted.total

LEMMA BillsMatchNext ==
  ASSUME ~Threaded, "console" \notin Endpoint, TypeOK, SerialInv, BillsMatch, [Next]_vars
  PROVE  BillsMatch'
<1>0. CASE UNCHANGED vars
  BY <1>0 DEF vars, BillsMatch
<1>1. ASSUME NEW w \in Worker, BeginPaymentStatement(w) PROVE BillsMatch'
  <2>1. PICK charge : req' = [req EXCEPT ![w] = Entered("payments", charge)]
    BY <1>1 DEF BeginPaymentStatement, EnterApplyCredits, Entered
  <2>2. Entered("payments", charge).pc \in {"scan", "store"} /\ Entered("payments", charge).op = "payments"
    BY DEF Entered, Idle
  <2>3. UNCHANGED <<billing_data, quoted>> /\ AllIdle
    BY <1>1, SerialStart DEF BeginPaymentStatement
  <2> QED BY <2>1, <2>2, <2>3 DEF BillsMatch, AllIdle, TypeOK
<1>2. ASSUME NEW w \in Worker PROVE ~BeginConsoleStatement(w)
  BY DEF BeginConsoleStatement
<1>3. ASSUME NEW w \in Worker, BeginBillingDetail(w) PROVE BillsMatch'
  <2>1. PICK charge, n :
           /\ billing_data' = [owner |-> w, total |-> charge]
           /\ \/ quoted' = Quote(charge) /\ UNCHANGED req
              \/ credit_data # NoLedger /\ req' = [req EXCEPT ![w] = FlatRequest(charge, n)]
    <3>1. PICK charge \in Charge :
           LET rest == IF credit_data = NoLedger THEN 0 ELSE ledgers[credit_data]["FLAT"].rest
           IN  /\ billing_data' = [owner |-> w, total |-> charge]
               /\ \/ quoted' = Quote(charge) /\ UNCHANGED req
                  \/ rest > 0 /\ req' = [req EXCEPT ![w] = FlatRequest(charge, CreditToUse(rest, charge))]
      BY <1>3 DEF BeginBillingDetail, FlatRequest
    <3> QED BY <3>1
  <2>2. FlatRequest(charge, n).pc = "flatDebit"
    BY DEF FlatRequest, Idle
  <2>3. AllIdle /\ UNCHANGED credit_data
    BY <1>3, SerialStart DEF BeginBillingDetail
  <2>4. CASE quoted' = Quote(charge) /\ UNCHANGED req
    BY <2>1, <2>3, <2>4 DEF BillsMatch, AllIdle, Quote
  <2>5. CASE credit_data # NoLedger /\ req' = [req EXCEPT ![w] = FlatRequest(charge, n)]
    BY <2>1, <2>2, <2>3, <2>5 DEF BillsMatch, AllIdle, TypeOK
  <2> QED BY <2>1, <2>4, <2>5
<1>4. ASSUME NEW w \in Worker, BeginCalculation(w) PROVE BillsMatch'
  <2>1. PICK credits :
          req' = [req EXCEPT ![w] = [Idle EXCEPT
                     !.op = "calculate", !.pc = "load", !.credits = credits]]
    BY <1>4 DEF BeginCalculation
  <2>2. req'[w].pc = "load" /\ \A v \in Worker : v # w => req'[v] = req[v]
    BY <2>1 DEF TypeOK, Idle
  <2>3. AllIdle /\ UNCHANGED <<billing_data, quoted>>
    BY <1>4, SerialStart DEF BeginCalculation
  <2> QED BY <2>2, <2>3 DEF BillsMatch, AllIdle
<1>5. ASSUME NEW w \in Worker, req[w].pc \in {"scan", "debit"}, req'[w].pc \in {"scan", "debit", "store"},
             req'[w].op = req[w].op, \A v \in Worker : v # w => req'[v] = req[v],
             UNCHANGED <<billing_data, quoted, credit_data>>
      PROVE  BillsMatch'
  BY <1>5 DEF BillsMatch
<1>6. ASSUME NEW w \in Worker,
             SkipCreditType(w) \/ ReadCreditType(w) \/ DebitCreditType(w) \/ EndApplyCredits(w)
      PROVE  BillsMatch'
  <2>1. req[w] \in Request /\ req \in [Worker -> Request]
    BY DEF TypeOK
  <2>2. CASE SkipCreditType(w)
    BY <1>5, <2>1, <2>2 DEF SkipCreditType, Request
  <2>3. CASE ReadCreditType(w)
    BY <1>5, <2>1, <2>3 DEF ReadCreditType, Request
  <2>4. CASE DebitCreditType(w)
    BY <1>5, <2>1, <2>4 DEF DebitCreditType, Request
  <2>5. CASE EndApplyCredits(w)
    BY <1>5, <2>1, <2>5 DEF EndApplyCredits, Request
  <2> QED BY <1>6, <2>2, <2>3, <2>4, <2>5
<1>7. ASSUME NEW w \in Worker, req[w].pc # "idle", Finish(w)
      PROVE  \A v \in Worker : req'[v].pc = "idle"
  BY <1>7, SerialGoesOn DEF Finish, TypeOK, SerialInv, OthersIdle, Idle
<1>8. ASSUME NEW w \in Worker, AnswerStatement(w) PROVE BillsMatch'
  <2>1. req[w].op = "payments"
    BY <1>8 DEF AnswerStatement, BillsMatch
  <2>2. billing_data'.total = quoted'.total
    BY <1>8, <2>1 DEF AnswerStatement, Quote
  <2> QED BY <1>7, <1>8, <2>2 DEF AnswerStatement, BillsMatch
<1>9. ASSUME NEW w \in Worker, DebitFlat(w) PROVE BillsMatch'
  <2>1. billing_data.owner = w
    BY <1>9 DEF DebitFlat, BillsMatch
  <2>2. billing_data'.total = quoted'.total
    BY <1>9, <2>1 DEF DebitFlat, FinalBill, Quote
  <2> QED BY <1>7, <1>9, <2>2 DEF DebitFlat, BillsMatch
<1>10. ASSUME NEW w \in Worker PROVE ~DebitFlatFails(w)
  BY DEF DebitFlatFails, BillsMatch
<1>11. ASSUME NEW w \in Worker, LoadCredit(w) PROVE BillsMatch'
  <2>1. req'[w].pc = "load" /\ \A v \in Worker : v # w => req'[v] = req[v]
    BY <1>11 DEF LoadCredit, TypeOK, Request
  <2> QED BY <1>11, <2>1 DEF LoadCredit, BillsMatch
<1>12. ASSUME NEW w \in Worker, EndCalculation(w) PROVE BillsMatch'
  <2>1. \A v \in Worker : req[v].pc # "flatDebit"
    BY <1>12, SerialGoesOn DEF EndCalculation, SerialInv, OthersIdle
  <2> QED BY <1>7, <1>12, <2>1 DEF EndCalculation, BillsMatch
<1>13. ASSUME GrantCredit \/ CancelCredit PROVE BillsMatch'
  BY <1>13 DEF GrantCredit, CancelCredit, CanServe, AllIdle, BillsMatch
<1>14. ASSUME ResetTestData PROVE BillsMatch'
  BY <1>14 DEF ResetTestData, CanServe, AllIdle, BillsMatch, NoQuote
<1> QED
  BY <1>0, <1>1, <1>2, <1>3, <1>4, <1>6, <1>8, <1>9, <1>10, <1>11, <1>12, <1>13, <1>14
     DEF Next, Start, Continue

\* One request at a time, and without the console statement (which stores the
\* bill before its adjustments and credits), a payment is for what the last
\* statement showed.
THEOREM SerialPaysStatement ==
  ~Threaded /\ "console" \notin Endpoint => (Spec => []PaymentMatchesStatement)
<1>1. Init => BillsMatch
  BY DEF Init, BillsMatch, Idle, NoQuote
<1>2. ASSUME ~Threaded, "console" \notin Endpoint
      PROVE  TypeOK /\ SerialInv /\ BillsMatch /\ [Next]_vars => BillsMatch'
  BY <1>2, BillsMatchNext
<1>3. BillsMatch => PaymentMatchesStatement
  BY DEF BillsMatch, PaymentMatchesStatement, AllIdle, make_payment_amount
<1>4. ASSUME ~Threaded, "console" \notin Endpoint PROVE Spec => []PaymentMatchesStatement
  BY <1>1, <1>2, <1>3, <1>4, SerialInvariant, PTL DEF Spec
<1> QED BY <1>4

------------------------------------------------------------------------------
(* Refinement: one request at a time, the figures of the account's dict    *)
(* behave as a credit account.  Every step reopens the account, loads,     *)
(* spends or hands back to one bucket, or leaves its figures alone.        *)

LEMMA FigureType == ASSUME TypeOK, NEW b \in Bucket PROVE Figure(b) \in Account
<1>1. Granted(0) \in Account
  BY AccountTypes
<1>2. credit_data # NoLedger => credit_data \in LedgerId
  BY MaxLedgersAssumption DEF TypeOK, LedgerId, NoLedger
<1> QED BY <1>1, <1>2 DEF TypeOK, Figure

\* Nothing happens to the figures, or they start afresh: a stutter, a Reopen.
LEMMA FiguresStay ==
  ASSUME UNCHANGED <<credit_data, ledgers, discounted>> PROVE UNCHANGED Abstract!account
BY DEF Figure, Abstract!account

LEMMA FiguresReopen ==
  ASSUME \A b \in Bucket : Figure(b)' \in Account /\ Figure(b)'.used = 0, UNCHANGED discounted
  PROVE  Abstract!Reopen
<1>1. [b \in Bucket |-> Figure(b).total]' \in [Bucket -> Int]
  BY DEF Account
<1>2. [b \in Bucket |-> Figure(b).used]' = [b \in Bucket |-> 0]
  OBVIOUS
<1> QED BY <1>1, <1>2 DEF Abstract!Reopen, Abstract!Nothing

\* A new dict with nothing used reopens the account.
LEMMA InstallReopens ==
  ASSUME TypeOK, TypeOK', NEW shape, NEW a, \A b \in Bucket : a[b].used = 0, Install(shape, a),
         UNCHANGED discounted
  PROVE  Abstract!Reopen
<1>1. \A b \in Bucket : Figure(b)' \in Account
  <2> SUFFICES ASSUME NEW b \in Bucket PROVE Figure(b)' \in Account
    OBVIOUS
  <2>1. credit_data' \in LedgerId \cup {NoLedger} /\ ledgers' \in [LedgerId -> [Bucket -> Account]]
    BY MaxLedgersAssumption DEF TypeOK, LedgerId, NoLedger
  <2> QED BY <2>1, AccountTypes DEF Figure
<1>2. \A b \in Bucket : Figure(b)' = a[b]
  BY MaxLedgersAssumption DEF Install, Figure, TypeOK, LedgerId, NoLedger
<1>3. \A b \in Bucket : Figure(b)'.used = 0
  BY <1>2
<1> QED BY <1>1, <1>3, FiguresReopen

\* One bucket of the account's dict changes: by a loading, a Load; by a debit
\* within what it has left, a Spend; by one below 0, a HandBack.
LEMMA FigureChanges ==
  ASSUME TypeOK, credit_data \in LedgerId, NEW b \in Bucket, NEW a \in Account,
         UNCHANGED credit_data, ledgers' = [ledgers EXCEPT ![credit_data][b] = a]
  PROVE  /\ Figure(b)' = a /\ Figure(b) = ledgers[credit_data][b]
         /\ \A c \in Bucket : c # b => Figure(c)' = Figure(c)
BY DEF TypeOK, Figure, LedgerId, NoLedger

LEMMA BucketLoads ==
  ASSUME TypeOK, NEW b \in Bucket, Figure(b)' \in Account, Figure(b).used = 0,
         \A c \in Bucket : c # b => Figure(c)' = Figure(c),
         Figure(b)'.used = Figure(b).used, UNCHANGED discounted
  PROVE  Abstract!Load(b)
<1> DEFINE lim == [c \in Bucket |-> Figure(c).total]
           spt == [c \in Bucket |-> Figure(c).used]
<1>1. lim' = [lim EXCEPT ![b] = lim'[b]]
  OBVIOUS
<1>2. lim'[b] \in Int /\ spt[b] = 0
  BY DEF Account
<1>3. spt' = spt
  OBVIOUS
<1> QED BY <1>1, <1>2, <1>3 DEF Abstract!Load

LEMMA BucketGives ==
  ASSUME TypeOK, NEW b \in Bucket, NEW n \in Int,
         \A c \in Bucket : c # b => Figure(c)' = Figure(c),
         Figure(b)'.total = Figure(b).total, Figure(b)'.used = Figure(b).used + n,
         discounted' = discounted + n
  PROVE  /\ n > 0 /\ Figure(b).used + n <= Figure(b).total => Abstract!Spend(b)
         /\ n < 0 /\ b = "FLAT" /\ Figure(b).used < Figure(b).total => Abstract!HandBack(b)
<1> DEFINE lim == [c \in Bucket |-> Figure(c).total]
           spt == [c \in Bucket |-> Figure(c).used]
<1>1. discounted \in Int /\ discounted' - discounted = n /\ Figure(b).used \in Int
  BY FigureType DEF TypeOK, Account
<1>2. spt' = [spt EXCEPT ![b] = @ + n]
  OBVIOUS
<1>3. lim' = lim
  OBVIOUS
<1>4. Abstract!Give(b, discounted' - discounted)
  BY <1>1, <1>2, <1>3 DEF Abstract!Give
<1>5. spt[b] = Figure(b).used /\ lim[b] = Figure(b).total
  OBVIOUS
<1> HIDE DEF lim, spt
<1>6. ASSUME n > 0, Figure(b).used + n <= Figure(b).total PROVE Abstract!Spend(b)
  <2>1. discounted' > discounted /\ spt[b] + (discounted' - discounted) <= lim[b]
    BY <1>1, <1>5, <1>6
  <2> QED BY <1>4, <2>1 DEF Abstract!Spend, spt, lim
<1>7. ASSUME n < 0, b = "FLAT", Figure(b).used < Figure(b).total PROVE Abstract!HandBack(b)
  <2>1. discounted' < discounted /\ spt[b] < lim[b] /\ b \in {"FLAT"}
    BY <1>1, <1>5, <1>7
  <2> QED BY <1>4, <2>1 DEF Abstract!HandBack, spt, lim
<1> QED BY <1>6, <1>7

LEMMA AccountStep ==
  ASSUME ~Threaded, TypeOK, TypeOK', InFlight, SerialInv, [Next]_vars
  PROVE  [Abstract!Next]_(Abstract!account)
<1>0. ASSUME UNCHANGED <<credit_data, ledgers, discounted>> PROVE UNCHANGED Abstract!account
  BY <1>0, FiguresStay
<1>1. CASE UNCHANGED vars
  BY <1>0, <1>1 DEF vars
<1>2. ASSUME NEW w \in Worker,
             \/ BeginPaymentStatement(w) \/ BeginConsoleStatement(w) \/ BeginBillingDetail(w)
             \/ SkipCreditType(w) \/ ReadCreditType(w) \/ EndApplyCredits(w)
             \/ AnswerStatement(w) \/ DebitFlatFails(w) \/ EndCalculation(w)
      PROVE  UNCHANGED Abstract!account
  BY <1>0, <1>2 DEF BeginPaymentStatement, BeginConsoleStatement, BeginBillingDetail, SkipCreditType,
     ReadCreditType, EndApplyCredits, AnswerStatement, DebitFlatFails, EndCalculation
\* A debit of the loop spends.
<1>3. ASSUME NEW w \in Worker, DebitCreditType(w) PROVE Abstract!Next
  <2>0. PICK b \in Bucket : b = CreditPriority[req[w].i]
    BY <1>3, PriorityTypes DEF DebitCreditType, InFlight
  <2> DEFINE a == ledgers[credit_data][b]
             n == req[w].use
  <2>1. /\ req[w] \in Request /\ req[w].i \in 1 .. 3 /\ req[w].ledger = credit_data
        /\ credit_data \in LedgerId /\ n \in Int
    <3>1. req[w] \in Request /\ req[w].pc = "debit"
      BY <1>3 DEF DebitCreditType, TypeOK
    <3>2. req[w].i \in 1 .. 3 /\ req[w].ledger \in 1 .. allocated
      BY <3>1 DEF InFlight
    <3>3. req[w].ledger = credit_data
      BY <3>1 DEF SerialInv, Walk, WalkAt
    <3>4. credit_data \in LedgerId
      BY <3>2, <3>3, MaxLedgersAssumption DEF TypeOK, LedgerId
    <3>5. n \in Int
      BY <3>1 DEF Request
    <3> QED BY <3>1, <3>2, <3>3, <3>4, <3>5
  <2>2. a \in Account /\ Sound(a)
    BY <2>1 DEF TypeOK, SerialInv, AllSound
  <2>3. n > 0 /\ n <= a.rest
    <3>1. n = CreditToUse(a.rest, req[w].left) /\ a.rest > 0 /\ req[w].left > 0
      BY <1>3, <2>0, <2>1 DEF DebitCreditType, SerialInv, Walk, WalkAt
    <3>2. a.rest \in Int /\ req[w].left \in Int
      BY <2>1, <2>2 DEF Account, Request
    <3> HIDE DEF a, n
    <3> QED BY <3>1, <3>2, UsesUp
  <2>4. ledgers' = [ledgers EXCEPT ![credit_data][b] = Debited(a, n)] /\ UNCHANGED credit_data
        /\ discounted' = discounted + n
    BY <1>3, <2>0, <2>1 DEF DebitCreditType
  <2> HIDE DEF n
  <2>5. Debited(a, n) \in Account
    BY <2>1, <2>2, AccountTypes
  <2>6. /\ Figure(b)' = Debited(a, n) /\ Figure(b) = a
        /\ \A c \in Bucket : c # b => Figure(c)' = Figure(c)
    BY <2>1, <2>4, <2>5, FigureChanges
  <2> HIDE DEF a
  <2>7. /\ Debited(a, n).total = a.total /\ Debited(a, n).used = a.used + n
        /\ a.used + n <= a.total
    BY <2>1, <2>2, <2>3 DEF Debited, Sound, Balanced, Account
  <2>8. Abstract!Spend(b)
    BY <2>1, <2>3, <2>4, <2>6, <2>7, BucketGives
  <2> QED BY <2>8 DEF Abstract!Next
\* So does a debit of the flat credit, unless there was nothing to take, or the
\* charge was negative and it is handed back.
<1>4. ASSUME NEW w \in Worker, DebitFlat(w) PROVE [Abstract!Next]_(Abstract!account)
  <2> DEFINE a == ledgers[credit_data]["FLAT"]
             n == req[w].use
  <2>1. /\ credit_data \in LedgerId /\ "FLAT" \in Bucket /\ n \in Int
        /\ a \in Account /\ Sound(a)
    BY <1>4, MaxLedgersAssumption
    DEF DebitFlat, TypeOK, Request, LedgerId, NoLedger, Bucket, SerialInv, AllSound
  <2>2. n <= a.rest /\ a.rest > 0
    BY <1>4 DEF DebitFlat, SerialInv, Walk, WalkAt
  <2>3. /\ ledgers' = [ledgers EXCEPT ![credit_data]["FLAT"] = DebitedFlat(a, n)]
        /\ UNCHANGED credit_data /\ discounted' = discounted + n
    BY <1>4 DEF DebitFlat
  <2> HIDE DEF n
  <2>4. DebitedFlat(a, n) \in Account
    BY <2>1, AccountTypes
  <2>5. /\ Figure("FLAT")' = DebitedFlat(a, n) /\ Figure("FLAT") = a
        /\ \A c \in Bucket : c # "FLAT" => Figure(c)' = Figure(c)
    BY <2>1, <2>3, <2>4, FigureChanges
  <2> HIDE DEF a
  <2>6. /\ DebitedFlat(a, n).total = a.total /\ DebitedFlat(a, n).used = a.used + n
        /\ a.used + n <= a.total /\ a.used < a.total
    BY <2>1, <2>2 DEF DebitedFlat, Sound, Balanced, Account
  <2>7. /\ n > 0 => Abstract!Spend("FLAT")
        /\ n < 0 => Abstract!HandBack("FLAT")
    BY <2>1, <2>3, <2>5, <2>6, BucketGives
  <2>8. CASE n = 0
    <3>1. DebitedFlat(a, n).used = a.used /\ UNCHANGED discounted
      BY <2>1, <2>3, <2>6, <2>8 DEF Account, TypeOK
    <3>2. \A c \in Bucket : Figure(c)'.total = Figure(c).total /\ Figure(c)'.used = Figure(c).used
      BY <2>5, <2>6, <3>1
    <3> QED BY <3>1, <3>2 DEF Abstract!account
  <2> QED BY <2>1, <2>7, <2>8 DEF Abstract!Next
\* Loading a credit of a calculation loads a bucket nothing is used of.
<1>5. ASSUME NEW w \in Worker, LoadCredit(w) PROVE [Abstract!Next]_(Abstract!account)
  <2>1. Head(req[w].credits) \in CreditItem /\ credit_data \in LedgerId
    BY <1>5, MaxLedgersAssumption DEF LoadCredit, TypeOK, Request, LedgerId, NoLedger
  <2>2. PICK b \in Bucket, n \in Int : b = Head(req[w].credits).type /\ n = Head(req[w].credits).amount
    BY <2>1, GrantAssumption DEF CreditItem, Bucket
  <2> DEFINE a == ledgers[credit_data][b]
  <2>3. a \in Account /\ a.used = 0
    BY <1>5, <2>1, <2>2 DEF LoadCredit, TypeOK, SerialInv, Walk, WalkAt
  <2>4. /\ \/ ledgers' = [ledgers EXCEPT ![credit_data][b] = Loaded(a, n)]
           \/ ledgers' = ledgers
        /\ UNCHANGED <<credit_data, discounted>>
    BY <1>5, <2>2 DEF LoadCredit
  <2>5. CASE ledgers' = ledgers
    BY <1>0, <2>4, <2>5
  <2>6. CASE ledgers' = [ledgers EXCEPT ![credit_data][b] = Loaded(a, n)]
    <3>1. Loaded(a, n) \in Account
      BY <2>2, <2>3, AccountTypes
    <3>2. /\ Figure(b)' = Loaded(a, n) /\ Figure(b) = a
          /\ \A c \in Bucket : c # b => Figure(c)' = Figure(c)
      BY <2>1, <2>2, <2>4, <2>6, <3>1, FigureChanges
    <3> HIDE DEF a
    <3>3. Loaded(a, n).used = a.used
      BY <2>2, <2>3, AccountTypes
    <3>4. Abstract!Load(b)
      BY <2>2, <2>3, <2>4, <3>1, <3>2, <3>3, BucketLoads
    <3> QED BY <2>2, <3>4 DEF Abstract!Next
  <2> QED BY <2>4, <2>5, <2>6
\* A new dict reopens, and so does losing the dict.
<1>6. \A n, b : b \in Bucket => EmptyByType[b].used = 0 /\ generate_credit_data(n)[b].used = 0
  BY DEF EmptyByType, generate_credit_data, Granted
<1>7. ASSUME NEW w \in Worker, BeginCalculation(w) PROVE Abstract!Reopen
  BY <1>6, <1>7, InstallReopens DEF BeginCalculation
<1>8. ASSUME GrantCredit PROVE Abstract!Reopen
  <2>1. (\E n : Install("flat", generate_credit_data(n))) /\ UNCHANGED discounted
    BY <1>8 DEF GrantCredit
  <2> QED BY <1>6, <2>1, InstallReopens
<1>9. ASSUME CancelCredit PROVE Abstract!Reopen
  BY <1>6, <1>9, InstallReopens DEF CancelCredit
<1>10. ASSUME ResetTestData PROVE Abstract!Reopen
  <2>1. \A b \in Bucket : Figure(b)' = Granted(0)
    BY <1>10 DEF ResetTestData, Figure
  <2>2. Granted(0) \in Account /\ Granted(0).used = 0
    BY DEF Granted, Account
  <2>3. \A b \in Bucket : Figure(b)' \in Account /\ Figure(b)'.used = 0
    BY <2>1, <2>2
  <2> QED BY <1>10, <2>3, FiguresReopen DEF ResetTestData
<1> QED
  BY <1>1, <1>2, <1>3, <1>4, <1>5, <1>7, <1>8, <1>9, <1>10
     DEF Next, Start, Continue, Abstract!Next

\* One request at a time, the mock server implements the credit account.
THEOREM SerialCreditAccount == ~Threaded => (Spec => ImplementsCreditAccount)
<1>1. Init => Abstract!Init
  <2> SUFFICES ASSUME Init PROVE Abstract!Init
    OBVIOUS
  <2>1. credit_data = NoLedger \/ (credit_data = 1 /\ 1 \in LedgerId)
    BY MaxLedgersAssumption DEF Init, LedgerId
  <2>2. \A b \in Bucket : Figure(b).total = 0 /\ Figure(b).used = 0
    BY <2>1 DEF Init, Figure, EmptyByType, Granted
  <2>3. discounted = 0
    BY DEF Init
  <2> QED BY <2>2, <2>3 DEF Abstract!Init, Abstract!Nothing
<1>2. ASSUME ~Threaded
      PROVE  TypeOK /\ TypeOK' /\ InFlight /\ SerialInv /\ [Next]_vars => [Abstract!Next]_(Abstract!account)
  BY <1>2, AccountStep
<1>3. ASSUME ~Threaded PROVE Spec => Abstract!Spec
  BY <1>1, <1>2, <1>3, SerialInvariant, PTL DEF Spec, Abstract!Spec
<1> QED BY <1>3 DEF ImplementsCreditAccount

------------------------------------------------------------------------------
(* How far overlapping requests can overdraw a type.  Take the thread that *)
(* was the last to read what the type had left.  What it decided to use    *)
(* was there when it read it, so whatever is missing since was taken by    *)
(* other threads, each at most once (it would have to read again to take   *)
(* again) and each at most the total.  The threads that can have done so   *)
(* are those, other than the last reader, that are not about to take.  This *)
(* is of grants that are not negative: the total then only grows.          *)

\* Request r is about to take r.use from bucket b of dict l.
Takes(r, l, b) == r.pc = "debit" /\ r.ledger = l /\ CreditPriority[r.i] = b
Pending(r, l, b) == IF Takes(r, l, b) THEN r.use ELSE 0

\* The threads other than last that are not about to take from the bucket.
Taken(l, b, last) == {w \in Worker \ {last} : ~Takes(req[w], l, b)}

Overdraft(l, b, last) ==
    ledgers[l][b].rest - Pending(req[last], l, b)
        >= -(Cardinality(Taken(l, b, last)) * ledgers[l][b].total)
OverdraftOf(l, b) ==
    /\ ledgers[l][b].total \in Nat
    /\ \A w \in Worker : Takes(req[w], l, b) =>
           req[w].use \in Nat /\ req[w].use <= ledgers[l][b].total
    /\ \E last \in Worker : Overdraft(l, b, last)
OverdraftInv == \A l \in LedgerId, b \in CreditType : OverdraftOf(l, b)

\* A few facts of arithmetic.
LEMMA Products ==
  ASSUME NEW c \in Nat, NEW t \in Nat, NEW n \in Nat
  PROVE  /\ c * t \in Nat /\ (c + 1) * t = c * t + t
         /\ c * t <= c * (t + n)
         /\ \A d \in Nat : c <= d => c * t <= d * t
<1>1. c * t \in Nat /\ (c + 1) * t = c * t + t
  OBVIOUS
<1>2. c * (t + n) = c * t + c * n /\ c * n \in Nat
  OBVIOUS
<1>3. ASSUME NEW d \in Nat, c <= d PROVE c * t <= d * t
  <2>1. PICK k \in Nat : d = c + k
    <3>1. d - c \in Nat /\ d = c + (d - c)
      BY <1>3
    <3> QED BY <3>1
  <2>2. d * t = c * t + k * t /\ k * t \in Nat
    BY <2>1
  <2> QED BY <1>1, <2>2
<1> QED BY <1>1, <1>2, <1>3

LEMMA TakenFinite ==
  ASSUME NEW l, NEW b, NEW last \in Worker
  PROVE  /\ IsFiniteSet(Taken(l, b, last)) /\ Cardinality(Taken(l, b, last)) \in Nat
         /\ Cardinality(Worker) - 1 \in Nat
         /\ Cardinality(Taken(l, b, last)) <= Cardinality(Worker) - 1
<1>1. IsFiniteSet(Worker \ {last}) /\ Cardinality(Worker \ {last}) = Cardinality(Worker) - 1
  BY WorkerAssumption, FS_RemoveElement
<1>2. Taken(l, b, last) \subseteq Worker \ {last}
  BY DEF Taken
<1>3. /\ IsFiniteSet(Taken(l, b, last))
      /\ Cardinality(Taken(l, b, last)) <= Cardinality(Worker \ {last})
  BY <1>1, <1>2, FS_Subset
<1>4. Cardinality(Taken(l, b, last)) \in Nat /\ Cardinality(Worker \ {last}) \in Nat
  BY <1>1, <1>3, FS_CardinalityType
<1> QED BY <1>1, <1>3, <1>4

\* Nobody comes to take from the bucket and nobody has taken: it is the same,
\* or more was loaded into it.
LEMMA OverdraftStays ==
  ASSUME TypeOK, TypeOK', NEW l \in LedgerId, NEW b \in CreditType, OverdraftOf(l, b),
         \A v \in Worker : /\ Takes(req'[v], l, b) <=> Takes(req[v], l, b)
                           /\ Takes(req[v], l, b) => req'[v].use = req[v].use,
         NEW n \in Nat, ledgers'[l][b].total = ledgers[l][b].total + n,
         ledgers'[l][b].rest = ledgers[l][b].rest + n
  PROVE  OverdraftOf(l, b)'
<1>1. ledgers[l][b] \in Account /\ ledgers'[l][b] \in Account
  BY PriorityTypes DEF TypeOK, Bucket
<1>2. ledgers[l][b].total \in Nat /\ ledgers[l][b].rest \in Int /\ ledgers'[l][b].total \in Nat
  BY <1>1 DEF Account, OverdraftOf
<1>3. \A v \in Worker : Takes(req[v], l, b) => req[v].use \in Nat
  BY DEF OverdraftOf
<1>4. \A w \in Worker : Takes(req'[w], l, b) =>
         req'[w].use \in Nat /\ req'[w].use <= ledgers'[l][b].total
  BY <1>2, <1>3 DEF OverdraftOf
<1>5. PICK last \in Worker : Overdraft(l, b, last)
  BY DEF OverdraftOf
<1>6. Taken(l, b, last)' = Taken(l, b, last)
  BY DEF Taken
<1>7. Pending(req'[last], l, b) = Pending(req[last], l, b) /\ Pending(req[last], l, b) \in Nat
  BY <1>3 DEF Pending
<1> DEFINE c == Cardinality(Taken(l, b, last))
<1>8. c \in Nat
  BY TakenFinite
<1>9. c' = c
  BY <1>6
<1>10. ledgers[l][b].rest - Pending(req[last], l, b) >= -(c * ledgers[l][b].total)
  BY <1>5 DEF Overdraft
<1> HIDE DEF c
<1>11. c * ledgers[l][b].total <= c * (ledgers[l][b].total + n) /\ c * ledgers[l][b].total \in Nat
  BY <1>2, <1>8, Products
<1>12. c * (ledgers[l][b].total + n) \in Nat
  BY <1>2, <1>8
<1>13. ledgers'[l][b].rest - Pending(req'[last], l, b) >= -(c * ledgers'[l][b].total)
  BY <1>2, <1>7, <1>10, <1>11, <1>12
<1>14. Overdraft(l, b, last)'
  BY <1>9, <1>13 DEF Overdraft, c
<1> QED BY <1>2, <1>4, <1>14 DEF OverdraftOf

\* A thread reads what the bucket has left: it is the last reader now, and
\* what it decided to use is there.
LEMMA OverdraftRead ==
  ASSUME TypeOK, TypeOK', AllBalanced, NEW w \in Worker, NEW l \in LedgerId, NEW b \in CreditType,
         OverdraftOf(l, b), Takes(req'[w], l, b),
         req'[w].use \in Nat, req'[w].use <= ledgers[l][b].rest,
         \A v \in Worker : v # w => req'[v] = req[v], UNCHANGED ledgers
  PROVE  OverdraftOf(l, b)'
<1>1. /\ ledgers[l][b].total \in Nat /\ ledgers[l][b].rest \in Int /\ ledgers[l][b].used \in Nat
      /\ ledgers[l][b].total = ledgers[l][b].used + ledgers[l][b].rest
  <2>1. ledgers[l][b] \in Account
    BY DEF TypeOK, Bucket
  <2>2. Balanced(ledgers[l][b])
    BY DEF AllBalanced
  <2>3. ledgers[l][b].used \in Nat /\ ledgers[l][b].total \in Nat
    BY DEF TypeOK, OverdraftOf
  <2> QED BY <2>1, <2>2, <2>3 DEF Account, Balanced
<1>2. req'[w].use \in Nat
  OBVIOUS
<1>3. req'[w].use <= ledgers[l][b].total
  BY <1>1, <1>2
<1>4. \A v \in Worker : Takes(req'[v], l, b) =>
         req'[v].use \in Nat /\ req'[v].use <= ledgers'[l][b].total
  BY <1>2, <1>3 DEF OverdraftOf
<1>5. Pending(req'[w], l, b) = req'[w].use
  BY DEF Pending
<1> DEFINE c == Cardinality(Taken(l, b, w)')
<1>6. c \in Nat
  <2>1. Taken(l, b, w)' \subseteq Worker
    BY DEF Taken
  <2>2. IsFiniteSet(Taken(l, b, w)')
    BY <2>1, WorkerAssumption, FS_Subset
  <2> QED BY <2>2, FS_CardinalityType
<1> HIDE DEF c
<1>7. c * ledgers[l][b].total \in Nat
  BY <1>1, <1>6
<1>8. ledgers'[l][b].rest - Pending(req'[w], l, b) >= -(c * ledgers'[l][b].total)
  BY <1>1, <1>2, <1>5, <1>7
<1>9. Overdraft(l, b, w)'
  BY <1>8 DEF Overdraft, c
<1> QED BY <1>1, <1>4, <1>9 DEF OverdraftOf

\* A thread takes what it decided to use.  If it is the last reader its part
\* was counted; if not, it is one more of those that have taken.
LEMMA OverdraftDebit ==
  ASSUME TypeOK, TypeOK', NEW w \in Worker, NEW l \in LedgerId, NEW b \in CreditType,
         OverdraftOf(l, b), Takes(req[w], l, b), ~Takes(req'[w], l, b),
         \A v \in Worker : v # w => req'[v] = req[v],
         ledgers'[l][b] = Debited(ledgers[l][b], req[w].use)
  PROVE  OverdraftOf(l, b)'
<1> DEFINE n == req[w].use
           t == ledgers[l][b].total
           rest == ledgers[l][b].rest
<1>1. t \in Nat /\ rest \in Int /\ n \in Nat /\ ledgers[l][b] \in Account
  <2>1. ledgers[l][b] \in Account
    BY DEF TypeOK, Bucket
  <2>2. req[w].use \in Nat /\ ledgers[l][b].total \in Nat
    BY DEF OverdraftOf
  <2> QED BY <2>1, <2>2 DEF Account
<1>2. ledgers'[l][b].total = t /\ ledgers'[l][b].rest = rest - n
  BY <1>1 DEF Debited, Account
<1>3. n <= t
  BY DEF OverdraftOf
<1>4. /\ ledgers'[l][b].total \in Nat
      /\ \A v \in Worker : Takes(req'[v], l, b) =>
            req'[v].use \in Nat /\ req'[v].use <= ledgers'[l][b].total
  BY <1>1, <1>2 DEF OverdraftOf
<1>5. PICK last \in Worker : Overdraft(l, b, last)
  BY DEF OverdraftOf
<1> DEFINE c == Cardinality(Taken(l, b, last))
           d == Cardinality(Taken(l, b, last)')
<1>6. c \in Nat /\ IsFiniteSet(Taken(l, b, last))
  BY TakenFinite
<1>7. rest - Pending(req[last], l, b) >= -(c * t)
  BY <1>5 DEF Overdraft
<1>8. Pending(req[w], l, b) = n /\ Pending(req'[w], l, b) = 0 /\ Pending(req[last], l, b) \in Nat
  BY DEF Pending, OverdraftOf
<1>9. CASE last = w
  <2>1. Taken(l, b, last)' = Taken(l, b, last)
    BY <1>9 DEF Taken
  <2>2. d = c
    BY <2>1
  <2> HIDE DEF c, d, t, rest, n
  <2>3. c * t \in Nat
    BY <1>1, <1>6
  <2>4. rest - n - Pending(req'[last], l, b) >= -(d * t)
    BY <1>1, <1>7, <1>8, <1>9, <2>2, <2>3
  <2>5. Overdraft(l, b, last)'
    BY <1>2, <2>4 DEF Overdraft, d
  <2> QED BY <1>4, <2>5 DEF OverdraftOf
<1>10. CASE last # w
  <2>1. Taken(l, b, last)' = Taken(l, b, last) \cup {w} /\ w \notin Taken(l, b, last)
    BY <1>10 DEF Taken
  <2>2. d = c + 1
    BY <1>6, <2>1, FS_AddElement
  <2>3. Pending(req'[last], l, b) = Pending(req[last], l, b)
    BY <1>10
  <2> HIDE DEF c, d, t, rest, n
  <2>4. d * t = c * t + t /\ c * t \in Nat
    BY <1>1, <1>6, <2>2, Products
  <2>5. rest - n - Pending(req'[last], l, b) >= -(d * t)
    BY <1>1, <1>3, <1>7, <1>8, <2>3, <2>4
  <2>6. Overdraft(l, b, last)'
    BY <1>2, <2>5 DEF Overdraft, d
  <2> QED BY <1>4, <2>6 DEF OverdraftOf
<1> QED BY <1>9, <1>10

\* A dict nobody holds yet, with nothing used.
LEMMA OverdraftNew ==
  ASSUME TypeOK, TypeOK', InFlight', NEW l \in LedgerId, NEW b \in CreditType,
         \A w \in Worker : ~Takes(req'[w], l, b), ledgers'[l][b].rest >= 0,
         ledgers'[l][b].total \in Nat
  PROVE  OverdraftOf(l, b)'
<1>1. PICK w : w \in Worker
  BY WorkerAssumption
<1>2. ledgers'[l][b].total \in Nat /\ ledgers'[l][b].rest \in Int
  BY PriorityTypes DEF TypeOK, Bucket, Account
<1> DEFINE c == Cardinality(Taken(l, b, w)')
<1>3. c \in Nat
  <2>1. Taken(l, b, w)' \subseteq Worker
    BY DEF Taken
  <2>2. IsFiniteSet(Taken(l, b, w)')
    BY <2>1, WorkerAssumption, FS_Subset
  <2> QED BY <2>2, FS_CardinalityType
<1> HIDE DEF c
<1>4. c * ledgers'[l][b].total \in Nat
  BY <1>2, <1>3
<1>5. Pending(req'[w], l, b) = 0
  BY <1>1 DEF Pending
<1>6. ledgers'[l][b].rest - Pending(req'[w], l, b) >= -(c * ledgers'[l][b].total)
  BY <1>2, <1>4, <1>5
<1>7. Overdraft(l, b, w)'
  BY <1>6 DEF Overdraft, c
<1> QED BY <1>1, <1>2, <1>7 DEF OverdraftOf

\* A request that is not about to take, before the step and after it.
LEMMA TakesSame ==
  ASSUME NEW w \in Worker, \A v \in Worker : v # w => req'[v] = req[v],
         req[w].pc # "debit", req'[w].pc # "debit", NEW l, NEW b, NEW v \in Worker
  PROVE  /\ Takes(req'[v], l, b) <=> Takes(req[v], l, b)
         /\ Takes(req[v], l, b) => req'[v].use = req[v].use
BY DEF Takes

\* No thread comes to take or has taken anything from a bucket.
SameTakes ==
    \A v \in Worker : \A l, b :
        /\ Takes(req'[v], l, b) <=> Takes(req[v], l, b)
        /\ Takes(req[v], l, b) => req'[v].use = req[v].use

\* A dict is created; what the threads are about to take is from others.
LEMMA OverdraftInstall ==
  ASSUME TypeOK, TypeOK', InFlight, InFlight', OverdraftInv, NEW shape,
         NEW a, \A b \in CreditType : a[b] = Granted(0), Install(shape, a),
         SameTakes
  PROVE  OverdraftInv'
<1> SUFFICES ASSUME NEW l \in LedgerId, NEW b \in CreditType PROVE OverdraftOf(l, b)'
  BY DEF OverdraftInv
<1>1. CASE l = allocated + 1
  <2>1. \A v \in Worker : ~Takes(req[v], l, b)
    BY <1>1 DEF InFlight, Takes, TypeOK
  <2>3. \A v \in Worker : ~Takes(req'[v], l, b)
    BY <2>1 DEF SameTakes
  <2>2. ledgers'[l][b].rest >= 0 /\ ledgers'[l][b].total \in Nat
    <3>1. ledgers'[l][b] = Granted(0)
      BY <1>1 DEF Install, TypeOK
    <3> QED BY <3>1 DEF Granted
  <2> QED BY <2>2, <2>3, OverdraftNew
<1>2. CASE l # allocated + 1
  <2>1. ledgers'[l] = ledgers[l]
    BY <1>2 DEF Install, TypeOK
  <2>2. ledgers[l][b].total \in Nat /\ ledgers[l][b].rest \in Int /\ OverdraftOf(l, b)
    BY DEF TypeOK, Bucket, Account, OverdraftInv, OverdraftOf
  <2>3. /\ ledgers'[l][b].total = ledgers[l][b].total + 0
        /\ ledgers'[l][b].rest = ledgers[l][b].rest + 0
    BY <2>1, <2>2
  <2> QED BY <2>2, <2>3, OverdraftStays DEF SameTakes
<1> QED BY <1>1, <1>2

\* No dict and no pending take changes.
LEMMA OverdraftQuiet ==
  ASSUME TypeOK, TypeOK', OverdraftInv, UNCHANGED ledgers,
         SameTakes
  PROVE  OverdraftInv'
<1> SUFFICES ASSUME NEW l \in LedgerId, NEW b \in CreditType PROVE OverdraftOf(l, b)'
  BY DEF OverdraftInv
<1>1. ledgers[l][b].total \in Nat /\ ledgers[l][b].rest \in Int /\ OverdraftOf(l, b)
  BY DEF TypeOK, Bucket, Account, OverdraftInv, OverdraftOf
<1>2. /\ ledgers'[l][b].total = ledgers[l][b].total + 0
      /\ ledgers'[l][b].rest = ledgers[l][b].rest + 0
  BY <1>1
<1> QED BY <1>1, <1>2, OverdraftStays DEF SameTakes

LEMMA OverdraftNext ==
  ASSUME Grant \subseteq Nat, TypeOK, TypeOK', InFlight, InFlight', AllBalanced, OverdraftInv, [Next]_vars
  PROVE  OverdraftInv'
<1>0. ASSUME UNCHANGED req PROVE SameTakes
  BY <1>0 DEF SameTakes
<1>1. ASSUME NEW w \in Worker, NEW r, req' = [req EXCEPT ![w] = r], req[w].pc # "debit", r.pc # "debit"
      PROVE  SameTakes
  <2>1. req'[w] = r /\ \A v \in Worker : v # w => req'[v] = req[v]
    BY <1>1 DEF TypeOK
  <2> QED BY <1>1, <2>1, TakesSame DEF SameTakes
<1>2. CASE UNCHANGED vars
  BY <1>0, <1>2, OverdraftQuiet DEF vars
<1>3. ASSUME NEW w \in Worker, NEW op, NEW charge, CanStart(w), EnterApplyCredits(w, op, charge), UNCHANGED ledgers
      PROVE  OverdraftInv'
  <2>1. req' = [req EXCEPT ![w] = Entered(op, charge)]
    BY <1>3 DEF EnterApplyCredits, Entered
  <2>2. Entered(op, charge).pc # "debit"
    BY DEF Entered, Idle
  <2> QED BY <1>1, <1>3, <2>1, <2>2, OverdraftQuiet DEF CanStart
<1>4. ASSUME NEW w \in Worker, BeginPaymentStatement(w) \/ BeginConsoleStatement(w) PROVE OverdraftInv'
  BY <1>3, <1>4 DEF BeginPaymentStatement, BeginConsoleStatement
<1>5. ASSUME NEW w \in Worker, BeginBillingDetail(w) PROVE OverdraftInv'
  <2>1. PICK charge, n : UNCHANGED req \/ req' = [req EXCEPT ![w] = FlatRequest(charge, n)]
    BY <1>5 DEF BeginBillingDetail, FlatRequest
  <2>2. FlatRequest(charge, n).pc # "debit"
    BY DEF FlatRequest, Idle
  <2>3. SameTakes
    BY <1>0, <1>1, <1>5, <2>1, <2>2 DEF BeginBillingDetail, CanStart
  <2> QED BY <1>5, <2>3, OverdraftQuiet DEF BeginBillingDetail
<1>6. ASSUME NEW w \in Worker, BeginCalculation(w) PROVE OverdraftInv'
  <2>1. PICK credits :
          req' = [req EXCEPT ![w] = [Idle EXCEPT
                     !.op = "calculate", !.pc = "load", !.credits = credits]]
    BY <1>6 DEF BeginCalculation
  <2>2. [Idle EXCEPT !.op = "calculate", !.pc = "load", !.credits = credits].pc # "debit"
    BY DEF Idle
  <2>3. SameTakes
    BY <1>1, <1>6, <2>1, <2>2 DEF BeginCalculation, CanStart
  <2>4. \A b \in CreditType : EmptyByType[b] = Granted(0)
    BY DEF EmptyByType, Bucket
  <2> QED BY <1>6, <2>3, <2>4, OverdraftInstall DEF BeginCalculation
<1>7. ASSUME NEW w \in Worker, SkipCreditType(w) \/ EndApplyCredits(w) PROVE OverdraftInv'
  <2>1. PICK r : req' = [req EXCEPT ![w] = r] /\ r.pc # "debit"
    <3>1. CASE SkipCreditType(w)
      <4>1. [req[w] EXCEPT !.i = @ + 1].pc # "debit" /\ req' = [req EXCEPT ![w] = [req[w] EXCEPT !.i = @ + 1]]
        BY <3>1 DEF SkipCreditType, TypeOK, Request
      <4> QED BY <4>1
    <3>2. CASE EndApplyCredits(w)
      <4>1. [req[w] EXCEPT !.pc = "store"].pc # "debit" /\ req' = [req EXCEPT ![w] = [req[w] EXCEPT !.pc = "store"]]
        BY <3>2 DEF EndApplyCredits, TypeOK, Request
      <4> QED BY <4>1
    <3> QED BY <1>7, <3>1, <3>2
  <2>2. SameTakes
    BY <1>1, <1>7, <2>1 DEF SkipCreditType, EndApplyCredits
  <2> QED BY <1>7, <2>2, OverdraftQuiet DEF SkipCreditType, EndApplyCredits
<1>8. ASSUME NEW w \in Worker, ReadCreditType(w) PROVE OverdraftInv'
  <2>1. PICK lw \in LedgerId, bw \in CreditType : lw = req[w].ledger /\ bw = CreditPriority[req[w].i]
    <3>1. req[w].i \in 1 .. 3 /\ req[w].ledger \in LedgerId
      BY <1>8, PriorityTypes, MaxLedgersAssumption
      DEF ReadCreditType, TypeOK, InFlight, Request, PastLastType, LedgerId
    <3> QED BY <3>1, PriorityTypes
  <2> DEFINE n == CreditToUse(ledgers[lw][bw].rest, req[w].left)
  <2>2. req' = [req EXCEPT ![w] = Reading(req[w], n)] /\ req[w].pc = "scan" /\ UNCHANGED ledgers
    BY <1>8, <2>1 DEF ReadCreditType, TypeOK, Reading, Looking
  <2>3. n \in Nat /\ n <= ledgers[lw][bw].rest
    <3>0. ledgers[lw][bw] \in Account /\ req[w] \in Request
      BY DEF TypeOK, Bucket
    <3>1. ledgers[lw][bw].rest \in Int /\ req[w].left \in Int
      BY <3>0 DEF Account, Request
    <3>2. ledgers[lw][bw].rest > 0 /\ req[w].left > 0
      BY <1>8, <2>1, <3>1 DEF ReadCreditType, Looking, Covered
    <3> QED BY <3>1, <3>2, UsesUp
  <2> HIDE DEF n
  <2>4. /\ Reading(req[w], n).pc = "debit" /\ Reading(req[w], n).use = n
        /\ Reading(req[w], n).i = req[w].i /\ Reading(req[w], n).ledger = req[w].ledger
    BY DEF Reading, TypeOK, Request
  <2>5. req'[w] = Reading(req[w], n) /\ \A v \in Worker : v # w => req'[v] = req[v]
    BY <2>2 DEF TypeOK
  <2> SUFFICES ASSUME NEW l \in LedgerId, NEW b \in CreditType PROVE OverdraftOf(l, b)'
    BY DEF OverdraftInv
  <2>6. OverdraftOf(l, b)
    BY DEF OverdraftInv
  <2>7. CASE l = lw /\ b = bw
    <3>1. Takes(req'[w], l, b) /\ req'[w].use \in Nat /\ req'[w].use <= ledgers[l][b].rest
      BY <2>1, <2>3, <2>4, <2>5, <2>7 DEF Takes
    <3> QED BY <2>2, <2>5, <2>6, <3>1, OverdraftRead
  <2>8. CASE ~(l = lw /\ b = bw)
    <3>1. ~Takes(req'[w], l, b) /\ ~Takes(req[w], l, b)
      BY <2>1, <2>2, <2>4, <2>5, <2>8 DEF Takes
    <3>2. ledgers[l][b].total \in Int /\ ledgers[l][b].rest \in Int
      BY DEF TypeOK, Bucket, Account
    <3>3. /\ ledgers'[l][b].total = ledgers[l][b].total + 0
          /\ ledgers'[l][b].rest = ledgers[l][b].rest + 0
      BY <2>2, <3>2
    <3>4. \A v \in Worker : /\ Takes(req'[v], l, b) <=> Takes(req[v], l, b)
                            /\ Takes(req[v], l, b) => req'[v].use = req[v].use
      BY <2>5, <3>1
    <3> QED BY <2>6, <3>3, <3>4, OverdraftStays
  <2> QED BY <2>7, <2>8
<1>9. ASSUME NEW w \in Worker, DebitCreditType(w) PROVE OverdraftInv'
  <2>1. PICK lw \in LedgerId, bw \in CreditType : lw = req[w].ledger /\ bw = CreditPriority[req[w].i]
    <3>1. req[w].i \in 1 .. 3 /\ req[w].ledger \in LedgerId
      BY <1>9, DebitTypes DEF DebitCreditType
    <3> QED BY <3>1, PriorityTypes
  <2>2. /\ req' = [req EXCEPT ![w] = AfterDebit(req[w])] /\ req[w].pc = "debit"
        /\ ledgers' = [ledgers EXCEPT ![lw][bw] = Debited(@, req[w].use)]
    BY <1>9, <2>1 DEF DebitCreditType, TypeOK, AfterDebit
  <2>3. AfterDebit(req[w]).pc = "scan"
    BY DEF AfterDebit, TypeOK, Request
  <2>4. req'[w].pc = "scan" /\ \A v \in Worker : v # w => req'[v] = req[v]
    BY <2>2, <2>3 DEF TypeOK
  <2> SUFFICES ASSUME NEW l \in LedgerId, NEW b \in CreditType PROVE OverdraftOf(l, b)'
    BY DEF OverdraftInv
  <2>5. OverdraftOf(l, b) /\ ~Takes(req'[w], l, b)
    BY <2>4 DEF OverdraftInv, Takes
  <2>6. CASE l = lw /\ b = bw
    <3>1. Takes(req[w], l, b)
      BY <2>1, <2>2, <2>6 DEF Takes
    <3>2. ledgers'[l][b] = Debited(ledgers[l][b], req[w].use)
      BY <2>2, <2>6 DEF TypeOK, Bucket
    <3> QED BY <2>4, <2>5, <3>1, <3>2, OverdraftDebit
  <2>7. CASE ~(l = lw /\ b = bw)
    <3>1. ~Takes(req[w], l, b)
      BY <2>1, <2>7 DEF Takes
    <3>2. ledgers'[l][b] = ledgers[l][b]
      BY <2>2, <2>7 DEF TypeOK, Bucket
    <3>3. ledgers[l][b].total \in Int /\ ledgers[l][b].rest \in Int
      BY DEF TypeOK, Bucket, Account
    <3>4. /\ ledgers'[l][b].total = ledgers[l][b].total + 0
          /\ ledgers'[l][b].rest = ledgers[l][b].rest + 0
      BY <3>2, <3>3
    <3>5. \A v \in Worker : /\ Takes(req'[v], l, b) <=> Takes(req[v], l, b)
                            /\ Takes(req[v], l, b) => req'[v].use = req[v].use
      BY <2>4, <2>5, <3>1
    <3> QED BY <2>5, <3>4, <3>5, OverdraftStays
  <2> QED BY <2>6, <2>7
<1>10. ASSUME NEW w \in Worker, req[w].pc # "debit", Finish(w) PROVE SameTakes
  <2>1. Idle.pc # "debit"
    BY DEF Idle
  <2> QED BY <1>1, <1>10, <2>1 DEF Finish
<1>11. ASSUME NEW w \in Worker, AnswerStatement(w) \/ DebitFlatFails(w) \/ EndCalculation(w) PROVE OverdraftInv'
  <2>1. SameTakes
    BY <1>10, <1>11 DEF AnswerStatement, DebitFlatFails, EndCalculation
  <2> QED BY <1>11, <2>1, OverdraftQuiet DEF AnswerStatement, DebitFlatFails, EndCalculation
<1>12. ASSUME SameTakes,
              \A l \in LedgerId, b \in CreditType : \E n \in Nat :
                  /\ ledgers'[l][b].total = ledgers[l][b].total + n
                  /\ ledgers'[l][b].rest = ledgers[l][b].rest + n
       PROVE  OverdraftInv'
  BY <1>12, OverdraftStays DEF OverdraftInv, SameTakes
<1>13. ASSUME NEW l \in LedgerId, NEW b \in CreditType, ledgers'[l][b] = ledgers[l][b]
       PROVE  \E n \in Nat : /\ ledgers'[l][b].total = ledgers[l][b].total + n
                             /\ ledgers'[l][b].rest = ledgers[l][b].rest + n
  <2>1. ledgers[l][b].total \in Int /\ ledgers[l][b].rest \in Int
    BY DEF TypeOK, Bucket, Account
  <2>2. /\ ledgers'[l][b].total = ledgers[l][b].total + 0
        /\ ledgers'[l][b].rest = ledgers[l][b].rest + 0
    BY <1>13, <2>1
  <2> QED BY <2>2
<1>14. ASSUME NEW w \in Worker, DebitFlat(w) PROVE OverdraftInv'
  <2>1. SameTakes
    BY <1>10, <1>14 DEF DebitFlat
  <2>2. \A l \in LedgerId, b \in CreditType : ledgers'[l][b] = ledgers[l][b]
    BY <1>14, PriorityTypes DEF DebitFlat, TypeOK, Bucket
  <2> QED BY <1>12, <1>13, <2>1, <2>2
<1>15. ASSUME NEW w \in Worker, LoadCredit(w) PROVE OverdraftInv'
  <2>1. [req[w] EXCEPT !.credits = Tail(@)].pc = "load" /\ req' = [req EXCEPT ![w] = [req[w] EXCEPT !.credits = Tail(@)]]
    BY <1>15 DEF LoadCredit, TypeOK, Request
  <2>2. SameTakes
    BY <1>1, <1>15, <2>1 DEF LoadCredit
  <2>3. Head(req[w].credits) \in CreditItem /\ credit_data \in LedgerId
    BY <1>15, MaxLedgersAssumption DEF LoadCredit, TypeOK, Request, LedgerId, NoLedger
  <2>4. PICK t \in CreditType, m \in Nat : t = Head(req[w].credits).type /\ m = Head(req[w].credits).amount
    BY <2>3 DEF CreditItem
  <2>5. \/ ledgers' = [ledgers EXCEPT ![credit_data][t] = Loaded(ledgers[credit_data][t], m)]
        \/ ledgers' = ledgers
    BY <1>15, <2>4 DEF LoadCredit
  <2>6. ASSUME NEW l \in LedgerId, NEW b \in CreditType
        PROVE  \E n \in Nat : /\ ledgers'[l][b].total = ledgers[l][b].total + n
                              /\ ledgers'[l][b].rest = ledgers[l][b].rest + n
    <3>1. CASE ledgers'[l][b] = ledgers[l][b]
      BY <1>13, <3>1
    <3>2. CASE ledgers'[l][b] # ledgers[l][b]
      <4>1. ledgers'[l][b] = Loaded(ledgers[l][b], m)
        BY <2>3, <2>4, <2>5, <3>2 DEF TypeOK, Bucket
      <4>2. ledgers[l][b] \in Account
        BY DEF TypeOK, Bucket
      <4> QED BY <2>4, <4>1, <4>2 DEF Loaded, Account
    <3> QED BY <3>1, <3>2
  <2> QED BY <1>12, <2>2, <2>6
<1>16. ASSUME GrantCredit PROVE OverdraftInv'
  <2>1. PICK n : Install("flat", generate_credit_data(n))
    BY <1>16 DEF GrantCredit
  <2>2. \A b \in CreditType : generate_credit_data(n)[b] = Granted(0)
    BY TypesAreBuckets DEF generate_credit_data
  <2>3. SameTakes
    BY <1>0, <1>16 DEF GrantCredit
  <2> QED BY <2>1, <2>2, <2>3, OverdraftInstall
<1>17. ASSUME CancelCredit PROVE OverdraftInv'
  <2>1. \A b \in CreditType : generate_credit_data(0)[b] = Granted(0)
    BY TypesAreBuckets DEF generate_credit_data
  <2>2. SameTakes
    BY <1>0, <1>17 DEF CancelCredit
  <2> QED BY <1>17, <2>1, <2>2, OverdraftInstall DEF CancelCredit
<1>18. ASSUME ResetTestData PROVE OverdraftInv'
  BY <1>0, <1>18, OverdraftQuiet DEF ResetTestData
<1> QED
  BY <1>2, <1>4, <1>5, <1>6, <1>7, <1>8, <1>9, <1>11, <1>14, <1>15, <1>16, <1>17, <1>18
     DEF Next, Start, Continue

\* However requests overlap, where no grant is negative, a type is overdrawn by
\* at most its total for every thread but one.
THEOREM OverdraftIsBounded == Spec => []BoundedOverdraft
<1>1. Init => AllBalanced
  BY BalancedDicts DEF Init, AllBalanced
<1>2. Init => OverdraftInv
  <2> SUFFICES ASSUME Init, NEW l \in LedgerId, NEW b \in CreditType PROVE OverdraftOf(l, b)
    BY DEF OverdraftInv
  <2>1. PICK w : w \in Worker
    BY WorkerAssumption
  <2>2. ledgers[l][b].rest = 0 /\ ledgers[l][b].total = 0
    BY DEF Init, EmptyByType, Granted, Bucket
  <2>3. \A v \in Worker : ~Takes(req[v], l, b)
    BY DEF Init, Takes, Idle
  <2>4. Pending(req[w], l, b) = 0
    BY <2>1, <2>3 DEF Pending
  <2>5. Cardinality(Taken(l, b, w)) * 0 = 0
    BY <2>1, TakenFinite
  <2>6. Overdraft(l, b, w)
    BY <2>2, <2>4, <2>5 DEF Overdraft
  <2>7. ledgers[l][b].total \in Nat
    BY <2>2
  <2> QED BY <2>1, <2>3, <2>6, <2>7 DEF OverdraftOf
<1>3. TypeOK /\ InFlight /\ AllBalanced /\ [Next]_vars => AllBalanced'
  BY BalancedNext
<1>4. ASSUME Grant \subseteq Nat
      PROVE  /\ TypeOK /\ TypeOK' /\ InFlight /\ InFlight' /\ AllBalanced /\ OverdraftInv /\ [Next]_vars
             => OverdraftInv'
  BY <1>4, OverdraftNext
<1>5. TypeOK /\ OverdraftInv => BoundedOverdraft
  <2> SUFFICES ASSUME TypeOK, OverdraftInv, NEW l \in 1 .. allocated, NEW b \in CreditType
               PROVE  ledgers[l][b].rest >= -(Cardinality(Worker) - 1) * ledgers[l][b].total
    BY DEF BoundedOverdraft
  <2>1. l \in LedgerId
    BY MaxLedgersAssumption DEF TypeOK, LedgerId
  <2>2. ledgers[l][b].total \in Nat /\ ledgers[l][b].rest \in Int
    BY <2>1 DEF TypeOK, Bucket, Account, OverdraftInv, OverdraftOf
  <2>3. PICK last \in Worker : Overdraft(l, b, last)
    BY <2>1 DEF OverdraftInv, OverdraftOf
  <2> DEFINE c == Cardinality(Taken(l, b, last))
             d == Cardinality(Worker) - 1
             t == ledgers[l][b].total
  <2>4. c \in Nat /\ d \in Nat /\ c <= d
    BY TakenFinite
  <2>5. Pending(req[last], l, b) \in Nat
    BY <2>1 DEF Pending, OverdraftInv, OverdraftOf
  <2>6. ledgers[l][b].rest - Pending(req[last], l, b) >= -(c * t)
    BY <2>3 DEF Overdraft
  <2> HIDE DEF c, d, t
  <2>7. t \in Nat
    BY <2>2 DEF t
  <2>8. c * t <= d * t /\ c * t \in Nat /\ d * t \in Nat
    BY <2>4, <2>7, Products
  <2>9. ledgers[l][b].rest >= -(d * t)
    BY <2>2, <2>5, <2>6, <2>8
  <2>10. -(d * t) = -d * t
    BY <2>4, <2>7
  <2> QED BY <2>9, <2>10 DEF d, t
<1>6. ASSUME Grant \subseteq Nat PROVE Spec => []BoundedOverdraft
  BY <1>1, <1>2, <1>3, <1>4, <1>5, <1>6, Typing, PTL DEF Spec
<1>7. ASSUME ~(Grant \subseteq Nat) PROVE []BoundedOverdraft
  <2>1. BoundedOverdraft
    BY <1>7 DEF BoundedOverdraft
  <2> QED BY <2>1, PTL
<1> QED BY <1>6, <1>7

------------------------------------------------------------------------------
(* What is recorded as used, summed over the dicts.  A step that uses      *)
(* credit adds to one dict that exists, and to discounted, the same        *)
(* amount; a new dict adds nothing.                                        *)

\* A number that is not in T would make the successor an injection of the
\* smaller ones in T, finitely many, into themselves that misses 0.
LEMMA SetInduction ==
  ASSUME NEW T, 0 \in T, \A n \in Nat : n \in T => n + 1 \in T
  PROVE  \A n \in Nat : n \in T
<1> SUFFICES ASSUME NEW n \in Nat, n \notin T PROVE FALSE
  OBVIOUS
<1> DEFINE S == {k \in 0 .. n : k \in T}
           f == [k \in S |-> k + 1]
<1>1. IsFiniteSet(S)
  <2>1. IsFiniteSet(0 .. n)
    BY FS_Interval
  <2> QED BY <2>1, FS_Subset
<1>2. f \in Injection(S, S)
  <2>1. \A k \in S : k \in Nat /\ k + 1 \in S
    OBVIOUS
  <2> HIDE DEF S
  <2> QED BY <2>1 DEF Injection, IsInjective
<1>3. f \in Surjection(S, S)
  <2> HIDE DEF f, S
  <2> QED BY <1>1, <1>2, FS_Injection
<1>4. 0 \in S /\ \A k \in S : f[k] # 0
  OBVIOUS
<1> HIDE DEF f, S
<1> QED BY <1>3, <1>4 DEF Surjection

Dicts == [LedgerId -> [Bucket -> Account]]

LEMMA UsedOfType == ASSUME NEW d \in Dicts, NEW l \in LedgerId PROVE UsedOf(d[l]) \in Int
<1>1. \A b \in Bucket : d[l][b].used \in Int
  BY DEF Dicts, Account
<1>2. {"PROMOTIONAL", "FREE", "PAID", "FLAT"} \subseteq Bucket
  BY DEF Bucket, CreditType
<1> QED BY <1>1, <1>2 DEF UsedOf

\* g sums what is used in the first dicts, up to the n-th.
Sums(g, d, n) == g = [k \in 0 .. n |-> IF k = 0 THEN 0 ELSE g[k - 1] + UsedOf(d[k])]

LEMMA SumsExist ==
  ASSUME NEW d \in Dicts
  PROVE  \E g \in [0 .. MaxLedgers -> Int] : Sums(g, d, MaxLedgers)
<1> DEFINE T == {n \in Nat : n <= MaxLedgers => \E g \in [0 .. n -> Int] : Sums(g, d, n)}
<1>0. MaxLedgers \in Nat
  BY MaxLedgersAssumption
<1>1. 0 \in T
  <2> DEFINE g == [k \in 0 .. 0 |-> 0]
  <2>1. g \in [0 .. 0 -> Int] /\ Sums(g, d, 0)
    BY DEF Sums
  <2> QED BY <2>1
<1>2. ASSUME NEW n \in Nat, n \in T PROVE n + 1 \in T
  <2> SUFFICES ASSUME n + 1 <= MaxLedgers PROVE \E g \in [0 .. n + 1 -> Int] : Sums(g, d, n + 1)
    OBVIOUS
  <2>1. PICK g \in [0 .. n -> Int] : Sums(g, d, n)
    BY <1>0, <1>2
  <2> DEFINE h == [k \in 0 .. n + 1 |-> IF k = n + 1 THEN g[n] + UsedOf(d[n + 1]) ELSE g[k]]
  <2>2. UsedOf(d[n + 1]) \in Int /\ g[n] \in Int
    BY <1>0, UsedOfType DEF LedgerId
  <2>3. h \in [0 .. n + 1 -> Int]
    BY <2>2
  <2>4. ASSUME NEW k \in 0 .. n + 1 PROVE h[k] = IF k = 0 THEN 0 ELSE h[k - 1] + UsedOf(d[k])
    <3>1. CASE k = n + 1
      <4>1. h[k] = g[n] + UsedOf(d[k]) /\ k # 0 /\ k - 1 = n /\ h[n] = g[n]
        BY <3>1
      <4> QED BY <4>1
    <3>2. CASE k # n + 1
      <4>1. k \in 0 .. n /\ h[k] = g[k]
        BY <3>2
      <4>2. g[k] = IF k = 0 THEN 0 ELSE g[k - 1] + UsedOf(d[k])
        BY <2>1, <4>1 DEF Sums
      <4>3. k # 0 => k - 1 \in 0 .. n /\ h[k - 1] = g[k - 1]
        BY <4>1
      <4> QED BY <4>1, <4>2, <4>3
    <3> QED BY <3>1, <3>2
  <2> HIDE DEF h
  <2>5. Sums(h, d, n + 1)
    BY <2>3, <2>4 DEF Sums
  <2> QED BY <2>3, <2>5
<1>3. \A n \in Nat : n \in T
  <2> HIDE DEF T
  <2> QED BY <1>1, <1>2, SetInduction
<1>4. MaxLedgers \in T
  BY <1>0, <1>3
<1> QED BY <1>0, <1>4

\* What UsedInFirst computes.
LEMMA UsedInFirstSums ==
  ASSUME NEW d \in Dicts
  PROVE  /\ UsedInFirst(d, 0) = 0
         /\ \A n \in 0 .. MaxLedgers : UsedInFirst(d, n) \in Int
         /\ \A n \in Nat : n < MaxLedgers =>
                UsedInFirst(d, n + 1) = UsedInFirst(d, n) + UsedOf(d[n + 1])
<1>0. MaxLedgers \in Nat
  BY MaxLedgersAssumption
<1> DEFINE c == CHOOSE g : Sums(g, d, MaxLedgers)
<1>1. \A n : UsedInFirst(d, n) = c[n]
  BY DEF UsedInFirst, Sums
<1>2. Sums(c, d, MaxLedgers)
  BY SumsExist
<1>3. PICK g \in [0 .. MaxLedgers -> Int] : Sums(g, d, MaxLedgers)
  BY SumsExist
<1> HIDE DEF c
<1>4. c[0] = 0 /\ \A n \in Nat : n < MaxLedgers => c[n + 1] = c[n] + UsedOf(d[n + 1])
  <2>1. ASSUME NEW n \in Nat, n < MaxLedgers PROVE c[n + 1] = c[n] + UsedOf(d[n + 1])
    <3>1. n + 1 \in 0 .. MaxLedgers /\ n + 1 # 0 /\ n + 1 - 1 = n
      BY <1>0, <2>1
    <3>2. \A k \in 0 .. MaxLedgers : c[k] = IF k = 0 THEN 0 ELSE c[k - 1] + UsedOf(d[k])
      BY <1>2 DEF Sums
    <3>3. c[n + 1] = c[n + 1 - 1] + UsedOf(d[n + 1])
      BY <3>1, <3>2
    <3> QED BY <3>1, <3>3
  <2>2. c[0] = 0
    BY <1>0, <1>2 DEF Sums
  <2> QED BY <2>1, <2>2
<1>5. \A n \in 0 .. MaxLedgers : c[n] \in Int
  <2> DEFINE T == {n \in Nat : n <= MaxLedgers => c[n] \in Int}
  <2>1. 0 \in T
    BY <1>4
  <2>2. ASSUME NEW n \in Nat, n \in T PROVE n + 1 \in T
    <3> SUFFICES ASSUME n + 1 <= MaxLedgers PROVE c[n + 1] \in Int
      OBVIOUS
    <3>1. c[n] \in Int /\ n < MaxLedgers /\ n + 1 \in LedgerId
      BY <1>0, <2>2 DEF LedgerId
    <3>2. UsedOf(d[n + 1]) \in Int
      BY <3>1, UsedOfType
    <3> QED BY <1>4, <3>1, <3>2
  <2>3. \A n \in Nat : n \in T
    <3> HIDE DEF T
    <3> QED BY <2>1, <2>2, SetInduction
  <2> QED BY <1>0, <2>3
<1> QED BY <1>1, <1>4, <1>5

\* Credit used in one dict is credit used in all of them that include it.
LEMMA UsedInOne ==
  ASSUME NEW d \in Dicts, NEW e \in Dicts, NEW l \in LedgerId, NEW x \in Int,
         UsedOf(e[l]) = UsedOf(d[l]) + x,
         \A k \in LedgerId : k # l => UsedOf(e[k]) = UsedOf(d[k])
  PROVE  \A n \in 0 .. MaxLedgers :
            UsedInFirst(e, n) = UsedInFirst(d, n) + (IF l <= n THEN x ELSE 0)
<1> DEFINE T == {n \in Nat : n <= MaxLedgers =>
                    UsedInFirst(e, n) = UsedInFirst(d, n) + (IF l <= n THEN x ELSE 0)}
<1>0. MaxLedgers \in Nat /\ l \in Nat /\ l >= 1
  BY MaxLedgersAssumption DEF LedgerId
<1>1. 0 \in T
  <2>1. UsedInFirst(e, 0) = 0 /\ UsedInFirst(d, 0) = 0
    BY UsedInFirstSums
  <2> QED BY <1>0, <2>1
<1>2. ASSUME NEW n \in Nat, n \in T PROVE n + 1 \in T
  <2> SUFFICES ASSUME n + 1 <= MaxLedgers
               PROVE  UsedInFirst(e, n + 1) = UsedInFirst(d, n + 1) + (IF l <= n + 1 THEN x ELSE 0)
    OBVIOUS
  <2>1. n < MaxLedgers /\ n \in 0 .. MaxLedgers /\ n + 1 \in LedgerId
    BY <1>0 DEF LedgerId
  <2>2. UsedInFirst(e, n) = UsedInFirst(d, n) + (IF l <= n THEN x ELSE 0)
    BY <1>2, <2>1
  <2>3. /\ UsedInFirst(e, n + 1) = UsedInFirst(e, n) + UsedOf(e[n + 1])
        /\ UsedInFirst(d, n + 1) = UsedInFirst(d, n) + UsedOf(d[n + 1])
        /\ UsedInFirst(e, n) \in Int /\ UsedInFirst(d, n) \in Int
    BY <2>1, UsedInFirstSums
  <2>4. UsedOf(e[n + 1]) \in Int /\ UsedOf(d[n + 1]) \in Int
    BY <2>1, UsedOfType
  <2>5. UsedOf(e[n + 1]) = UsedOf(d[n + 1]) + (IF l = n + 1 THEN x ELSE 0)
    BY <2>1, <2>4
  <2> QED BY <1>0, <2>2, <2>3, <2>4, <2>5
<1>3. \A n \in Nat : n \in T
  <2> HIDE DEF T
  <2> QED BY <1>1, <1>2, SetInduction
<1> QED BY <1>0, <1>3

\* A step that uses x more of bucket b of dict l, or of none when x is 0.
LEMMA UsedInBucket ==
  ASSUME TypeOK, EveryDiscountRecorded, NEW l \in LedgerId, l <= allocated, NEW b \in Bucket,
         NEW a \in Account, NEW x \in Int, a.used = ledgers[l][b].used + x,
         ledgers' = [ledgers EXCEPT ![l][b] = a], discounted' = discounted + x,
         UNCHANGED allocated
  PROVE  EveryDiscountRecorded'
<1>1. ledgers \in Dicts /\ ledgers' \in Dicts /\ allocated \in 0 .. MaxLedgers
  BY DEF TypeOK, Dicts
<1>2. /\ ledgers'[l][b] = a /\ \A c \in Bucket : c # b => ledgers'[l][c] = ledgers[l][c]
      /\ \A k \in LedgerId : k # l => ledgers'[k] = ledgers[k]
  BY DEF TypeOK
<1>3. \A c \in Bucket : ledgers[l][c].used \in Int
  BY DEF TypeOK, Account
<1>4. UsedOf(ledgers'[l]) = UsedOf(ledgers[l]) + x
  BY <1>2, <1>3 DEF UsedOf, Bucket, CreditType
<1>5. UsedInFirst(ledgers', allocated) = UsedInFirst(ledgers, allocated) + (IF l <= allocated THEN x ELSE 0)
  <2>1. x \in Int /\ \A k \in LedgerId : k # l => UsedOf(ledgers'[k]) = UsedOf(ledgers[k])
    BY <1>2
  <2>2. \A n \in 0 .. MaxLedgers :
           UsedInFirst(ledgers', n) = UsedInFirst(ledgers, n) + (IF l <= n THEN x ELSE 0)
    <3>1. \A d, e \in Dicts :
             /\ UsedOf(e[l]) = UsedOf(d[l]) + x
             /\ \A k \in LedgerId : k # l => UsedOf(e[k]) = UsedOf(d[k])
             => \A n \in 0 .. MaxLedgers : UsedInFirst(e, n) = UsedInFirst(d, n) + (IF l <= n THEN x ELSE 0)
      BY <2>1, UsedInOne
    <3> QED BY <1>1, <1>4, <2>1, <3>1
  <2> QED BY <1>1, <2>2
<1> QED BY <1>5 DEF EveryDiscountRecorded

\* A new dict, of which nothing is used.
LEMMA UsedInNew ==
  ASSUME TypeOK, TypeOK', EveryDiscountRecorded, NEW shape, NEW a, Install(shape, a),
         \A b \in Bucket : a[b].used = 0, UNCHANGED discounted
  PROVE  EveryDiscountRecorded'
<1>1. ledgers \in Dicts /\ ledgers' \in Dicts /\ allocated \in Nat /\ allocated < MaxLedgers
  BY MaxLedgersAssumption DEF TypeOK, Dicts, Install
<1>2. allocated' = allocated + 1 /\ allocated + 1 \in LedgerId /\ allocated \in 0 .. MaxLedgers
  BY <1>1, MaxLedgersAssumption DEF Install, LedgerId
<1>3. ledgers'[allocated + 1] = a /\ \A k \in LedgerId : k # allocated + 1 => ledgers'[k] = ledgers[k]
  BY <1>2 DEF TypeOK, Install
<1>4. UsedOf(ledgers'[allocated + 1]) = 0
  BY <1>3 DEF UsedOf, Bucket, CreditType
<1>5. UsedInFirst(ledgers', allocated) = UsedInFirst(ledgers, allocated)
  <2>1. PICK x \in Int : UsedOf(ledgers'[allocated + 1]) = UsedOf(ledgers[allocated + 1]) + x
    <3>1. UsedOf(ledgers[allocated + 1]) \in Int
      BY <1>1, <1>2, UsedOfType
    <3>2. UsedOf(ledgers'[allocated + 1]) = UsedOf(ledgers[allocated + 1]) + (-UsedOf(ledgers[allocated + 1]))
      BY <1>4, <3>1
    <3> QED BY <3>1, <3>2
  <2>2. UsedInFirst(ledgers', allocated) =
           UsedInFirst(ledgers, allocated) + (IF allocated + 1 <= allocated THEN x ELSE 0)
    BY <1>1, <1>2, <1>3, <2>1, UsedInOne
  <2>3. UsedInFirst(ledgers, allocated) \in Int
    BY <1>1, <1>2, UsedInFirstSums
  <2> QED BY <1>1, <2>2, <2>3
<1>6. UsedInFirst(ledgers', allocated + 1) = UsedInFirst(ledgers', allocated) + UsedOf(ledgers'[allocated + 1])
  BY <1>1, UsedInFirstSums
<1>7. UsedInFirst(ledgers', allocated) \in Int
  BY <1>1, <1>2, UsedInFirstSums
<1> QED BY <1>2, <1>4, <1>5, <1>6, <1>7 DEF EveryDiscountRecorded

LEMMA UsedSteps ==
  ASSUME NEW a \in Account, NEW n \in Int
  PROVE  /\ Debited(a, n).used = a.used + n
         /\ DebitedFlat(a, n).used = a.used + n
         /\ Loaded(a, n).used = a.used + 0
<1>1. a.used \in Int
  BY DEF Account
<1> QED BY <1>1 DEF Debited, DebitedFlat, Loaded, Account

LEMMA RecordedNext ==
  ASSUME TypeOK, TypeOK', InFlight, EveryDiscountRecorded, [Next]_vars
  PROVE  EveryDiscountRecorded'
<1>0. ASSUME UNCHANGED <<ledgers, allocated, discounted>> PROVE EveryDiscountRecorded'
  BY <1>0 DEF EveryDiscountRecorded
<1>1. CASE UNCHANGED vars
  BY <1>0, <1>1 DEF vars
<1>2. ASSUME NEW w \in Worker,
             \/ BeginPaymentStatement(w) \/ BeginConsoleStatement(w) \/ BeginBillingDetail(w)
             \/ SkipCreditType(w) \/ ReadCreditType(w) \/ EndApplyCredits(w)
             \/ AnswerStatement(w) \/ DebitFlatFails(w) \/ EndCalculation(w)
      PROVE  EveryDiscountRecorded'
  BY <1>0, <1>2 DEF BeginPaymentStatement, BeginConsoleStatement, BeginBillingDetail, SkipCreditType,
     ReadCreditType, EndApplyCredits, AnswerStatement, DebitFlatFails, EndCalculation
<1>3. ASSUME ResetTestData PROVE EveryDiscountRecorded'
  BY <1>0, <1>3 DEF ResetTestData
<1>4. /\ \A b \in Bucket : EmptyByType[b].used = 0
      /\ \A n : \A b \in Bucket : generate_credit_data(n)[b].used = 0
  BY DEF EmptyByType, generate_credit_data, Granted
<1>5. ASSUME NEW w \in Worker, BeginCalculation(w) PROVE EveryDiscountRecorded'
  BY <1>4, <1>5, UsedInNew DEF BeginCalculation
<1>6. ASSUME GrantCredit PROVE EveryDiscountRecorded'
  <2>1. PICK n : Install("flat", generate_credit_data(n))
    BY <1>6 DEF GrantCredit
  <2>2. \A b \in Bucket : generate_credit_data(n)[b].used = 0
    BY <1>4
  <2> QED BY <1>6, <2>1, <2>2, UsedInNew DEF GrantCredit
<1>7. ASSUME CancelCredit PROVE EveryDiscountRecorded'
  <2>1. \A b \in Bucket : generate_credit_data(0)[b].used = 0
    BY <1>4
  <2> QED BY <1>7, <2>1, UsedInNew DEF CancelCredit
<1>8. ASSUME NEW w \in Worker, DebitCreditType(w) PROVE EveryDiscountRecorded'
  <2>1. PICK l \in LedgerId, b \in Bucket, n \in Int :
          l = req[w].ledger /\ b = CreditPriority[req[w].i] /\ n = req[w].use /\ l <= allocated
    <3>1. req[w].i \in 1 .. 3 /\ req[w].ledger \in LedgerId /\ req[w].ledger <= allocated
      BY <1>8, DebitTypes DEF DebitCreditType
    <3>2. req[w].use \in Int
      BY DEF TypeOK, Request
    <3> QED BY <3>1, <3>2, PriorityTypes
  <2>2. /\ ledgers' = [ledgers EXCEPT ![l][b] = Debited(ledgers[l][b], n)]
        /\ discounted' = discounted + n /\ UNCHANGED allocated
    BY <1>8, <2>1 DEF DebitCreditType
  <2>3. ledgers[l][b] \in Account
    BY DEF TypeOK
  <2>4. Debited(ledgers[l][b], n) \in Account /\ Debited(ledgers[l][b], n).used = ledgers[l][b].used + n
    BY <2>3, AccountTypes, UsedSteps
  <2> QED BY <2>1, <2>2, <2>4, UsedInBucket
<1>9. ASSUME NEW w \in Worker, DebitFlat(w) PROVE EveryDiscountRecorded'
  <2>1. PICK n \in Int : n = req[w].use
    BY DEF TypeOK, Request
  <2>2. credit_data \in LedgerId /\ credit_data <= allocated /\ "FLAT" \in Bucket
    BY <1>9, MaxLedgersAssumption DEF DebitFlat, TypeOK, LedgerId, NoLedger, Bucket
  <2>3. /\ ledgers' = [ledgers EXCEPT ![credit_data]["FLAT"] = DebitedFlat(ledgers[credit_data]["FLAT"], n)]
        /\ discounted' = discounted + n /\ UNCHANGED allocated
    BY <1>9, <2>1 DEF DebitFlat
  <2>4. ledgers[credit_data]["FLAT"] \in Account
    BY <2>2 DEF TypeOK
  <2>5. /\ DebitedFlat(ledgers[credit_data]["FLAT"], n) \in Account
        /\ DebitedFlat(ledgers[credit_data]["FLAT"], n).used = ledgers[credit_data]["FLAT"].used + n
    BY <2>4, AccountTypes, UsedSteps
  <2> QED BY <2>2, <2>3, <2>5, UsedInBucket
<1>10. ASSUME NEW w \in Worker, LoadCredit(w) PROVE EveryDiscountRecorded'
  <2>1. Head(req[w].credits) \in CreditItem /\ credit_data \in LedgerId /\ credit_data <= allocated
    BY <1>10, MaxLedgersAssumption DEF LoadCredit, TypeOK, Request, LedgerId, NoLedger
  <2>2. PICK t \in Bucket, m \in Int : t = Head(req[w].credits).type /\ m = Head(req[w].credits).amount
    BY <2>1, GrantAssumption DEF CreditItem, Bucket
  <2>3. \/ ledgers' = [ledgers EXCEPT ![credit_data][t] = Loaded(ledgers[credit_data][t], m)]
        \/ ledgers' = ledgers
    BY <1>10, <2>2 DEF LoadCredit
  <2>4. UNCHANGED <<allocated, discounted>>
    BY <1>10 DEF LoadCredit
  <2>5. ledgers[credit_data][t] \in Account /\ discounted' = discounted + 0
    BY <2>1, <2>4 DEF TypeOK
  <2>6. /\ Loaded(ledgers[credit_data][t], m) \in Account
        /\ Loaded(ledgers[credit_data][t], m).used = ledgers[credit_data][t].used + 0
    BY <2>2, <2>5, AccountTypes, UsedSteps
  <2>7. CASE ledgers' = [ledgers EXCEPT ![credit_data][t] = Loaded(ledgers[credit_data][t], m)]
    <3>1. credit_data \in LedgerId /\ credit_data <= allocated /\ 0 \in Int /\ UNCHANGED allocated
      BY <2>1, <2>4
    <3> DEFINE a == Loaded(ledgers[credit_data][t], m)
    <3>2. a \in Account /\ a.used = ledgers[credit_data][t].used + 0
      BY <2>6
    <3>3. ledgers' = [ledgers EXCEPT ![credit_data][t] = a]
      BY <2>7
    <3> HIDE DEF a
    <3> QED BY <2>5, <3>1, <3>2, <3>3, UsedInBucket
  <2> QED BY <1>0, <2>3, <2>4, <2>7
<1> QED
  BY <1>1, <1>2, <1>3, <1>5, <1>6, <1>7, <1>8, <1>9, <1>10 DEF Next, Start, Continue

\* However requests overlap, and whatever dicts have been replaced, what was
\* taken off statements is what the dicts say was used.
THEOREM DiscountsAreRecorded == Spec => []EveryDiscountRecorded
<1>1. Init => EveryDiscountRecorded
  <2> SUFFICES ASSUME Init PROVE EveryDiscountRecorded
    OBVIOUS
  <2>1. TypeOK /\ ledgers \in Dicts
    BY TypeInit DEF TypeOK, Dicts
  <2>2. UsedInFirst(ledgers, 0) = 0 /\ 0 < MaxLedgers
        /\ UsedInFirst(ledgers, 0 + 1) = UsedInFirst(ledgers, 0) + UsedOf(ledgers[0 + 1])
    BY <2>1, MaxLedgersAssumption, UsedInFirstSums
  <2>3. UsedOf(ledgers[1]) = 0
    BY MaxLedgersAssumption DEF Init, UsedOf, EmptyByType, Granted, LedgerId, Bucket, CreditType
  <2> QED BY <2>2, <2>3 DEF Init, EveryDiscountRecorded
<1>2. TypeOK /\ TypeOK' /\ InFlight /\ EveryDiscountRecorded /\ [Next]_vars => EveryDiscountRecorded'
  BY RecordedNext
<1> QED BY <1>1, <1>2, Typing, PTL DEF Spec
==============================================================================
