---------------------------- MODULE MCStatement ----------------------------
(***************************************************************************)
(* The flow from the form to the bill, small.  Another client's requests   *)
(* are of two families: such as the form could send, with longer lists     *)
(* than the form is given here, and such as only another client would.     *)
(***************************************************************************)
EXTENDS BillingFlow

Gpu(volume) == [counterName |-> "compute.g2.t4.c8m64", counterVolume |-> volume]
Ip(volume) == [counterName |-> "network.floating_ip", counterVolume |-> volume]
Disk(volume) == [counterName |-> "storage.volume.ssd", counterVolume |-> volume]
Other(volume) == [counterName |-> "a name without a price", counterVolume |-> volume]

Adjust(type, method, value) == [legacy |-> FALSE, type |-> type, method |-> method, value |-> value]
Legacy(type, method, value) == [legacy |-> TRUE, type |-> type, method |-> method, value |-> value]

\* Prices in fractions of a Won, several items, one of no volume.
FormUsage == {<<Gpu(1)>>, <<Gpu(30), Ip(2), Gpu(2)>>, <<Disk(1), Other(0), Disk(2)>>}
\* None, less than most charges, several of which the last may stay untouched.
FormCredits == {<<>>, <<100>>, <<0, 150, 5000>>, <<60, 70, 80>>}
\* Rates that slip, a discount above the subtotal, one above 100 percent.
FormAdjustments ==
    {<<>>, <<Adjust("DISCOUNT", "RATE", 29)>>, <<Adjust("SURCHARGE", "RATE", 57), Adjust("DISCOUNT", "FIXED", 40)>>,
     <<Adjust("DISCOUNT", "FIXED", 1000)>>, <<Adjust("DISCOUNT", "RATE", 150), Adjust("SURCHARGE", "RATE", 7)>>}

FormRequest ==
    [usage : FormUsage, credits : FormCredits, adjustments : FormAdjustments,
     unpaidAmount : {0, 999}, isOverdue : BOOLEAN, targetDate : {719}]

OtherRequest ==
    [usage : {<<>>, <<Gpu(-1), Disk(3)>>}, credits : {<<-50, 100>>, <<200>>},
     adjustments : {<<Legacy("DISCOUNT", "RATE", 29)>>, <<Legacy("OTHER", "RATE", 5)>>,
                    <<Adjust("DISCOUNT", "FIXED", 10), Adjust("SURCHARGE", "FIXED", -1)>>,
                    <<Adjust("SURCHARGE", "OTHER", 5)>>},
     unpaidAmount : {-20, 100}, isOverdue : {TRUE}, targetDate : {720, BadDate}]

MCRequest == FormRequest \cup OtherRequest

\* Of the products these requests lead to, those whose double is below the integer.
MCShort ==
    {100, 200, 400, 800, 1500, 3500, 23900, 24000, 24700, 24800, 24900, 25000, 25100, 25900,
     26000, 49900, 50000} \X {29} \cup {<<300, 57>>}

MCVatRate == {-1, 29}

\* Korea, UTC and New York; a form opened in the first hours of a second month,
\* UTC, or in the last of the first.
MCOffset == {9, -5}
MCNow == {722}
MCDay == {29, 30}
MCTyped == {-5, 150}

UsageInput(name, volume) == [counterName |-> name, counterVolume |-> volume]
Input(date, usage, credits, adjustments) ==
    [targetDate |-> date, picked |-> NotPicked, named |-> TRUE, unpaidAmount |-> 0,
     isOverdue |-> TRUE, usage |-> usage, credits |-> credits, adjustments |-> adjustments]

\* Two stored inputs to start from: a fixed discount above the subtotal next to a
\* credit, and a rate next to a surcharge.
MCStored ==
    [e1 |-> Input(719, <<UsageInput("network.floating_ip", 10)>>, <<100>>, <<Adjust("DISCOUNT", "FIXED", 1000)>>),
     e2 |-> Input(720, <<UsageInput("compute.g2.t4.c8m64", 6)>>, <<0>>, <<Adjust("SURCHARGE", "RATE", 29)>>)]
============================================================================
