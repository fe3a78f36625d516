---------------------------- MODULE BillingFlow ----------------------------
(***************************************************************************)
(* From the form to the bill: what is entered in BillingForm is posted to  *)
(* the worker of WorkerBilling, whose statement StatementView shows.  The  *)
(* worker has other clients; a behaviour has one client, so that what they *)
(* do is kept apart.  While the page awaits an answer its user waits too:  *)
(* what he can do meanwhile is the subject of WebBilling.                  *)
(***************************************************************************)
EXTENDS StatementView, BillingForm

VARIABLES
    client,     \* who sends the requests, "form" or "other"
    sent        \* history: the input of the last calculation from the form

flowVars == <<vars, pdf, formVars, client, sent>>

------------------------------------------------------------------------------

\* JSON.stringify(billingInput): dates become UTC timestamps, and the rest is as it
\* is; the worker does not read the names.
Body(input) ==
    [usage |-> input.usage, credits |-> input.credits, adjustments |-> input.adjustments,
     unpaidAmount |-> input.unpaidAmount, isOverdue |-> input.isOverdue,
     targetDate |-> input.targetDate]

ViewIdle == section \in {"none", "saved"}
ClearView == section' = "none" /\ page' = 1 /\ y' = MARGIN_TOP /\ drawn' = <<>>

\* The page answers to its user while no calculation is under way.
UsePage ==
    /\ client = "form" /\ Idle /\ ViewIdle
    /\ Change \/ RefuseCalculate \/ LeaveForm \/ OpenForm \/ StartNew \/ LoadEntry
    /\ ClearView
    /\ UNCHANGED <<vars, client, sent>>

Post ==
    /\ client = "form" /\ ViewIdle
    /\ handleCalculate
    /\ Take(Body(form))
    /\ sent' = form
    /\ ClearView
    /\ UNCHANGED client

\* The answer may be lost on its way; to the page that is a failure too.
Work ==
    /\ client = "form" /\ Calculate
    /\ \/ pc' # "answered" /\ UNCHANGED formVars
       \/ pc' = "answered" /\ status' = 200 /\ onComplete
       \/ pc' = "answered" /\ CalculationFailed
    /\ UNCHANGED <<pdf, client, sent>>

OtherClient ==
    /\ client = "other" /\ WorkerStep
    /\ UNCHANGED <<formVars, client, sent>>

InitFlow ==
    /\ InitView /\ InitForm
    /\ client \in {"form", "other"}
    /\ sent = form

NextFlow ==
    \/ UsePage \/ Post \/ Work \/ OtherClient
    \/ generateStatementPDF /\ UNCHANGED <<formVars, client, sent>>

SpecFlow == InitFlow /\ [][NextFlow]_flowVars

------------------------------------------------------------------------------
(* Properties.                                                               *)

\* Whatever is typed, picked, loaded and changed in whatever order, what the form
\* posts is what the worker accepts (AcceptedInput).
FormSendsAcceptedInput == client = "form" /\ pc # "idle" => AcceptedInput(request)

DaysPerMonth == HoursPerMonth \div 24

\* A day picked in the form is billed to its month, in every time zone: the field
\* reads it as midnight UTC and the worker takes the month in UTC.
PickedMonthIsBilled ==
    client = "form" /\ Calculated /\ sent.picked # NotPicked =>
        statement.month = sent.picked \div DaysPerMonth

\* The month billed is that of the date the form showed.  It is not: the field
\* shows the local date of a time whose month the worker takes in UTC.  West of
\* Greenwich a form opened in a month's last hours, or a first that was picked, is
\* shown as the last day of the month before the one billed; east of it a form
\* opened in a month's first hours is shown as the first of the month after.
ShownMonthIsBilled ==
    client = "form" /\ Calculated =>
        statement.month = shownDay(sent.targetDate) \div DaysPerMonth
==============================================================================
