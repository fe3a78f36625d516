--------------------------- MODULE StatementView ---------------------------
(***************************************************************************)
(* What the user is shown of a statement: the page's table and summary     *)
(* (web/src/components/StatementDisplay.tsx) and the PDF he can download   *)
(* (web/src/lib/pdf/statementPDF.ts).  An amount is kept with the sign it  *)
(* is shown with; wording, currency and columns are left out.              *)
(*                                                                         *)
(* The PDF is laid out downwards.  drawn is what is on its pages: lines of *)
(* text, at their baseline, and tables, by their upper and lower edges.    *)
(* Tables are drawn by the autoTable library, which breaks pages itself;   *)
(* the page is A4.  Millimetres throughout.                                *)
(***************************************************************************)
EXTENDS WorkerBilling

CONSTANTS
    RowHeight   \* heights the rows of a table can have: cells wrap

ASSUME RowHeightAssumption == RowHeight \subseteq 1 .. 200

VARIABLES
    section,    \* of generateStatementPDF: what is drawn next
    page, y,    \* where
    drawn

pdf == <<section, page, y, drawn>>

------------------------------------------------------------------------------
(* StatementDisplay.                                                         *)

AdjustmentRow_Unsigned(adj) == adj.amount
AdjustmentRow(adj) == IF adj.type = "DISCOUNT" THEN -adj.amount ELSE adj.amount

RowIf(shown, amount) == IF shown THEN <<amount>> ELSE <<>>

\* The VAT row is not the statement's vat: it is what the other figures leave.
ShownVat(s) ==
    s.totalAmount - (s.subtotal + s.adjustmentTotal - s.creditApplied + s.unpaidAmount + s.lateFee)

\* The rows under "Billing Details" but for its subtotal and total; none without
\* line items.
DetailRows(s) ==
    IF s.lineItems = <<>> THEN <<>>
    ELSE s.lineItems
         \o [i \in 1 .. Len(s.appliedAdjustments) |-> AdjustmentRow(s.appliedAdjustments[i])]
         \o [i \in 1 .. Len(s.appliedCredits) |-> -s.appliedCredits[i].amountApplied]
         \o RowIf(s.unpaidAmount > 0, s.unpaidAmount)
         \o RowIf(s.lateFee > 0, s.lateFee)
         \o <<ShownVat(s)>>

\* The summary below it, which has no VAT.
SummaryRows(s) ==
    <<s.subtotal>>
    \o RowIf(s.adjustmentTotal # 0, s.adjustmentTotal)
    \o RowIf(s.creditApplied > 0, -s.creditApplied)
    \o RowIf(s.unpaidAmount > 0, s.unpaidAmount)
    \o RowIf(s.lateFee > 0, s.lateFee)

------------------------------------------------------------------------------
(* statementPDF.  A value of zero is shown too.                              *)

MARGIN_TOP == 20
MARGIN_BOTTOM == 20
AFTER_TITLE == 15
LINE_HEIGHT == 7
SECTION_GAP == 10
SECTION_HEADER_GAP == 3
BEFORE_SUMMARY == 15
SUMMARY_HEADER == 10
FINAL_AMOUNT_GAP == 5

\* The lines up to the charge add up to it, those from it on to the total.
ChargeItems(s) == <<s.subtotal, -s.billingGroupDiscount, s.adjustmentTotal, -s.creditApplied>>
FinalItems(s) == <<s.charge, s.vat, s.unpaidAmount, s.lateFee>>
SummaryItems(s) == ChargeItems(s) \o FinalItems(s)

calculateSummaryHeight_NonZero(s) ==
    (2 + Len(SelectSeq(SummaryItems(s), LAMBDA v : v # 0))) * LINE_HEIGHT
calculateSummaryHeight(s) ==
    (2 + Len(SummaryItems(s))) * LINE_HEIGHT + SUMMARY_HEADER + FINAL_AMOUNT_GAP

\* External: A4 and autoTable.  It starts a table on the next page when its head
\* does not fit, and goes on there, under another head, when a row does not; a
\* row higher than a page is split.
PAGE_HEIGHT == 297
TableMargin == 14
TableBottom == PAGE_HEIGHT - TableMargin
HeadHeight == 8

TableFrom(startY) ==
    IF startY + HeadHeight > TableBottom
       THEN [page |-> page + 1, top |-> TableMargin, bottom |-> TableMargin + HeadHeight]
       ELSE [page |-> page, top |-> startY, bottom |-> startY + HeadHeight]

\* Where the table is after n of its rows: the part of it on its last page.
TableAfter(startY, n, height) ==
    LET part[i \in 0 .. n] ==
            IF i = 0 THEN TableFrom(startY)
            ELSE IF part[i - 1].bottom + height > TableBottom
                 THEN [page |-> part[i - 1].page + 1, top |-> TableMargin,
                       bottom |-> TableMargin + HeadHeight + height]
                 ELSE [part[i - 1] EXCEPT !.bottom = @ + height]
    IN  part[n]

Text(at) == [page |-> page, top |-> at, bottom |-> at]

------------------------------------------------------------------------------

Download ==
    /\ Calculated /\ statement # EmptyStatement
    /\ section = "none"
    /\ section' = "header"
    /\ page' = 1 /\ y' = MARGIN_TOP /\ drawn' = <<>>

renderHeader ==
    /\ section = "header" /\ section' = "lineItems"
    /\ drawn' = drawn \o <<Text(y), Text(y + AFTER_TITLE), Text(y + AFTER_TITLE + LINE_HEIGHT)>>
    /\ y' = y + AFTER_TITLE + 2 * LINE_HEIGHT
    /\ UNCHANGED page

\* A table of n rows under its title, if it has one; nothing when there are none.
renderTable(here, next, n, title) ==
    /\ section = here /\ section' = next
    /\ IF n = 0
          THEN UNCHANGED <<page, y, drawn>>
          ELSE \E height \in RowHeight :
                 LET table == TableAfter(IF title THEN y + SECTION_HEADER_GAP ELSE y, n, height)
                 IN  /\ drawn' = drawn \o (IF title THEN <<Text(y), table>> ELSE <<table>>)
                     /\ page' = table.page
                     /\ y' = table.bottom + SECTION_GAP

renderLineItemsTable == renderTable("lineItems", "adjustments", Len(statement.lineItems), FALSE)
renderAdjustmentsTable == renderTable("adjustments", "credits", Len(statement.appliedAdjustments), TRUE)
renderCreditsTable == renderTable("credits", "summary", Len(statement.appliedCredits), TRUE)

SummaryFits == y + BEFORE_SUMMARY + calculateSummaryHeight(statement) <= PAGE_HEIGHT - MARGIN_BOTTOM

renderSummaryHeader ==
    /\ section = "summary" /\ section' = "items"
    /\ LET summaryPage == IF SummaryFits THEN page ELSE page + 1
           summaryY == IF SummaryFits THEN y + BEFORE_SUMMARY ELSE MARGIN_TOP
       IN  /\ page' = summaryPage
           /\ drawn' = Append(drawn, [page |-> summaryPage, top |-> summaryY, bottom |-> summaryY])
           /\ y' = summaryY + SUMMARY_HEADER

renderSummaryItems ==
    /\ section = "items" /\ section' = "total"
    /\ drawn' = drawn \o [i \in 1 .. Len(SummaryItems(statement)) |-> Text(y + (i - 1) * LINE_HEIGHT)]
    /\ y' = y + Len(SummaryItems(statement)) * LINE_HEIGHT
    /\ UNCHANGED page

renderSummaryTotal ==
    /\ section = "total" /\ section' = "saved"
    /\ drawn' = Append(drawn, Text(y + FINAL_AMOUNT_GAP))
    /\ UNCHANGED <<page, y>>

InitView == Init /\ section = "none" /\ page = 1 /\ y = MARGIN_TOP /\ drawn = <<>>

generateStatementPDF ==
    /\ \/ Download
       \/ renderHeader
       \/ renderLineItemsTable \/ renderAdjustmentsTable \/ renderCreditsTable
       \/ renderSummaryHeader \/ renderSummaryItems \/ renderSummaryTotal
    /\ UNCHANGED vars

\* The worker's next request: the PDF of the last one has been saved, or none was.
WorkerStep ==
    /\ section \in {"none", "saved"}
    /\ section' = "none" /\ page' = 1 /\ y' = MARGIN_TOP /\ drawn' = <<>>
    /\ Next

NextView == WorkerStep \/ generateStatementPDF

SpecView == InitView /\ [][NextView]_<<vars, pdf>>

------------------------------------------------------------------------------
(* Properties.                                                               *)

DiscountsWithinSubtotal == statement.subtotal + statement.adjustmentTotal >= 0

\* The page and the PDF tell the same story of what the form asked for, while
\* discounts stay within the subtotal: what the page shows as VAT is the VAT the
\* worker charged and the PDF prints, the rows of the page add up to the total
\* due, its summary to that without VAT, the PDF's lines to its charge and total.
ViewsAgree ==
    Calculated /\ AcceptedInput(request) /\ DiscountsWithinSubtotal =>
        LET s == statement
        IN  /\ ShownVat(s) = s.vat
            /\ s.lineItems # <<>> => SumOf(DetailRows(s)) = s.totalAmount
            /\ SumOf(SummaryRows(s)) + s.vat = s.totalAmount
            /\ SumOf(ChargeItems(s)) = s.charge
            /\ SumOf(FinalItems(s)) = s.totalAmount

\* Whatever tables come before it, nothing of the PDF is off the page or over what
\* was drawn before, and the summary is on one page, above its lower margin
\* (calculateSummaryHeight is an estimate made before anything is drawn).
PdfReadable ==
    /\ \A i \in 1 .. Len(drawn) : drawn[i].bottom <= PAGE_HEIGHT
    /\ \A i \in 1 .. Len(drawn) - 1 :
          \/ drawn[i].page < drawn[i + 1].page
          \/ drawn[i].page = drawn[i + 1].page /\ drawn[i].bottom < drawn[i + 1].top
    /\ section = "saved" =>
          \A i \in Len(drawn) - Len(SummaryItems(statement)) - 1 .. Len(drawn) :
              /\ drawn[i].page = page
              /\ drawn[i].bottom <= PAGE_HEIGHT - MARGIN_BOTTOM
==============================================================================
