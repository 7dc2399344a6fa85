------------------------------- MODULE Totals -------------------------------
(***************************************************************************)
(* The price of an invoice (invoices/invoice.totals.ts): line by line, in  *)
(* whole cents.  A line's unit price is rounded to cents before it is      *)
(* multiplied, its tax after.  Prices come in tenths of a cent and rates   *)
(* in hundredths of a percent, finer than what is stored.                  *)
(***************************************************************************)
EXTENDS Integers

CONSTANTS
  Quantities, Prices, Rates,   \* of the lines of requests
  INVOICE_MAX_LINE_ITEMS

ASSUME TotalsAssumption ==
  /\ Quantities \subseteq Int /\ Prices \subseteq Int /\ Rates \subseteq Int
  /\ INVOICE_MAX_LINE_ITEMS \in Nat

VARIABLES
  priced,        \* number of lines priced so far
  valid,         \* no line was refused with a 400
  subtotalCents, taxCents,
  pieces,        \* sum of the quantities
  exactPrice,    \* what the lines cost without rounding, in tenths of a cent
  exactTax       \* the tax of their rounded totals, in 1/10000 of a cent

totalsVars == <<priced, valid, subtotalCents, taxCents, pieces, exactPrice, exactTax>>

TotalsInit ==
  /\ priced = 0 /\ valid = TRUE
  /\ subtotalCents = 0 /\ taxCents = 0
  /\ pieces = 0 /\ exactPrice = 0 /\ exactTax = 0

\* Mutant: Math.floor.
Floor(n, unit) == n \div unit
\* Math.round(n / unit).
Round(n, unit) == (2 * n + unit) \div (2 * unit)

INVOICE_MAX_TAX_RATE == 10000

\* What computeInvoiceTotals lets pass.
WellFormed(quantity, price, rate) ==
  /\ priced < INVOICE_MAX_LINE_ITEMS
  /\ quantity > 0 /\ price >= 0 /\ rate \in 0..INVOICE_MAX_TAX_RATE

toCents(price) == Round(price, 10)

computeLine(quantity, price, rate) ==
  /\ valid /\ WellFormed(quantity, price, rate)
  /\ LET lineTotalCents == toCents(price) * quantity IN
       /\ subtotalCents' = subtotalCents + lineTotalCents
       /\ taxCents' = taxCents + Round(lineTotalCents * rate, 10000)
       /\ exactTax' = exactTax + lineTotalCents * rate
  /\ priced' = priced + 1
  /\ pieces' = pieces + quantity
  /\ exactPrice' = exactPrice + price * quantity
  /\ UNCHANGED valid

\* One bad line refuses the invoice.
refuseLine(quantity, price, rate) ==
  /\ valid /\ ~WellFormed(quantity, price, rate)
  /\ valid' = FALSE
  /\ UNCHANGED <<priced, subtotalCents, taxCents, pieces, exactPrice, exactTax>>

computeInvoiceTotals ==
  \E quantity \in Quantities, price \in Prices, rate \in Rates :
    computeLine(quantity, price, rate) \/ refuseLine(quantity, price, rate)

TotalsSpec == TotalsInit /\ [][computeInvoiceTotals]_totalsVars

-----------------------------------------------------------------------------
\* Rounding stays within half a cent of each piece, for the price, and of each
\* line, for the tax; in either direction, so that what a customer is charged
\* can differ from the exact amount by the number of pieces, not of lines.
RoundingIsBounded ==
  /\ -5 * pieces <= 10 * subtotalCents - exactPrice
  /\ 10 * subtotalCents - exactPrice <= 5 * pieces
  /\ -5000 * priced <= 10000 * taxCents - exactTax
  /\ 10000 * taxCents - exactTax <= 5000 * priced
=============================================================================
