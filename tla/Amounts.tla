------------------------------ MODULE Amounts -------------------------------
(***************************************************************************)
(* The money of a document: JavaScript doubles, the two ways the builders  *)
(* cut them to halalas, and the line, tax and monetary totals of the two   *)
(* families of documents (tax invoices and credit notes; debit notes) and  *)
(* of the Phase 1 documents.                                               *)
(*                                                                         *)
(* A double lies at the decimal number it stands for, or just below or     *)
(* above it: 2.3 * 3 prints as 6.8999999999999995.  It is a record of the  *)
(* decimal u, in 1/Scale halalas, and of the side e it errs to.  Which     *)
(* side depends on bits that are left out, so an operation returns the SET *)
(* of its possible results.                                                *)
(***************************************************************************)
EXTENDS Integers, Sequences, SequencesExt

Scale == 10000
Side  == {-1, 0, 1}
Double == [u : Int, e : Side]
Zero  == [u |-> 0, e |-> 0]

\* The double nearest to h halalas prints as h halalas.
Clean(h) == [u |-> h * Scale, e |-> 0]

Neg(x) == [u |-> -x.u, e |-> -x.e]

\* x + y: exact if one of them is zero; two decimals that cancel leave the
\* error of the operands behind (0.1 * 3 - 0.3 is 5.55e-17).
Plus(x, y) ==
    LET u == x.u + y.u
    IN  IF x = Zero THEN {y}
        ELSE IF y = Zero THEN {x}
        ELSE IF u = 0 /\ 0 \in {x.e, y.e} THEN {[u |-> 0, e |-> x.e + y.e]}
        ELSE {[u |-> u, e |-> e] : e \in Side}

\* x * k, and (x * p) / 100.
Times(x, k) ==
    IF k = 0 THEN {Zero}
    ELSE IF k = 1 \/ x.u = 0 THEN {x}
    ELSE {[u |-> x.u * k, e |-> e] : e \in Side}

Percent(x, p) ==
    IF p = 0 THEN {Zero}
    ELSE IF x.u = 0 THEN {x}
    ELSE {[u |-> (x.u * p) \div 100, e |-> e] : e \in Side}

\* The possible sums of the first n of a sequence of doubles, added one by one
\* to a number that is one of start.
RunningSums(start, xs) ==
    LET sums[n \in 0 .. Len(xs)] ==
          IF n = 0 THEN start ELSE UNION {Plus(a, xs[n]) : a \in sums[n - 1]}
    IN  sums

SumsFrom(start, xs) == RunningSums(start, xs)[Len(xs)]

Sums(xs) == SumsFrom({Zero}, xs)

\* The sum of the first n of a sequence of whole numbers, and of all of them.
RunningTotal(hs) ==
    LET total[n \in 0 .. Len(hs)] == IF n = 0 THEN 0 ELSE total[n - 1] + hs[n]
    IN  total

Total(hs) == RunningTotal(hs)[Len(hs)]

-----------------------------------------------------------------------------
Magnitude(n) == IF n < 0 THEN -n ELSE n

Sign(n) == IF n < 0 THEN -1 ELSE 1

\* The first three digits of the mantissa of a number below 10^-6.
Mantissa == {100, 555, 999}

\* A plain truncation of the decimal, for numbers without an error.
Truncated(x) == Sign(x.u) * (Magnitude(x.u) \div Scale)

\* The digits of value.toString() up to the second decimal.  A number just
\* below a halala prints with the halala before it.  A number that is all
\* error prints as 5.551115123125783e-17, of which the expression keeps 5.55.
toFixedNoRounding(x) ==
    IF x.u = 0
    THEN IF x.e = 0 THEN {0} ELSE {x.e * m : m \in Mantissa}
    ELSE IF Magnitude(x.u) % Scale = 0 /\ x.e = -Sign(x.u)
    THEN {Truncated(x) - Sign(x.u)}
    ELSE {Truncated(x)}

\* Number.toFixed(2): to the nearest halala, either way from the middle.
toFixed2(x) ==
    LET near == (Magnitude(x.u) + Scale \div 2) \div Scale
        up   == Sign(x.u) * near
    IN  IF Magnitude(x.u) % Scale = Scale \div 2 /\ x.e # Sign(x.u)
        THEN {up, up - Sign(x.u)}
        ELSE {up}

-----------------------------------------------------------------------------
(***************************************************************************)
(* A line item: a unit price (a double), a quantity, discounts, a VAT rate *)
(* and other taxes.  The same expression price * quantity - discounts      *)
(* gives the line subtotal and, once more, the taxable amount of the       *)
(* document's tax total: the net amount of the line.                       *)
(***************************************************************************)
Nets(item) ==
    UNION {Plus(a, Neg(d)) :
             a \in Times(item.price, item.quantity), d \in Sums(item.discounts)}

\* One choice out of a set for every element of a sequence.
OneOfEach(xs, Of(_)) ==
    {f \in [DOMAIN xs -> UNION {Of(xs[i]) : i \in DOMAIN xs}] :
       \A i \in DOMAIN xs : f[i] \in Of(xs[i])}

Rates(item) == <<item.vatPercent>> \o item.otherTaxes

\* What a tax comes to on a taxable amount x, cut to halalas; the same for
\* each tax of the item.
Cuts(x, p) == UNION {toFixedNoRounding(t) : t \in Percent(x, p)}

Taxes(item, x) == OneOfEach(Rates(item), LAMBDA p : Cuts(x, p))

\* A line: its net amount, the cut subtotal, the taxes on that subtotal, their
\* sum, and the RoundingAmount, where there is one.
LineOf(item, net, subtotal, taxes, sum, withRoundingAmount) ==
    [item |-> item, net |-> net, subtotal |-> subtotal, taxes |-> taxes,
     total |-> sum,
     rounding |-> IF withRoundingAmount THEN <<subtotal + sum>> ELSE <<>>]

\* The sum of two numbers of halalas, added as doubles and cut again.
Recut(a, t) == UNION {toFixedNoRounding(x) : x \in Plus(Clean(a), Clean(t))}

RunningRecuts(ts) ==
    LET sums[n \in 0 .. Len(ts)] ==
          IF n = 0 THEN {0} ELSE UNION {Recut(a, ts[n]) : a \in sums[n - 1]}
    IN  sums

AllClean(ts) == [i \in DOMAIN ts |-> Clean(ts[i])]

\* The sum of the taxes is cut again after every tax.
buildInvoiceLineItemTotals(item, net) ==
    UNION {UNION {{LineOf(item, net, s, ts, sum, TRUE) :
                     sum \in RunningRecuts(ts)[Len(ts)]} :
                    ts \in Taxes(item, Clean(s))} :
             s \in toFixedNoRounding(net)}

\* The sum of the taxes is cut once, at the end.
buildDebitNoteLineItemTotals(item, net, withRoundingAmount) ==
    UNION {UNION {{LineOf(item, net, s, ts, sum, withRoundingAmount) :
                     sum \in UNION {toFixedNoRounding(x) : x \in Sums(AllClean(ts))}} :
                    ts \in Taxes(item, Clean(s))} :
             s \in toFixedNoRounding(net)}

-----------------------------------------------------------------------------
\* Faulty variant: the discounts are left out of the taxable amount.
TaxSubtotals_Gross(line) ==
    UNION {Taxes(line.item, x) :
             x \in Times(line.item.price, line.item.quantity)}

\* The TaxSubtotal amounts of one line: the taxes on the net amount, which is
\* not cut.  Where it is the subtotal itself the double is the same again.
TaxSubtotals(line) ==
    IF line.net = Clean(line.subtotal) THEN {line.taxes}
    ELSE Taxes(line.item, line.net)

\* The subtotals of all the lines, line by line.
AllSubtotals(lines) == OneOfEach(lines, TaxSubtotals)

LineTotals(tss) == [i \in DOMAIN tss |-> Total(tss[i])]

\* Two TaxTotal elements: the sum, rounded, with the subtotals, and the sum.
buildInvoiceTaxTotal(lines) ==
    {<<[amount |-> Total(LineTotals(tss)), subtotals |-> tss],
       [amount |-> Total(LineTotals(tss)), subtotals |-> <<>>]>> :
       tss \in AllSubtotals(lines)}

\* The sums of all the subtotals, added one by one.
RunningSubtotals(tss) ==
    LET sums[n \in 0 .. Len(tss)] ==
          IF n = 0 THEN {Zero} ELSE SumsFrom(sums[n - 1], AllClean(tss[n]))
    IN  sums

\* One TaxTotal element, and the sum is cut, not rounded.
buildDebitNoteTaxTotal(lines) ==
    UNION {{<<[amount |-> a, subtotals |-> tss]>> :
              a \in UNION {toFixedNoRounding(x) : x \in RunningSubtotals(tss)[Len(tss)]}} :
             tss \in AllSubtotals(lines)}

MonetaryTotal(subtotal, inclusive) ==
    [LineExtensionAmount |-> subtotal, TaxExclusiveAmount |-> subtotal,
     TaxInclusiveAmount |-> inclusive, PayableAmount |-> inclusive]

buildInvoiceLegalMonetaryTotal(subtotal, taxes) ==
    {MonetaryTotal(subtotal, t) :
       t \in UNION {toFixed2(x) : x \in Plus(Clean(subtotal), Clean(taxes))}}

buildDebitNoteLegalMonetaryTotal(subtotal, taxes) ==
    {MonetaryTotal(subtotal, t) :
       t \in UNION {toFixedNoRounding(x) : x \in Plus(Clean(subtotal), Clean(taxes))}}

-----------------------------------------------------------------------------
\* The Phase 1 documents: no discounts and nothing cut before the end.  The
\* amounts are the sums over all lines, and each is rounded on its own.
computeTotals(items) ==
    LET Gross == [i \in DOMAIN items |->
                    [u |-> items[i].price.u * items[i].quantity, e |-> 0]]
        Vat   == [i \in DOMAIN items |->
                    [u |-> (Gross[i].u * items[i].vatPercent) \div 100, e |-> 0]]
    IN  {[subtotal |-> s, vatAmount |-> v, total |-> t] :
           s \in UNION {toFixed2(x) : x \in Sums(Gross)},
           v \in UNION {toFixed2(x) : x \in Sums(Vat)},
           t \in UNION {toFixed2(x) : x \in Sums(Gross \o Vat)}}
=============================================================================
