--------------------------- MODULE DocumentBuild ----------------------------
(***************************************************************************)
(* The builders of the eight document kinds: BaseInvoiceBuilder.build and  *)
(* the two Phase 1 builders, one after the other, for one tenant.  Each    *)
(* document gets the next counter value of its month, and a Phase 2        *)
(* document the hash of the one of its kind before it, as the issuers hand *)
(* them out when calls do not overlap (module InvoiceIssue has them        *)
(* overlap).                                                               *)
(***************************************************************************)
EXTENDS Amounts, SignedDocument

CONSTANTS
    Month,
    Requests,     \* for each document, the ways a caller may ask for it: the
                  \* month in which it does, kind, party and cancelation data,
                  \* line items
    Certificate   \* the signing certificates the tenant may have

\* An optional part of a request is a sequence of at most one element.
Optional(part) == part = <<>> \/ part = <<part[1]>>

LineItem ==
    [price : Double, quantity : Nat, discounts : Seq(Double),
     vatPercent : Nat, otherTaxes : Seq(Nat)]

ASSUME BuildAssumption ==
    /\ Requests \in Seq(Range(Requests))
    /\ \A i \in DOMAIN Requests : \A r \in Requests[i] :
           /\ r.month \in Month
           /\ Optional(r.cancelation) /\ Optional(r.buyerName) /\ Optional(r.buyerInfo)
           /\ r.lineItems \in Seq(LineItem) /\ r.lineItems # <<>>

VARIABLES
    pc,        \* "idle", "lines" or "sign"
    asked,     \* documents asked for
    counter,   \* month -> invoice counter numbers handed out
    input,     \* the input of the document being built, as normalised
    template,  \* its populated template
    doc,       \* its XMLDocument
    lines,     \* its line totals so far
    built      \* the documents built

vars == <<pc, asked, counter, input, template, doc, lines, built>>

-----------------------------------------------------------------------------
(***************************************************************************)
(* What a concrete builder chooses: its arithmetic, its type code, and the *)
(* flags that go with them.  Debit notes put allowances at the line's top. *)
(***************************************************************************)
SimplifiedTaxInvoiceBuilder ==
    [code |-> InvoiceCode, simplified |-> TRUE, debit |-> FALSE,
     withRoundingAmount |-> TRUE]

StandardTaxInvoiceBuilder ==
    [code |-> InvoiceCode, simplified |-> FALSE, debit |-> FALSE,
     withRoundingAmount |-> TRUE]

SimplifiedCreditNoteBuilder ==
    [code |-> CreditCode, simplified |-> TRUE, debit |-> FALSE,
     withRoundingAmount |-> TRUE]

StandardCreditNoteBuilder ==
    [code |-> CreditCode, simplified |-> FALSE, debit |-> FALSE,
     withRoundingAmount |-> TRUE]

SimplifiedDebitNoteBuilder ==
    [code |-> DebitCode, simplified |-> TRUE, debit |-> TRUE,
     withRoundingAmount |-> FALSE]

StandardDebitNoteBuilder ==
    [code |-> DebitCode, simplified |-> FALSE, debit |-> TRUE,
     withRoundingAmount |-> TRUE]

Phase2Kind == {"simplified-tax-invoice", "standard-tax-invoice",
               "simplified-credit-note", "standard-credit-note",
               "simplified-debit-note", "standard-debit-note"}

Builder ==
    [k \in Phase2Kind |->
       CASE k = "simplified-tax-invoice" -> SimplifiedTaxInvoiceBuilder
         [] k = "standard-tax-invoice"   -> StandardTaxInvoiceBuilder
         [] k = "simplified-credit-note" -> SimplifiedCreditNoteBuilder
         [] k = "standard-credit-note"   -> StandardCreditNoteBuilder
         [] k = "simplified-debit-note"  -> SimplifiedDebitNoteBuilder
         [] k = "standard-debit-note"    -> StandardDebitNoteBuilder]

Phase1Kind == {"phase1-invoice", "phase1-credit-note"}
Note == {k \in Phase2Kind : Builder[k].code # InvoiceCode}
            \cup {"phase1-credit-note"}

templateFn(in) ==
    CASE in.kind = "simplified-tax-invoice" -> populateSimplifiedTaxInvoiceTemplate(in)
      [] in.kind = "standard-tax-invoice"   -> populateStandardTaxInvoiceTemplate(in)
      [] in.kind = "simplified-credit-note" -> populateSimplifiedCreditNoteTemplate(in)
      [] in.kind = "standard-credit-note"   -> populateStandardCreditNoteTemplate(in)
      [] in.kind = "simplified-debit-note"  -> populateSimplifiedDebitNoteTemplate(in)
      [] in.kind = "standard-debit-note"    -> populateStandardDebitNoteTemplate(in)

\* The refinements of the schema of each kind, which a host may check first.
\* The builders do not.
schemaAccepts(in) ==
    /\ in.kind = "simplified-tax-invoice" => in.buyerName # <<>>
    /\ in.kind \in Note => in.cancelation # <<>>
    /\ in.kind \in Phase2Kind =>
           (~Builder[in.kind].simplified => in.buyerInfo # <<>>)

\* An address and a VAT number are optional parts of a buyer.
buildBuyerInfoXml(buyer) ==
    [PartyIdentification |-> buyer.identityNumber,
     PostalAddress |-> buyer.address, PartyTaxScheme |-> buyer.vatNumber,
     RegistrationName |-> buyer.registrationName]

-----------------------------------------------------------------------------
NoTemplate == Template("", {})

Init ==
    /\ pc = "idle"
    /\ asked = 0
    /\ counter = [m \in Month |-> 0]
    /\ input = <<>>
    /\ template = NoTemplate
    /\ doc = <<>>
    /\ lines = <<>>
    /\ built = <<>>

\* The places of the Phase 2 documents, which are the ones that are chained.
Chained == {k \in DOMAIN built : built[k].input.kind \in Phase2Kind}

\* The chain of a kind.
Chain(kind) == {k \in Chained : built[k].input.kind = kind}

\* getPreviousHash, which has one head per kind, after a sequence of calls that
\* did not overlap.  The Phase 1 issuers, which do not call it, pass BaseHash.
PreviousHash(kind) ==
    IF Chain(kind) = {} THEN BaseHash ELSE built[Max(Chain(kind))].invoiceHash

\* A counter row is that of the month in which incrementCounter is called.
incrementCounter(r) ==
    /\ counter' = [counter EXCEPT ![r.month] = @ + 1]
    /\ asked' = asked + 1

\* The sequence of the counter row is the counter number, the month and the
\* sequence are the serial.  The constructor normalises the issue time.
FullInput(r) ==
    [kind |-> r.kind, cancelation |-> r.cancelation, buyerName |-> r.buyerName,
     buyerInfo |-> r.buyerInfo, issueDate |-> r.issueDate,
     issueTime |-> ensureZatcaTimeZ(r.issueTime), egsInfo |-> r.egsInfo,
     lineItems |-> r.lineItems, invoiceCounterNumber |-> counter[r.month] + 1,
     invoiceSerialNumber |-> [month |-> r.month, sequence |-> counter[r.month] + 1],
     previousInvoiceHash |-> PreviousHash(r.kind)]

injectBuyerParty(d, in) ==
    IF in.buyerInfo = <<>> THEN d
    ELSE set(d, "AccountingCustomerParty", TRUE, buildBuyerInfoXml(in.buyerInfo[1]))

\* A Phase 2 builder is made and fills its template.
Render(r) ==
    LET in == FullInput(r)
        t  == templateFn(in)
    IN  /\ pc = "idle"
        /\ r.kind \in Phase2Kind
        /\ pc' = "lines"
        /\ incrementCounter(r)
        /\ input' = <<in>>
        /\ template' = t
        /\ doc' = <<injectBuyerParty(Parse(t), in)>>
        /\ lines' = <<>>
        /\ UNCHANGED built

\* One turn of the loop over the line items.
BuildLine ==
    /\ pc = "lines"
    /\ Len(lines) < Len(input[1].lineItems)
    /\ LET item == input[1].lineItems[Len(lines) + 1]
           b    == Builder[input[1].kind]
       IN  \E net \in Nets(item) :
           \E line \in IF b.debit
                       THEN buildDebitNoteLineItemTotals(item, net, b.withRoundingAmount)
                       ELSE buildInvoiceLineItemTotals(item, net) :
               lines' = Append(lines, line)
    /\ UNCHANGED <<pc, asked, counter, input, template, doc, built>>

\* Allowances are written under the price, or at the top of the line when there
\* are some; debit notes cut the unit price.
assembleLineItemXml(line, b) ==
    [LineExtensionAmount |-> line.subtotal, TaxAmount |-> line.total,
     RoundingAmount |-> line.rounding,
     PriceAmount |-> IF b.debit THEN {Clean(h) : h \in toFixedNoRounding(line.item.price)}
                     ELSE {line.item.price},
     PriceAllowances |-> IF b.debit THEN <<>> ELSE line.item.discounts,
     LineAllowances |-> IF b.debit THEN line.item.discounts ELSE <<>>]

PaymentMeans(in) ==
    [i \in DOMAIN in.cancelation |->
       [PaymentMeansCode |-> in.cancelation[i].paymentMethod,
        InstructionNote |-> in.cancelation[i].reason]]

\* The rest of build up to the signature: payment means, tax totals, monetary
\* total, lines.  The sums over the lines are rounded, which takes out the
\* error of adding doubles.
Totals ==
    LET in        == input[1]
        b         == Builder[in.kind]
        subtotal  == Total([i \in DOMAIN lines |-> lines[i].subtotal])
        taxes     == Total([i \in DOMAIN lines |-> lines[i].total])
        TaxTotals == IF b.debit THEN buildDebitNoteTaxTotal(lines)
                     ELSE buildInvoiceTaxTotal(lines)
        Monetary  == IF b.debit THEN buildDebitNoteLegalMonetaryTotal(subtotal, taxes)
                     ELSE buildInvoiceLegalMonetaryTotal(subtotal, taxes)
    IN  /\ pc = "lines"
        /\ Len(lines) = Len(in.lineItems)
        /\ \E tt \in TaxTotals, m \in Monetary :
               LET paid  == SetAll(doc[1], "PaymentMeans", PaymentMeans(in))
                   taxed == SetAll(paid, "TaxTotal", tt)
                   due   == set(taxed, "LegalMonetaryTotal", TRUE, m)
               IN  doc' = <<SetAll(due, "InvoiceLine",
                              [i \in DOMAIN lines |-> assembleLineItemXml(lines[i], b)])>>
        /\ pc' = "sign"
        /\ UNCHANGED <<asked, counter, input, template, lines, built>>

Built(d, hash, qr) ==
    Append(built, [input |-> input[1], lines |-> lines, doc |-> d,
                   invoiceHash |-> hash, qr |-> qr])

\* generateSignedXMLString returns, or throws and the document is lost.
SignDocument(certificate) ==
    LET result == generateSignedXMLString(doc[1], certificate)
    IN  /\ pc = "sign"
        /\ built' = IF result.ok
                    THEN Built(result.signed, result.invoice_hash, result.qr)
                    ELSE built
        /\ pc' = "idle"
        /\ UNCHANGED <<asked, counter, input, template, doc, lines>>

\* A literal of a Phase 1 document.
Literal(v) == [written |-> <<v>>, left |-> <<>>]

\* A Phase 1 document is written in one go, unsigned, and read back for its QR.
Phase1Document(in, code, billing, sums) ==
    [ID                      |-> <<Literal(in.invoiceSerialNumber)>>,
     IssueDate               |-> <<Literal(in.issueDate)>>,
     IssueTime               |-> <<Literal(in.issueTime)>>,
     InvoiceTypeCode         |-> <<[name |-> "0100000", text |-> Literal(code)]>>,
     BillingReference        |-> billing,
     AccountingSupplierParty |-> <<[RegistrationName |-> Literal(in.egsInfo.vatName),
                                    CompanyID |-> Literal(in.egsInfo.vatNumber)]>>,
     AccountingCustomerParty |-> IF in.buyerName # <<>> THEN in.buyerName
                                 ELSE <<"Customer">>,
     TaxTotal                |-> <<[amount |-> sums.vatAmount]>>,
     LegalMonetaryTotal      |-> <<MonetaryTotal(sums.subtotal, sums.total)>>]

Phase1InvoiceBuilder(in, sums) ==
    Phase1Document(in, InvoiceCode, <<>>, sums)

\* The billing reference is there even when there is nothing to refer to.
Phase1CreditNoteBuilder(in, sums) ==
    Phase1Document(in, CreditCode,
        <<[InvoiceDocumentReference |->
             IF in.cancelation = <<>> THEN 0
             ELSE in.cancelation[1].canceledInvoiceNumber]>>, sums)

Phase1(r) ==
    LET in == FullInput(r)
    IN  /\ pc = "idle"
        /\ r.kind \in Phase1Kind
        /\ \E sums \in computeTotals(in.lineItems) :
               LET d  == IF r.kind = "phase1-invoice"
                         THEN Phase1InvoiceBuilder(in, sums)
                         ELSE Phase1CreditNoteBuilder(in, sums)
                   qr == generatePhase1QR(d)
               IN  built' = IF qr = <<>> THEN built
                            ELSE Append(built, [input |-> in, lines |-> <<>>,
                                   doc |-> d, invoiceHash |-> BaseHash, qr |-> qr])
        /\ incrementCounter(r)
        /\ UNCHANGED <<pc, input, template, doc, lines>>

Next ==
    \/ asked < Len(Requests) /\ \E r \in Requests[asked + 1] : Render(r) \/ Phase1(r)
    \/ BuildLine
    \/ Totals
    \/ \E c \in Certificate : SignDocument(c)

Spec == Init /\ [][Next]_vars
-----------------------------------------------------------------------------
(***************************************************************************)
(* Properties.                                                             *)
(***************************************************************************)
\* BaseInvoiceBuilder.build: no slot of a template is replaced twice, amounts
\* stay whole halalas, and at most one document comes out per counter value.
TypeOK ==
    /\ pc \in {"idle", "lines", "sign"}
    /\ asked \in 0 .. Len(Requests)
    /\ counter \in [Month -> Nat]
    /\ Len(input) <= 1 /\ Len(doc) <= 1
    /\ \A s \in Range(Slots) : Len(template.text[s].written) <= 1
    /\ \A l \in Range(lines) :
           /\ {l.subtotal, l.total} \cup Range(l.taxes) \subseteq Int
           /\ l.net.e \in Side
    /\ Len(built) <= asked

\* The value every slot of a template is for.
Own(in) ==
    [ID |-> in.invoiceSerialNumber, UUID |-> in.egsInfo.uuid,
     IssueDate |-> in.issueDate, IssueTime |-> in.issueTime,
     InvoiceTypeCode |-> TypeCode(in, IF Builder[in.kind].debit THEN DebitCode
                                      ELSE InvoiceCode),
     BillingReference |-> BillingReference(in),
     ICV |-> in.invoiceCounterNumber, PIH |-> in.previousInvoiceHash,
     CRN |-> in.egsInfo.crnNumber, StreetName |-> in.egsInfo.street,
     BuildingNumber |-> in.egsInfo.building,
     PlotIdentification |-> in.egsInfo.plotIdentification,
     CitySubdivisionName |-> in.egsInfo.citySubdivision,
     CityName |-> in.egsInfo.cityName, PostalZone |-> in.egsInfo.postalZone,
     CompanyID |-> in.egsInfo.vatNumber, RegistrationName |-> in.egsInfo.vatName]

\* populate*Template: a chain of first-match replacements whose tokens are
\* prefixes of one another fills every slot with its own value, and leaves the
\* two tokens that the signing code replaces, untouched, and no other.
SlotsFilled ==
    pc # "idle" =>
        /\ \A s \in DOMAIN Own(input[1]) :
               template.text[s] = Literal(Own(input[1])[s])
        /\ \A s \in {"UBLExtensions", "QR"} :
               template.text[s] = [written |-> <<>>, left |-> Token[s]]
        /\ template.text["Customer"].left = <<>>

\* The transforms that the signature in the document declares.
Transforms(d) ==
    [d EXCEPT !.UBLExtensions = <<>>, !.Signature = <<>>,
              !.AdditionalDocumentReference =
                  Spare(@, "QR")]

Extension(d) == Text(d.UBLExtensions[1])

\* generateSignedXMLString: whoever applies the transforms named in the signed
\* document to that document gets the digest in it, which the signature is over
\* and the next document chains to, although the digest was taken before the
\* extension and the QR code were put in.
SignedVerifies ==
    \A i \in Chained :
        LET b == built[i]
            x == Extension(b.doc)
        IN  /\ x.DigestValue = <<Transforms(b.doc)>>
            /\ x.DigestValue = b.invoiceHash
            /\ x.SignatureValue = [over |-> x.DigestValue, key |-> x.X509Certificate]
            /\ x.PropertiesDigestValue = <<x.SignedProperties>>
            /\ x.SignedProperties.CertDigest = getCertificateHash(x.X509Certificate)

\* getPureInvoiceString: the counter value and the previous hash are part of
\* what is hashed, so that the hash of a document fixes all its predecessors of
\* its kind, over the months; the counter values rise over all kinds within a
\* month (over a change of month they start again, see IcvRises).
ChainVerifies ==
    \A i \in Chained :
        LET refs   == built[i].invoiceHash[1].AdditionalDocumentReference
            month  == built[i].input.invoiceSerialNumber.month
            before == {j \in Chained :
                          j < i /\ built[j].input.invoiceSerialNumber.month = month}
            same   == {j \in Chain(built[i].input.kind) : j < i}
        IN  /\ \E k \in DOMAIN refs :
                   /\ refs[k].id = "PIH"
                   /\ Text(refs[k].text) = IF same = {} THEN BaseHash
                                           ELSE <<Transforms(built[Max(same)].doc)>>
            /\ \E k \in DOMAIN refs :
                   /\ refs[k].id = "ICV"
                   /\ \A j \in before :
                          Text(refs[k].text) > built[j].input.invoiceCounterNumber

\* generatePhase1QR and generatePhase2QR: the QR code of a document reads as
\* what the finished document says, and no length byte has wrapped.
QrMatches ==
    \A k \in DOMAIN built :
        LET b == built[k]
            V(i) == b.qr[i].of.value
            d    == b.doc
        IN  /\ \A i \in DOMAIN b.qr :
                   b.qr[i].tag = i /\ b.qr[i].length = b.qr[i].of.bytes
            /\ b.qr[1].of = Text(Supplier(d).RegistrationName)
            /\ V(2) = Text(Supplier(d).CompanyID)
            /\ V(4) = d.LegalMonetaryTotal[1].PayableAmount
            /\ V(5) = Last(d.TaxTotal).amount
            /\ b.input.kind \in Phase2Kind =>
                   /\ Text(AdditionalReference(d, "QR")) = b.qr
                   /\ V(6) = Extension(d).DigestValue
                   /\ V(7) = Extension(d).SignatureValue
                   /\ V(8) = Extension(d).X509Certificate

\* invoices/base.ts: "the XML `<cbc:IssueTime>`, the QR timestamp, and the XAdES
\* SigningTime all agree", whatever the host's time zone.
TimesAgree ==
    \A k \in DOMAIN built :
        LET b == built[k]
            issued == [date |-> Text(b.doc.IssueDate[1]),
                       clock |-> Text(b.doc.IssueTime[1]).clock, shift |-> 0]
        IN  /\ b.qr[3].of.value = issued
            /\ b.input.kind \in Phase2Kind => Extension(b.doc).SignedProperties.SigningTime = issued

\* BaseInvoiceBuilder.build: a document its kind's schema accepts has one
\* customer party, one monetary total, the number of tax totals of its family
\* and all its lines, and a note says what it cancels and why.
PartsOnce ==
    \A i \in Chained : LET b == built[i] IN
        /\ Len(b.doc.LegalMonetaryTotal) = 1
        /\ Len(b.doc.TaxTotal) = IF Builder[b.input.kind].debit THEN 1 ELSE 2
        /\ Len(b.doc.InvoiceLine) = Len(b.input.lineItems)
        /\ Len(b.doc.AccountingCustomerParty) <= 1
        /\ schemaAccepts(b.input) =>
              /\ b.input.kind \in Note =>
                     Len(b.doc.BillingReference) = 1 /\ Len(b.doc.PaymentMeans) = 1
              /\ \/ b.input.kind \in {"simplified-credit-note", "simplified-debit-note"}
                 \/ Len(b.doc.AccountingCustomerParty) = 1

\* A line whose price and discounts cancel may be left with nothing but the
\* error of the doubles, discounts may exceed the price, and the tax on less than
\* a hundredth of a halala may print with an exponent: none of them is ordinary.
\* Nor is a tax that takes all.
Ordinary(line) ==
    /\ line.net = Zero \/ line.net.u >= 100
    /\ \A i \in DOMAIN Rates(line.item) : Rates(line.item)[i] < 100

Within(a, b, n) == Magnitude(a - b) <= n

\* shared-tax-arithmetic.ts and shared-debit-note-arithmetic.ts: the amounts of
\* a document are computed three times over, from cut and from uncut numbers.
\* If all lines are ordinary they drift apart by at most one halala for every
\* cut: the sum of the lines is exact, a payable amount lacks at most one halala
\* of it with its taxes, and the tax total is within two halalas per tax of what
\* the lines say: one for the tax itself, one for the sum that it is added to.
TotalsCohere ==
    \A k \in Chained :
        LET b     == built[k]
            m     == b.doc.LegalMonetaryTotal[1]
            debit == Builder[b.input.kind].debit
            sub   == Total([i \in DOMAIN b.lines |-> b.doc.InvoiceLine[i].LineExtensionAmount])
            tax   == Total([i \in DOMAIN b.lines |-> b.doc.InvoiceLine[i].TaxAmount])
            n     == Total([i \in DOMAIN b.lines |-> Len(b.doc.TaxTotal[1].subtotals[i])])
        IN  (\A i \in DOMAIN b.lines : Ordinary(b.lines[i])) =>
                /\ m.TaxExclusiveAmount = sub
                /\ m.PayableAmount - (sub + tax) \in IF debit THEN {-1, 0} ELSE {0}
                /\ Within(b.doc.TaxTotal[1].amount, tax, 2 * n)

(***************************************************************************)
(* What the repository says and the code does not do.                      *)
(***************************************************************************)
\* invoices/fixed-no-rounding.ts:28: "Truncates `value` to `n` fractional
\* digits": the amount of a line is less than a halala from its value.
LineIsTruncated ==
    \A l \in Range(lines) : Within(l.subtotal * Scale, l.net.u, Scale)

\* types/storage.ts:8: "every EGS keeps a strictly monotonic invoice counter
\* (ICV)": a document has a higher counter value than all before it.
IcvRises ==
    \A i, j \in Chained :
        j < i => built[i].input.invoiceCounterNumber > built[j].input.invoiceCounterNumber
=============================================================================
