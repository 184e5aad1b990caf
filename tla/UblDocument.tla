---------------------------- MODULE UblDocument -----------------------------
(***************************************************************************)
(* The UBL document of an invoice: XMLDocument, the object tree that the   *)
(* builders and the signing code query and change by path, and the six     *)
(* templates it is parsed from.                                            *)
(*                                                                         *)
(* A document gives every child tag of <Invoice> the sequence of its       *)
(* elements.  The parser makes no difference between one element and an    *)
(* array of one, and none between no element and an empty array.  A        *)
(* template gives every slot, in document order, the token that stands     *)
(* there; a token is the sequence of the words between its underscores, so *)
(* that SET_CITY is a prefix of SET_CITY_SUBDIVISION.                      *)
(***************************************************************************)
EXTENDS Naturals, Sequences, SequencesExt

\* XMLDocument.get: the elements at a tag, those that match a condition.
get(doc, tag) == doc[tag]

\* Faulty variant: the condition is ignored.
deleteWhere_All(doc, tag, id) == [doc EXCEPT ![tag] = <<>>]

\* XMLDocument.delete without a condition, and with the condition cbc:ID = id,
\* which spares the elements that do not match.
delete(doc, tag) == [doc EXCEPT ![tag] = <<>>]

Spare(xs, id) ==
    LET kept[n \in 0 .. Len(xs)] ==
          IF n = 0 THEN <<>>
          ELSE IF xs[n].id = id THEN kept[n - 1] ELSE Append(kept[n - 1], xs[n])
    IN  kept[Len(xs)]

deleteWhere(doc, tag, id) == [doc EXCEPT ![tag] = Spare(@, id)]

\* Faulty variant: never overwrites.
set_Appends(doc, tag, overwrite, x) == [doc EXCEPT ![tag] = Append(@, x)]

\* XMLDocument.set: replaces what is at the tag, or appends to it; one call for
\* each of a sequence of elements.
set(doc, tag, overwrite, x) ==
    [doc EXCEPT ![tag] = IF overwrite THEN <<x>> ELSE Append(@, x)]

SetAll(doc, tag, xs) ==
    LET after[n \in 0 .. Len(xs)] ==
          IF n = 0 THEN doc ELSE set(after[n - 1], tag, FALSE, xs[n])
    IN  after[Len(xs)]

-----------------------------------------------------------------------------
(***************************************************************************)
(* Templates.  The text of a slot is what has been written there, followed *)
(* by the words of the token that are still there.                         *)
(***************************************************************************)
Slots == <<"UBLExtensions", "ID", "UUID", "IssueDate", "IssueTime",
           "InvoiceTypeCode", "BillingReference", "ICV", "PIH", "QR", "CRN",
           "StreetName", "BuildingNumber", "PlotIdentification",
           "CitySubdivisionName", "CityName", "PostalZone", "CompanyID",
           "RegistrationName", "Customer">>

Token ==
    [UBLExtensions       |-> <<"SET", "UBL", "EXTENSIONS", "STRING">>,
     ID                  |-> <<"SET", "INVOICE", "SERIAL", "NUMBER">>,
     UUID                |-> <<"SET", "TERMINAL", "UUID">>,
     IssueDate           |-> <<"SET", "ISSUE", "DATE">>,
     IssueTime           |-> <<"SET", "ISSUE", "TIME">>,
     InvoiceTypeCode     |-> <<"SET", "INVOICE", "TYPE">>,
     BillingReference    |-> <<"SET", "BILLING", "REFERENCE">>,
     ICV                 |-> <<"SET", "INVOICE", "COUNTER", "NUMBER">>,
     PIH                 |-> <<"SET", "PREVIOUS", "INVOICE", "HASH">>,
     QR                  |-> <<"SET", "QR", "CODE", "DATA">>,
     CRN                 |-> <<"SET", "COMMERCIAL", "REGISTRATION", "NUMBER">>,
     StreetName          |-> <<"SET", "STREET", "NAME">>,
     BuildingNumber      |-> <<"SET", "BUILDING", "NUMBER">>,
     PlotIdentification  |-> <<"SET", "PLOT", "IDENTIFICATION">>,
     CitySubdivisionName |-> <<"SET", "CITY", "SUBDIVISION">>,
     CityName            |-> <<"SET", "CITY">>,
     PostalZone          |-> <<"SET", "POSTAL", "NUMBER">>,
     CompanyID           |-> <<"SET", "VAT", "NUMBER">>,
     RegistrationName    |-> <<"SET", "VAT", "NAME">>,
     Customer            |-> <<"SET", "BUYER", "INFO">>]

\* A template: the subtype literal and the slots that hold a token.
Template(subtype, slots) ==
    [subtype |-> subtype,
     text |-> [s \in Range(Slots) |->
                 [written |-> <<>>,
                  left |-> IF s \in slots THEN Token[s] ELSE <<>>]]]

SellerSlots == Range(Slots) \ {"Customer"}

SimplifiedTaxInvoiceTemplate == Template("0211010", Range(Slots))
StandardTaxInvoiceTemplate   == Template("0100000", SellerSlots)
SimplifiedCreditNoteTemplate == Template("0200000", SellerSlots)
StandardCreditNoteTemplate   == Template("0100000", SellerSlots)
SimplifiedDebitNoteTemplate  == Template("0200000", SellerSlots)
StandardDebitNoteTemplate    == Template("0100000", SellerSlots)

\* String.replace with a string: the first place, in document order, where the
\* search string begins; what follows it there stays.
Replace(template, search, value) ==
    LET At == SelectInSeq(Slots, LAMBDA s : IsPrefix(search, template.text[s].left))
    IN  IF At = 0 THEN template
        ELSE [template EXCEPT !.text[Slots[At]] =
                [written |-> Append(@.written, value),
                 left    |-> SubSeq(@.left, Len(search) + 1, Len(@.left))]]

\* The template after the first n of a sequence of replacements.
Replaced(template, substitutions) ==
    LET after[n \in 0 .. Len(substitutions)] ==
          IF n = 0 THEN template
          ELSE Replace(after[n - 1], substitutions[n][1], substitutions[n][2])
    IN  after

ApplyAll(template, substitutions) ==
    Replaced(template, substitutions)[Len(substitutions)]

-----------------------------------------------------------------------------
(***************************************************************************)
(* The populators.  in is the input of a builder; optional fields are      *)
(* sequences of at most one element.                                       *)
(***************************************************************************)
InvoiceCode == "388"
DebitCode   == "383"
CreditCode  == "381"

\* The type code is the cancelation's, if there is one.
TypeCode(in, default) ==
    IF in.cancelation # <<>> THEN in.cancelation[1].cancelationType ELSE default

generateInvoiceBillingReference(canceledInvoiceNumber) ==
    [InvoiceDocumentReference |-> canceledInvoiceNumber]

BillingReference(in) ==
    IF in.cancelation # <<>>
    THEN <<generateInvoiceBillingReference(in.cancelation[1].canceledInvoiceNumber)>>
    ELSE <<>>

\* Faulty variant: the city before the city subdivision.
LocationSubstitutions_CityFirst(egs) ==
    <<<<Token.CityName, egs.cityName>>,
      <<Token.CitySubdivisionName, egs.citySubdivision>>,
      <<Token.StreetName, egs.street>>,
      <<Token.BuildingNumber, egs.building>>,
      <<Token.PlotIdentification, egs.plotIdentification>>,
      <<Token.PostalZone, egs.postalZone>>>>

LocationSubstitutions(egs) ==
    <<<<Token.StreetName, egs.street>>,
      <<Token.BuildingNumber, egs.building>>,
      <<Token.PlotIdentification, egs.plotIdentification>>,
      <<Token.CitySubdivisionName, egs.citySubdivision>>,
      <<Token.CityName, egs.cityName>>,
      <<Token.PostalZone, egs.postalZone>>>>

\* The replacements every populator makes, in its order.
Substitutions(in, default) ==
    <<<<Token.InvoiceTypeCode, TypeCode(in, default)>>,
      <<Token.BillingReference, BillingReference(in)>>,
      <<Token.ID, in.invoiceSerialNumber>>,
      <<Token.UUID, in.egsInfo.uuid>>,
      <<Token.IssueDate, in.issueDate>>,
      <<Token.IssueTime, in.issueTime>>,
      <<Token.PIH, in.previousInvoiceHash>>,
      <<Token.ICV, in.invoiceCounterNumber>>,
      <<Token.CRN, in.egsInfo.crnNumber>>>>
    \o LocationSubstitutions(in.egsInfo)
    \o <<<<Token.CompanyID, in.egsInfo.vatNumber>>,
         <<Token.RegistrationName, in.egsInfo.vatName>>>>

populateSimplifiedTaxInvoiceTemplate(in) ==
    ApplyAll(SimplifiedTaxInvoiceTemplate,
               Append(Substitutions(in, InvoiceCode),
                      <<Token.Customer, in.buyerName>>))

populateStandardTaxInvoiceTemplate(in) ==
    ApplyAll(StandardTaxInvoiceTemplate, Substitutions(in, InvoiceCode))

\* A credit note without a cancelation is a 388, as the comment in the code
\* says: the legacy fallback is kept.
populateSimplifiedCreditNoteTemplate(in) ==
    ApplyAll(SimplifiedCreditNoteTemplate, Substitutions(in, InvoiceCode))

populateStandardCreditNoteTemplate(in) ==
    ApplyAll(StandardCreditNoteTemplate, Substitutions(in, InvoiceCode))

populateSimplifiedDebitNoteTemplate(in) ==
    ApplyAll(SimplifiedDebitNoteTemplate, Substitutions(in, DebitCode))

populateStandardDebitNoteTemplate(in) ==
    ApplyAll(StandardDebitNoteTemplate, Substitutions(in, DebitCode))

\* new XMLDocument(xml).
Parse(t) ==
    LET X == t.text
    IN  [UBLExtensions               |-> <<X.UBLExtensions>>,
         ID                          |-> <<X.ID>>,
         UUID                        |-> <<X.UUID>>,
         IssueDate                   |-> <<X.IssueDate>>,
         IssueTime                   |-> <<X.IssueTime>>,
         InvoiceTypeCode             |-> <<[name |-> t.subtype,
                                            text |-> X.InvoiceTypeCode]>>,
         BillingReference            |-> X.BillingReference.written[1],
         AdditionalDocumentReference |-> <<[id |-> "ICV", text |-> X.ICV],
                                           [id |-> "PIH", text |-> X.PIH],
                                           [id |-> "QR",  text |-> X.QR]>>,
         Signature                   |-> <<"xades">>,
         AccountingSupplierParty     |-> <<[s \in {"CRN", "StreetName",
             "BuildingNumber", "PlotIdentification", "CitySubdivisionName",
             "CityName", "PostalZone", "CompanyID", "RegistrationName"} |-> X[s]]>>,
         AccountingCustomerParty     |-> IF X.Customer.written = <<>> THEN <<>>
                                        ELSE X.Customer.written[1],
         PaymentMeans                |-> <<>>,
         TaxTotal                    |-> <<>>,
         LegalMonetaryTotal          |-> <<>>,
         InvoiceLine                 |-> <<>>]
=============================================================================
