--------------------------- MODULE SignedDocument ---------------------------
(***************************************************************************)
(* From a document to its signed form: the hash that chains it to its      *)
(* successor, the signature, the QR code and the UBL extension that        *)
(* carries the signature.  Hashes are the hashed content itself, in a      *)
(* sequence of one: equal exactly when the content is.                     *)
(***************************************************************************)
EXTENDS UblDocument

CONSTANTS
    HostOffset,  \* how far the host's time zone is from UTC
    MaxLength    \* the length a TLV segment can hold (255)

ASSUME SigningAssumption ==
    /\ HostOffset \in Nat
    /\ MaxLength \in Nat \ {0}

BaseHash == <<>>

\* The text of an element, once its token is replaced.
Text(x) == x.written[1]

AdditionalReference(doc, id) ==
    LET refs == doc.AdditionalDocumentReference
    IN  refs[SelectInSeq(refs, LAMBDA r : r.id = id)].text

-----------------------------------------------------------------------------
\* Faulty variant: the QR reference is left in the hashed content.
getPureInvoiceString_KeepsQr(doc) == delete(delete(doc, "UBLExtensions"), "Signature")

\* What the hash is taken over.
getPureInvoiceString(doc) ==
    deleteWhere(delete(delete(doc, "UBLExtensions"), "Signature"),
                "AdditionalDocumentReference", "QR")

getInvoiceHash(doc) == <<getPureInvoiceString(doc)>>

createInvoiceDigitalSignature(invoice_hash, key) ==
    [over |-> invoice_hash, key |-> key]

\* What node:crypto and @fidm/x509 read from a certificate: its key pair is
\* named like the certificate.
getCertificateHash(certificate) == [hashOf |-> certificate]

extractCertificateInfo(certificate) ==
    [hash          |-> getCertificateHash(certificate),
     issuer        |-> [issuerOf |-> certificate],
     serial_number |-> [serialOf |-> certificate],
     public_key    |-> certificate,
     signature     |-> [signatureOf |-> certificate]]

-----------------------------------------------------------------------------
(***************************************************************************)
(* Times.  An issue time is a wall clock reading, with the UTC designator  *)
(* z or without; new Date() reads one without it in the host's time zone.  *)
(***************************************************************************)
\* Faulty variant: what the caller sent is kept.
ensureZatcaTimeZ_Kept(time) == time

ensureZatcaTimeZ(time) == [clock |-> time.clock, z |-> TRUE]

formatSignTimestamp(date, time) ==
    [date |-> date, clock |-> time.clock,
     shift |-> IF time.z THEN 0 ELSE HostOffset]

readIssueTimestamp(doc) ==
    [date |-> Text(doc.IssueDate[1]), clock |-> Text(doc.IssueTime[1]).clock,
     shift |-> 0]

-----------------------------------------------------------------------------
(***************************************************************************)
(* QR codes.  A value is a pair of what it is and how many bytes it takes. *)
(***************************************************************************)
Short(v) == [value |-> v, bytes |-> 1]

\* Faulty variant: no cap, so that the length byte wraps.
createTLV_Wraps(values) ==
    [i \in DOMAIN values |->
       [tag |-> i, length |-> values[i].bytes % (MaxLength + 1), of |-> values[i]]]

\* RangeError, here no segment at all, if a value is too long for its length.
createTLV(values) ==
    IF \E i \in DOMAIN values : values[i].bytes > MaxLength THEN <<>>
    ELSE [i \in DOMAIN values |->
            [tag |-> i, length |-> values[i].bytes, of |-> values[i]]]

Supplier(doc) == doc.AccountingSupplierParty[1]

\* The first five tags: the seller, its VAT number, the time, the document's
\* total with tax and the amount of its first TaxTotal.
SellerTags(doc) ==
    <<Text(Supplier(doc).RegistrationName),
      Short(Text(Supplier(doc).CompanyID)),
      Short(readIssueTimestamp(doc)),
      Short(get(doc, "LegalMonetaryTotal")[1].TaxInclusiveAmount),
      Short(get(doc, "TaxTotal")[1].amount)>>

generatePhase1QR(doc) == createTLV(SellerTags(doc))

generatePhase2QR(doc, invoiceHash, digitalSignature, info) ==
    createTLV(SellerTags(doc) \o
              <<Short(invoiceHash), Short(digitalSignature),
                Short(info.public_key), Short(info.signature)>>)

-----------------------------------------------------------------------------
\* The two renderings of the SignedProperties carry the same values, so the
\* digest of the one for signing stands for them.
populateSignedProperties(timestamp, info) ==
    [SigningTime |-> timestamp, CertDigest |-> info.hash,
     X509IssuerName |-> info.issuer, X509SerialNumber |-> info.serial_number]

populateUBLSignExtension(invoice_hash, properties, signature, certificate) ==
    [DigestValue           |-> invoice_hash,
     PropertiesDigestValue |-> <<properties>>,
     SignatureValue        |-> signature,
     X509Certificate       |-> certificate,
     SignedProperties      |-> properties]

\* String.replace of a token that fills its slot.
Fill(x, value) == [written |-> Append(x.written, value), left |-> <<>>]

FillQr(refs, qr) ==
    [i \in DOMAIN refs |-> IF refs[i].id = "QR"
                           THEN [refs[i] EXCEPT !.text = Fill(@, qr)]
                           ELSE refs[i]]

\* The hash and the QR come from the document as it was; the extension and the
\* QR go into a copy.
generateSignedXMLString(doc, certificate) ==
    LET invoice_hash == getInvoiceHash(doc)
        cert_info    == extractCertificateInfo(certificate)
        signature    == createInvoiceDigitalSignature(invoice_hash, certificate)
        qr           == generatePhase2QR(doc, invoice_hash, signature, cert_info)
        timestamp    == formatSignTimestamp(Text(doc.IssueDate[1]),
                                            Text(doc.IssueTime[1]))
        extension    == populateUBLSignExtension(
                            invoice_hash,
                            populateSignedProperties(timestamp, cert_info),
                            signature, certificate)
    IN  [ok           |-> qr # <<>>,
         signed       |-> [doc EXCEPT
             !.UBLExtensions[1] = Fill(@, extension),
             !.AdditionalDocumentReference = FillQr(@, qr)],
         invoice_hash |-> invoice_hash,
         qr           |-> qr]
=============================================================================
