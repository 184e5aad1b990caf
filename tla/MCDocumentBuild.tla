--------------------------- MODULE MCDocumentBuild --------------------------
(* A small instance of DocumentBuild for TLC. *)
EXTENDS DocumentBuild

Price(units) == [u |-> units, e |-> 0]

Item(price, quantity, discounts, other) ==
    [price |-> Price(price), quantity |-> quantity,
     discounts |-> [i \in DOMAIN discounts |-> Clean(discounts[i])],
     vatPercent |-> 15, otherTaxes |-> other]

Egs(bytes) ==
    [uuid |-> "uuid", crnNumber |-> "crn", street |-> "street",
     building |-> "building", plotIdentification |-> "plot",
     citySubdivision |-> "subdivision", cityName |-> "city",
     postalZone |-> "postal", vatNumber |-> "vat",
     vatName |-> [value |-> "name", bytes |-> bytes]]

Buyer == [identityNumber |-> "crn", address |-> <<>>, vatNumber |-> <<"vat">>,
          registrationName |-> "buyer"]

Cancelation == [canceledInvoiceNumber |-> 7, paymentMethod |-> "10",
                cancelationType |-> CreditCode, reason |-> "returned"]

Ask(month, kind, cancelation, name, info, z, bytes, items) ==
    [month |-> month, kind |-> kind, cancelation |-> cancelation, buyerName |-> name,
     buyerInfo |-> info, issueDate |-> "date",
     issueTime |-> [clock |-> "12:00:00", z |-> z], egsInfo |-> Egs(bytes),
     lineItems |-> items]

\* 2.30 x 3, less 1.40; 8.20; 0.10 x 3 less 0.30; 0.333 x 2 and 20.40 x 3 with
\* another tax (20.4 * 3 is 61.199999999999996, so that the tax total of 12.24 is
\* three halalas above the line's 12.21).
Whole    == Item(230 * Scale, 3, <<140>>, <<>>)
Single   == Item(820 * Scale, 1, <<>>, <<>>)
Free     == Item(10 * Scale, 3, <<30>>, <<>>)
Fraction == Item(333000, 2, <<>>, <<5>>)
Below    == Item(2040 * Scale, 3, <<>>, <<5>>)

Walkin == <<[registrationName |-> "walk-in"]>>

\* First a document of any kind, with and without its optional parts; then one
\* with lines of every sort, from a seller whose name may be too long, or one in
\* the next month.
MCRequests ==
    <<{Ask(1, k, c, parties[1], parties[2], FALSE, 2, <<Single>>) :
         k \in Phase2Kind \cup Phase1Kind, c \in {<<>>, <<Cancelation>>},
         parties \in {<<<<>>, <<>>>>, <<Walkin, <<>>>>, <<Walkin, <<Buyer>>>>}},
      {Ask(1, k, <<Cancelation>>, <<>>, <<>>, TRUE, 2, items) :
         k \in {"standard-credit-note", "simplified-debit-note", "phase1-credit-note"},
         items \in {<<Whole, Fraction>>, <<Free, Single>>}}
      \cup {Ask(2, "standard-debit-note", <<>>, <<>>, <<Buyer>>, TRUE, 2, <<Below>>)}
      \cup {Ask(1, k, <<>>, <<>>, <<>>, TRUE, 4, <<Single>>) :
              k \in {"standard-debit-note", "phase1-invoice"}}>>
=============================================================================
