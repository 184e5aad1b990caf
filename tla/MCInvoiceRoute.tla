--------------------------- MODULE MCInvoiceRoute ---------------------------
(* Small instances of InvoiceRoute for TLC. *)
EXTENDS InvoiceRoute, TLC

\* Requests are interchangeable, and so are keys.
RouteSymmetry == Permutations(Request) \cup Permutations(Key)
=============================================================================
