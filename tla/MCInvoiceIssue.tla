--------------------------- MODULE MCInvoiceIssue ---------------------------
(* Small instances of InvoiceIssue for TLC. *)
EXTENDS InvoiceIssue, TLC

\* Calls are interchangeable: nothing in the specification tells them apart.
CallSymmetry == Permutations(Call)
=============================================================================
