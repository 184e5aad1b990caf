--------------------------- MODULE MCCoreOnboard ---------------------------
(* Small instances of CoreOnboard for TLC. *)
EXTENDS CoreOnboard

CONSTANTS R1, R2

MCRetries == [r \in {R1, R2} |-> IF r = R1 THEN 1 ELSE 0]
MCScenarios == << "simplified-tax-invoice", "standard-tax-invoice" >>
=============================================================================
