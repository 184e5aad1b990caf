---------------------------- MODULE InvoiceStore ----------------------------
(***************************************************************************)
(* What recordInvoice promises (core/src/types/storage.ts): recording is   *)
(* one atomic step.  The first document recorded under an invoiceId stays; *)
(* recording it again is a no-op, and recording anything that differs from *)
(* the stored record, its status included, is a conflict.  A call may also *)
(* end in an error, and then nobody knows whether it took effect.          *)
(***************************************************************************)
CONSTANTS
    Call,    \* invocations of recordInvoice
    Id,      \* invoiceIds
    Doc,     \* the immutable part of an InvoiceRecord
    Status,  \* InvoiceStatus
    NoDoc    \* stands for "no row"

VARIABLES
    args,      \* call -> the record it was given
    document,  \* id -> the stored document, or NoDoc
    status,    \* id -> the stored status
    result     \* call -> how far it is, or how it ended

storeVars == <<args, document, status, result>>

Init ==
    /\ args \in [Call -> [id: Id, doc: Doc]]
    /\ document = [i \in Id |-> NoDoc]
    /\ status = [i \in Id |-> "pending"]
    /\ result = [c \in Call |-> "idle"]

\* A host calls, or calls again with the same record: because it saw an error
\* or because its own caller retried.
Begin(c) ==
    /\ result[c] \in {"idle", "ok", "error"}
    /\ result' = [result EXCEPT ![c] = "pending"]
    /\ UNCHANGED <<args, document, status>>

\* The id is free: the record is stored.  The answer may get lost.
Record(c, answer) ==
    LET i == args[c].id
    IN  /\ result[c] = "pending"
        /\ document[i] = NoDoc
        /\ document' = [document EXCEPT ![i] = args[c].doc]
        /\ status' = [status EXCEPT ![i] = "pending"]
        /\ result' = [result EXCEPT ![c] = answer]
        /\ UNCHANGED args

\* The id is taken: the stored record decides.
Compare(c) ==
    LET i == args[c].id
    IN  /\ result[c] = "pending"
        /\ document[i] # NoDoc
        /\ result' = [result EXCEPT ![c] =
             IF document[i] = args[c].doc /\ status[i] = "pending"
             THEN "ok" ELSE "conflict"]
        /\ UNCHANGED <<args, document, status>>

Fail(c) ==
    /\ result[c] = "pending"
    /\ result' = [result EXCEPT ![c] = "error"]
    /\ UNCHANGED <<args, document, status>>

SetStatus(i, st) ==
    /\ document[i] # NoDoc
    /\ status' = [status EXCEPT ![i] = st]
    /\ UNCHANGED <<args, document, result>>

Next ==
    \/ \E c \in Call :
         \/ Begin(c)
         \/ \E answer \in {"ok", "error"} : Record(c, answer)
         \/ Compare(c)
         \/ Fail(c)
    \/ \E i \in Id, st \in Status : SetStatus(i, st)

Spec == Init /\ [][Next]_storeVars
=============================================================================
