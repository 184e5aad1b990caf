--------------------------- MODULE RecordInvoice ---------------------------
(***************************************************************************)
(* recordInvoice of the two database adapters (storage-postgres and        *)
(* storage-mongo), query by query, for one scope and one kind: SELECT the  *)
(* row, INSERT it, and if the unique index on (vat, egs, invoice_id)       *)
(* refuses it, SELECT the winner.  No transaction spans the queries, so    *)
(* calls of several processes interleave between them.  One query and the  *)
(* code up to the next await are one step.                                 *)
(*                                                                         *)
(* The adapters differ in one place: getPreviousHash sorts by created_at   *)
(* and, in Postgres only, by the serial id of the row.                     *)
(***************************************************************************)
EXTENDS Naturals

CONSTANTS
    Call,       \* invocations of recordInvoice
    Id,         \* invoiceIds
    Doc,        \* the immutable part of an InvoiceRecord
    Status,     \* InvoiceStatus
    NoDoc,      \* stands for "no row"
    SortsById,  \* TRUE for Postgres, FALSE for Mongo
    MaxClock    \* bound on the application clock, in its milliseconds

ASSUME RecordAssumption ==
    /\ NoDoc \notin Doc
    /\ "pending" \in Status
    /\ SortsById \in BOOLEAN
    /\ MaxClock \in Nat

VARIABLES
    args,       \* call -> [id, doc], the record it was given
    document,   \* id -> the stored document, or NoDoc
    status,     \* id -> the stored status
    createdAt,  \* id -> the stored created_at
    rowId,      \* id -> the serial id of its row, 0 if there is none
    rows,       \* number of rows, the last serial id given out
    clock,      \* the clock the processes share
    pc,         \* call -> the query it waits for, or how it ended
    stamp,      \* call -> the created_at its INSERT carries
    seen,       \* history: call -> number of rows when it took its stamp
    rowSeen     \* history: id -> seen of the call that inserted the row

table == <<document, status, createdAt, rowId, rows, rowSeen>>
vars  == <<args, table, clock, pc, stamp, seen>>

Waiting == {"selecting", "inserting", "rereading"}
Ended   == {"ok", "conflict", "error", "lost"}

\* The table of invoices and the locals of recordInvoice between its queries.
TypeOK ==
    /\ args \in [Call -> [id: Id, doc: Doc]]
    /\ document \in [Id -> Doc \cup {NoDoc}]
    /\ status \in [Id -> Status]
    /\ createdAt \in [Id -> 0 .. MaxClock]
    /\ rowId \in [Id -> Nat]
    /\ rows \in Nat
    /\ clock \in 0 .. MaxClock
    /\ pc \in [Call -> {"idle"} \cup Waiting \cup Ended]
    /\ stamp \in [Call -> 0 .. MaxClock]
    /\ seen \in [Call -> Nat]
    /\ rowSeen \in [Id -> Nat]

Init ==
    /\ args \in [Call -> [id: Id, doc: Doc]]
    /\ document = [i \in Id |-> NoDoc]
    /\ status = [i \in Id |-> "pending"]
    /\ createdAt = [i \in Id |-> 0]
    /\ rowId = [i \in Id |-> 0]
    /\ rows = 0
    /\ clock = 0
    /\ pc = [c \in Call |-> "idle"]
    /\ stamp = [c \in Call |-> 0]
    /\ seen = [c \in Call |-> 0]
    /\ rowSeen = [i \in Id |-> 0]

-----------------------------------------------------------------------------
\* recordsEqual(stored, given): every field, the status included; an issuer
\* always gives "pending".
recordsEqual(c) ==
    /\ document[args[c].id] = args[c].doc
    /\ status[args[c].id] = "pending"

\* The outcome of a call that found a row under its id.
Verdict(c) == IF recordsEqual(c) THEN "ok" ELSE "conflict"

\* A host calls recordInvoice, or calls again with the same record: after an
\* error, or because its own caller retried.
recordInvoice(c) ==
    /\ pc[c] \in {"idle", "ok", "error"}
    /\ pc' = [pc EXCEPT ![c] = "selecting"]
    /\ UNCHANGED <<args, table, clock, stamp, seen>>

(***************************************************************************)
(* The answer of the first SELECT.  No row: the INSERT is sent at once,    *)
(* with new Date() as its created_at, but the database runs it later.      *)
(***************************************************************************)
SelectExisting(c) ==
    /\ pc[c] = "selecting"
    /\ IF document[args[c].id] # NoDoc
       THEN /\ pc' = [pc EXCEPT ![c] = Verdict(c)]
            /\ UNCHANGED <<stamp, seen>>
       ELSE /\ pc' = [pc EXCEPT ![c] = "inserting"]
            /\ stamp' = [stamp EXCEPT ![c] = clock]
            /\ seen' = [seen EXCEPT ![c] = rows]
    /\ UNCHANGED <<args, table, clock>>

\* Faulty variant: no unique index, the INSERT replaces a row.
InsertRow_NoIndex(c, answer) ==
    LET i == args[c].id
    IN  /\ pc[c] = "inserting"
        /\ document' = [document EXCEPT ![i] = args[c].doc]
        /\ status' = [status EXCEPT ![i] = "pending"]
        /\ createdAt' = [createdAt EXCEPT ![i] = stamp[c]]
        /\ rowId' = [rowId EXCEPT ![i] = rows + 1]
        /\ rowSeen' = [rowSeen EXCEPT ![i] = seen[c]]
        /\ rows' = rows + 1
        /\ pc' = [pc EXCEPT ![c] = answer]
        /\ UNCHANGED <<args, clock, stamp, seen>>

\* The INSERT succeeds; answer is what reaches the caller.
InsertRow(c, answer) ==
    LET i == args[c].id
    IN  /\ pc[c] = "inserting"
        /\ document[i] = NoDoc
        /\ document' = [document EXCEPT ![i] = args[c].doc]
        /\ status' = [status EXCEPT ![i] = "pending"]
        /\ createdAt' = [createdAt EXCEPT ![i] = stamp[c]]
        /\ rowId' = [rowId EXCEPT ![i] = rows + 1]
        /\ rowSeen' = [rowSeen EXCEPT ![i] = seen[c]]
        /\ rows' = rows + 1
        /\ pc' = [pc EXCEPT ![c] = answer]
        /\ UNCHANGED <<args, clock, stamp, seen>>

\* The unique index refuses the INSERT: isUniqueViolation, isDuplicateKeyError.
UniqueViolation(c) ==
    /\ pc[c] = "inserting"
    /\ document[args[c].id] # NoDoc
    /\ pc' = [pc EXCEPT ![c] = "rereading"]
    /\ UNCHANGED <<args, table, clock, stamp, seen>>

\* Faulty variant: a winner counts as a retry without comparing it.
RereadWinner_NoCompare(c) ==
    /\ pc[c] = "rereading"
    /\ pc' = [pc EXCEPT ![c] = "ok"]
    /\ UNCHANGED <<args, table, clock, stamp, seen>>

\* The winner of the race decides; "lost" is the rethrow of the violation when
\* there is no winner to be found.
RereadWinner(c) ==
    /\ pc[c] = "rereading"
    /\ pc' = [pc EXCEPT ![c] =
                IF document[args[c].id] = NoDoc THEN "lost" ELSE Verdict(c)]
    /\ UNCHANGED <<args, table, clock, stamp, seen>>

\* A query rejects for any other reason, before it took effect.
QueryFails(c) ==
    /\ pc[c] \in Waiting
    /\ pc' = [pc EXCEPT ![c] = "error"]
    /\ UNCHANGED <<args, table, clock, stamp, seen>>

\* updateInvoiceStatus; it throws, and changes nothing, if there is no row.
updateInvoiceStatus(i, st) ==
    /\ document[i] # NoDoc
    /\ status' = [status EXCEPT ![i] = st]
    /\ UNCHANGED <<args, document, createdAt, rowId, rows, rowSeen, clock, pc,
                   stamp, seen>>

Tick ==
    /\ clock < MaxClock
    /\ clock' = clock + 1
    /\ UNCHANGED <<args, table, pc, stamp, seen>>

QueryStep(c) ==
    \/ SelectExisting(c)
    \/ \E answer \in {"ok", "error"} : InsertRow(c, answer)
    \/ UniqueViolation(c)
    \/ RereadWinner(c)
    \/ QueryFails(c)

Next ==
    \/ \E c \in Call : recordInvoice(c) \/ QueryStep(c)
    \/ \E i \in Id, st \in Status : updateInvoiceStatus(i, st)
    \/ Tick

Spec == Init /\ [][Next]_vars

(***************************************************************************)
(* getPreviousHash as the rows it may serve: the newest by created_at and, *)
(* in Postgres, the newest of those by serial id.                          *)
(***************************************************************************)
Rows == {i \in Id : document[i] # NoDoc}

\* Faulty variant: ties are left open.
SortsBefore_NoTieBreak(i, j) == createdAt[i] > createdAt[j]

SortsBefore(i, j) ==
    \/ createdAt[i] > createdAt[j]
    \/ SortsById /\ createdAt[i] = createdAt[j] /\ rowId[i] > rowId[j]

getPreviousHash == {h \in Rows : \A i \in Rows : ~SortsBefore(i, h)}

-----------------------------------------------------------------------------
(***************************************************************************)
(* Properties.                                                             *)
(***************************************************************************)

Outcome(s) == IF s \in Waiting THEN "pending" ELSE s

Store == INSTANCE InvoiceStore WITH result <- [c \in Call |-> Outcome(pc[c])]

\* SELECT, INSERT and the re-read of the winner together behave as one atomic
\* recordInvoice; in particular the violation is never rethrown.
AtomicRecord == Store!Spec

\* The document of a call that returned is the stored one: of two calls that
\* returned for one invoiceId, neither was told that a document was recorded
\* which the other had already replaced.
AckedIsStored ==
    \A c \in Call : pc[c] = "ok" => document[args[c].id] = args[c].doc

\* The head getPreviousHash serves is older than the last row only if that row
\* was stamped before the head was inserted (overlapping calls), or, in Mongo,
\* in the same millisecond.
HeadLagsByOverlap ==
    \A h \in getPreviousHash : \A i \in Rows :
        rowId[i] > rowId[h] =>
            \/ rowSeen[i] < rowId[h]
            \/ ~SortsById /\ createdAt[i] = createdAt[h]

(***************************************************************************)
(* The inductive invariant.                                                *)
(***************************************************************************)

\* A refused INSERT has a winner, which nothing deletes.
WinnerExists ==
    \A c \in Call : pc[c] = "rereading" => document[args[c].id] # NoDoc

\* Rows carry distinct serial ids, and stamps follow the clock: a stamp is not
\* older than that of any row its call could see.
StampsFollow ==
    /\ \A i \in Rows : /\ rowId[i] \in 1 .. rows
                       /\ rowSeen[i] < rowId[i]
                       /\ createdAt[i] <= clock
    /\ \A i, j \in Rows : rowId[i] = rowId[j] => i = j
    /\ \A c \in Call : pc[c] = "inserting" =>
         /\ stamp[c] <= clock
         /\ seen[c] <= rows
         /\ \A i \in Rows : rowId[i] <= seen[c] => createdAt[i] <= stamp[c]
    /\ \A i, j \in Rows :
         rowId[i] <= rowSeen[j] => createdAt[i] <= createdAt[j]

IInv == TypeOK /\ WinnerExists /\ AckedIsStored /\ StampsFollow
=============================================================================
