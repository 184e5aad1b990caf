---------------------------- MODULE InvoiceIssue ----------------------------
(***************************************************************************)
(* The eight issuers of packages/core/src/issue interleaving over one      *)
(* StorageAdapter.  An issue call is a process: it claims a counter value, *)
(* reads the head of its hash chain, builds and signs its document and     *)
(* records it, and every await between these steps lets other calls run.   *)
(*                                                                         *)
(* The adapter operations are atomic here, as the memory adapter runs them *)
(* under its mutexes; what the two database adapters do inside             *)
(* recordInvoice is the subject of module RecordInvoice.                   *)
(*                                                                         *)
(* A call builds at most one document, so its SHA-256 hash is named by the *)
(* call itself; likewise the randomUUID() of a call that was given no      *)
(* invoiceId.                                                              *)
(***************************************************************************)
EXTENDS Naturals, Sequences

CONSTANTS
    Scope,       \* TenantScope: the (vatNumber, egsUuid) pairs
    Phase2Kind,  \* the InvoiceKinds whose documents are signed and chained
    Phase1Kind,  \* the InvoiceKinds without signature or chain
    Call,        \* calls of an issuer
    SuppliedId,  \* invoiceIds a host passes in
    Status,      \* the InvoiceStatus values a host sets
    BaseHash,    \* ZATCA_BASE_INVOICE_HASH
    MaxMonth     \* bound on the clock, in calendar months

Kind == Phase1Kind \cup Phase2Kind
Hash == Call \cup {BaseHash}
InvoiceId == Call \cup SuppliedId
Month == 0 .. MaxMonth
AnyKind == "__any__"

ASSUME ConstantsAssumption ==
    /\ MaxMonth \in Nat
    /\ BaseHash \notin Call
    /\ Call \cap SuppliedId = {}
    /\ Phase1Kind \cap Phase2Kind = {}
    /\ AnyKind \notin Kind
    /\ "pending" \in Status

\* The arguments of an issue call; invoiceId is the host's, or the call's own
\* randomUUID() if it gives none.  Only Phase 2 issuers are passed signing.
Request ==
    [scope: Scope, egsUuid: Scope, kind: Kind, signing: BOOLEAN,
     invoiceId: InvoiceId]

\* signedXml, qrBase64 and issuedAt are fixed by the call and left out.
InvoiceRecord ==
    [invoiceId: InvoiceId, kind: Kind, yearMonth: Month, counterNumber: Nat,
     uuid: Scope, invoiceHash: Hash, previousInvoiceHash: Hash,
     status: Status]

VARIABLES
    month,      \* the calendar month of the adapter's clock
    counters,   \* <<scope, yearMonth>> -> last sequence handed out
    invoices,   \* scope -> its records, in the order they were recorded
    chainHead,  \* <<scope, kind or AnyKind>> -> hash of the newest record
    req,        \* call -> its arguments, fixed from the start
    pc,         \* call -> where its issuer is
    yearMonth,  \* call -> the month it claimed its number in
    sequence,   \* call -> the number it claimed, 0 before
    previousInvoiceHash,  \* call -> the hash it will embed
    readAt      \* history: how many records its scope had when it read that

store == <<counters, invoices, chainHead>>
local == <<pc, yearMonth, sequence, previousInvoiceHash, readAt>>
vars  == <<month, store, req, local>>

Running == {"counting", "linking", "building"}
Ended   == {"done", "failed"}

\* The adapter's rows and the locals an issue call keeps across its awaits.
TypeOK ==
    /\ month \in Month
    /\ counters \in [Scope \X Month -> Nat]
    /\ invoices \in [Scope -> Seq(InvoiceRecord)]
    /\ chainHead \in [Scope \X (Kind \cup {AnyKind}) -> Hash]
    /\ req \in [Call -> Request]
    /\ pc \in [Call -> {"idle"} \cup Running \cup Ended]
    /\ yearMonth \in [Call -> Month]
    /\ sequence \in [Call -> Nat]
    /\ previousInvoiceHash \in [Call -> Hash]
    /\ readAt \in [Call -> Nat]

Init ==
    /\ month = 0
    /\ counters = [k \in Scope \X Month |-> 0]
    /\ invoices = [s \in Scope |-> <<>>]
    /\ chainHead = [k \in Scope \X (Kind \cup {AnyKind}) |-> BaseHash]
    /\ req \in [Call -> Request]
    /\ \A c \in Call : /\ req[c].invoiceId \in SuppliedId \cup {c}
                       /\ req[c].signing => req[c].kind \in Phase2Kind
    /\ pc = [c \in Call |-> "idle"]
    /\ yearMonth = [c \in Call |-> 0]
    /\ sequence = [c \in Call |-> 0]
    /\ previousInvoiceHash = [c \in Call |-> BaseHash]
    /\ readAt = [c \in Call |-> 0]

-----------------------------------------------------------------------------
(***************************************************************************)
(* The guards of an issue call; a call that fails one throws before it     *)
(* touches the storage.                                                    *)
(***************************************************************************)
assertScope(egsUuid, s) == egsUuid = s

requireSigning(k, signing) == k \in Phase2Kind => signing

(***************************************************************************)
(* issueInvoice and its issuer up to the first await.  incrementCounter    *)
(* reads the clock synchronously, so the month is fixed before the counter *)
(* row is reached.                                                         *)
(***************************************************************************)
issueInvoice(c) ==
    /\ pc[c] = "idle"
    /\ requireSigning(req[c].kind, req[c].signing)
    /\ assertScope(req[c].egsUuid, req[c].scope)
    /\ pc' = [pc EXCEPT ![c] = "counting"]
    /\ yearMonth' = [yearMonth EXCEPT ![c] = month]
    /\ UNCHANGED <<month, store, req, sequence, previousInvoiceHash, readAt>>

Reject(c) ==
    /\ pc[c] = "idle"
    /\ ~ /\ requireSigning(req[c].kind, req[c].signing)
         /\ assertScope(req[c].egsUuid, req[c].scope)
    /\ pc' = [pc EXCEPT ![c] = "failed"]
    /\ UNCHANGED <<month, store, req, yearMonth, sequence,
                   previousInvoiceHash, readAt>>

(***************************************************************************)
(* The atomic increment of the counter row.  Phase 1 issuers go on without *)
(* reading the chain.  An answer that is lost is this step and then Abort. *)
(***************************************************************************)
AfterCounter(k) == IF k \in Phase2Kind THEN "linking" ELSE "building"

\* Faulty variant: the upsert sets the row instead of incrementing it.
incrementCounter_SetsOne(c) ==
    LET row == <<req[c].scope, yearMonth[c]>>
    IN  /\ pc[c] = "counting"
        /\ counters' = [counters EXCEPT ![row] = 1]
        /\ sequence' = [sequence EXCEPT ![c] = 1]
        /\ pc' = [pc EXCEPT ![c] = AfterCounter(req[c].kind)]
        /\ UNCHANGED <<month, invoices, chainHead, req, yearMonth,
                       previousInvoiceHash, readAt>>

incrementCounter(c) ==
    LET row == <<req[c].scope, yearMonth[c]>>
    IN  /\ pc[c] = "counting"
        /\ counters' = [counters EXCEPT ![row] = @ + 1]
        /\ sequence' = [sequence EXCEPT ![c] = counters[row] + 1]
        /\ pc' = [pc EXCEPT ![c] = AfterCounter(req[c].kind)]
        /\ UNCHANGED <<month, invoices, chainHead, req, yearMonth,
                       previousInvoiceHash, readAt>>

\* Faulty variant: the kind is not passed on to the adapter.
getPreviousHash_AnyKind(c) ==
    LET s == req[c].scope
    IN  /\ pc[c] = "linking"
        /\ previousInvoiceHash' = [previousInvoiceHash EXCEPT
                                     ![c] = chainHead[<<s, AnyKind>>]]
        /\ readAt' = [readAt EXCEPT ![c] = Len(invoices[s])]
        /\ pc' = [pc EXCEPT ![c] = "building"]
        /\ UNCHANGED <<month, store, req, yearMonth, sequence>>

\* getPreviousHash(scope, kind): the head of the chain of the call's kind.
getPreviousHash(c) ==
    LET s == req[c].scope
    IN  /\ pc[c] = "linking"
        /\ previousInvoiceHash' = [previousInvoiceHash EXCEPT
                                     ![c] = chainHead[<<s, req[c].kind>>]]
        /\ readAt' = [readAt EXCEPT ![c] = Len(invoices[s])]
        /\ pc' = [pc EXCEPT ![c] = "building"]
        /\ UNCHANGED <<month, store, req, yearMonth, sequence>>

(***************************************************************************)
(* The document a call builds: a Phase 1 document carries the base hash    *)
(* both as its own and as its predecessor's.                               *)
(***************************************************************************)
Built(c) ==
    [invoiceId |-> req[c].invoiceId, kind |-> req[c].kind,
     yearMonth |-> yearMonth[c], counterNumber |-> sequence[c],
     uuid |-> req[c].egsUuid,
     invoiceHash |-> IF req[c].kind \in Phase2Kind THEN c ELSE BaseHash,
     previousInvoiceHash |-> previousInvoiceHash[c],
     status |-> "pending"]

(***************************************************************************)
(* recordInvoice: an id already stored is a retry if every field agrees    *)
(* and a conflict, which throws, if not; otherwise the record is stored    *)
(* and becomes the head of its kind's chain and of the scope's.  ack =     *)
(* FALSE: the adapter finished, but the answer was lost.                   *)
(***************************************************************************)
Taken(s, id) == \E i \in DOMAIN invoices[s] : invoices[s][i].invoiceId = id

Stored(s, r) == \E i \in DOMAIN invoices[s] : invoices[s][i] = r

\* Faulty variants of the store branch: head is written as the head of the
\* chains ks.
RecordWith(c, ks, head) ==
    LET s == req[c].scope
        r == Built(c)
    IN  /\ pc[c] = "building"
        /\ IF Taken(s, r.invoiceId)
           THEN /\ pc' = [pc EXCEPT ![c] = "failed"]
                /\ UNCHANGED <<invoices, chainHead>>
           ELSE /\ pc' = [pc EXCEPT ![c] = "done"]
                /\ invoices' = [invoices EXCEPT ![s] = Append(@, r)]
                /\ chainHead' = [k \in DOMAIN chainHead |->
                     IF k \in ({s} \X ks) THEN head ELSE chainHead[k]]
        /\ UNCHANGED <<month, counters, req, yearMonth, sequence,
                       previousInvoiceHash, readAt>>

\* The head of the record's kind is forgotten.
recordInvoice_AnyKindOnly(c, ack) ==
    RecordWith(c, {AnyKind}, Built(c).invoiceHash)

\* The head becomes the invoice's id.
recordInvoice_HeadIsId(c, ack) ==
    RecordWith(c, {AnyKind, req[c].kind}, req[c].invoiceId)

\* A conflicting record replaces the stored one.
recordInvoice_Upserts(c, ack) ==
    LET s == req[c].scope
        r == Built(c)
    IN  /\ pc[c] = "building"
        /\ pc' = [pc EXCEPT ![c] = "done"]
        /\ invoices' = [invoices EXCEPT ![s] =
             IF Taken(s, r.invoiceId)
             THEN [i \in DOMAIN @ |->
                     IF @[i].invoiceId = r.invoiceId THEN r ELSE @[i]]
             ELSE Append(@, r)]
        /\ chainHead' = [k \in DOMAIN chainHead |->
             IF k \in {<<s, AnyKind>>, <<s, r.kind>>}
             THEN r.invoiceHash ELSE chainHead[k]]
        /\ UNCHANGED <<month, counters, req, yearMonth, sequence,
                       previousInvoiceHash, readAt>>

\* A stored id is a retry, whatever is stored under it.
recordInvoice_NoCompare(c, ack) ==
    /\ pc[c] = "building"
    /\ IF Taken(req[c].scope, req[c].invoiceId)
       THEN /\ pc' = [pc EXCEPT ![c] = "done"]
            /\ UNCHANGED <<month, store, req, yearMonth, sequence,
                           previousInvoiceHash, readAt>>
       ELSE RecordWith(c, {AnyKind, req[c].kind}, Built(c).invoiceHash)

recordInvoice(c, ack) ==
    LET s == req[c].scope
        r == Built(c)
    IN  /\ pc[c] = "building"
        /\ IF Taken(s, r.invoiceId)
           THEN /\ pc' = [pc EXCEPT ![c] = IF ack /\ Stored(s, r)
                                           THEN "done" ELSE "failed"]
                /\ UNCHANGED <<invoices, chainHead>>
           ELSE /\ pc' = [pc EXCEPT ![c] = IF ack THEN "done" ELSE "failed"]
                /\ invoices' = [invoices EXCEPT ![s] = Append(@, r)]
                /\ chainHead' = [k \in DOMAIN chainHead |->
                     IF k \in {<<s, AnyKind>>, <<s, r.kind>>}
                     THEN r.invoiceHash ELSE chainHead[k]]
        /\ UNCHANGED <<month, counters, req, yearMonth, sequence,
                       previousInvoiceHash, readAt>>

\* A storage call rejects, the builder throws, or the process dies.
Abort(c) ==
    /\ pc[c] \in Running
    /\ pc' = [pc EXCEPT ![c] = "failed"]
    /\ UNCHANGED <<month, store, req, yearMonth, sequence,
                   previousInvoiceHash, readAt>>

\* updateInvoiceStatus, which accepts any transition of a known invoice.
WithStatus(r, st) == [r EXCEPT !.status = st]

updateInvoiceStatus(s, i, st) ==
    /\ invoices' = [invoices EXCEPT ![s] =
                      [@ EXCEPT ![i] = WithStatus(invoices[s][i], st)]]
    /\ UNCHANGED <<month, counters, chainHead, req, local>>

\* The clock of the adapter enters the next month.
NextMonth ==
    /\ month < MaxMonth
    /\ month' = month + 1
    /\ UNCHANGED <<store, req, local>>

IssueStep(c) ==
    \/ issueInvoice(c)
    \/ Reject(c)
    \/ incrementCounter(c)
    \/ getPreviousHash(c)
    \/ \E ack \in BOOLEAN : recordInvoice(c, ack)
    \/ Abort(c)

Next ==
    \/ \E c \in Call : IssueStep(c)
    \/ \E s \in Scope, st \in Status : \E i \in DOMAIN invoices[s] :
         updateInvoiceStatus(s, i, st)
    \/ NextMonth

Spec == Init /\ [][Next]_vars

-----------------------------------------------------------------------------
(***************************************************************************)
(* Properties.                                                             *)
(***************************************************************************)
Claimants(s, m) ==
    {c \in Call : sequence[c] # 0 /\ req[c].scope = s /\ yearMonth[c] = m}

\* h is the hash of the newest of the first n records that kind k selects
\* (AnyKind selects all), or the base hash if there is none.
Selects(k, r) == k = AnyKind \/ r.kind = k

IsHead(log, n, k, h) ==
    \/ /\ h = BaseHash
       /\ \A i \in 1 .. n : ~Selects(k, log[i])
    \/ \E i \in 1 .. n :
         /\ Selects(k, log[i])
         /\ h = log[i].invoiceHash
         /\ \A j \in 1 .. n : j > i => ~Selects(k, log[j])

\* Two issue calls of one scope never print the same serial (YYYYMM######),
\* whether they succeed, fail or crash after incrementCounter.
SerialsUnique ==
    \A s \in Scope, m \in Month : \A c, d \in Claimants(s, m) :
        sequence[c] = sequence[d] => c = d

\* Every value a counter row ever held was handed to some call of that scope
\* and month: a missing invoice number is always a call that failed or is
\* still running, never one incrementCounter skipped.
NoNumberSkipped ==
    \A s \in Scope, m \in Month :
        {sequence[c] : c \in Claimants(s, m)} = 1 .. counters[<<s, m>>]

\* The head getPreviousHash serves for a kind (and for the whole scope) is the
\* hash of the newest stored record it selects, whatever retries, conflicts
\* and status updates happened.
HeadIsNewest ==
    \A s \in Scope : \A k \in Kind \cup {AnyKind} :
        IsHead(invoices[s], Len(invoices[s]), k, chainHead[<<s, k>>])

\* The previous hash embedded in a stored Phase 2 document is exactly the head
\* of its kind's chain at the moment its issuer read it: never that of another
\* tenant, of another kind, or of a document that was not stored.
LinkIsSnapshot ==
    \A s \in Scope : \A i \in DOMAIN invoices[s] :
        LET r == invoices[s][i]
        IN  r.kind \in Phase2Kind =>
              /\ r.invoiceHash \in Call
              /\ readAt[r.invoiceHash] < i
              /\ IsHead(invoices[s], readAt[r.invoiceHash], r.kind,
                        r.previousInvoiceHash)

\* Two documents of one chain name the same predecessor only if the later one
\* read the head before the earlier one was stored: a chain forks by
\* overlapping calls and in no other way, so a host that issues one document
\* at a time per scope and kind has a linear chain.
ForkNeedsOverlap ==
    \A s \in Scope : \A i, j \in DOMAIN invoices[s] :
        LET q == invoices[s][i]
            r == invoices[s][j]
        IN  /\ i < j
            /\ q.kind = r.kind
            /\ q.kind \in Phase2Kind
            /\ q.previousInvoiceHash = r.previousInvoiceHash
            => readAt[r.invoiceHash] < i

\* An issue call that returned has its own document stored in its own scope,
\* under its invoiceId and serial: no conflicting document of another call
\* took its place.
DoneIsRecorded ==
    \A c \in Call : pc[c] = "done" =>
        \E i \in DOMAIN invoices[req[c].scope] :
            LET r == invoices[req[c].scope][i]
            IN  /\ r.invoiceId = req[c].invoiceId
                /\ r.kind = req[c].kind
                /\ r.yearMonth = yearMonth[c]
                /\ r.counterNumber = sequence[c]

\* A stored record stays at its place and only its status ever changes.
RecordsImmutable ==
    [][\A s \in Scope : \A i \in DOMAIN invoices[s] :
         /\ i \in DOMAIN invoices'[s]
         /\ invoices'[s][i]
              = WithStatus(invoices[s][i], invoices'[s][i].status)]_vars

(***************************************************************************)
(* The inductive invariant behind the safety properties.                   *)
(***************************************************************************)

\* A call that has not reached the counter row holds no sequence.
CallsSound ==
    \A c \in Call : pc[c] \in {"idle", "counting"} => sequence[c] = 0

\* What a building Phase 2 call holds was the head when the scope had readAt
\* records.
ReadsAreHeads ==
    \A c \in Call :
        pc[c] = "building" /\ req[c].kind \in Phase2Kind =>
            /\ readAt[c] <= Len(invoices[req[c].scope])
            /\ IsHead(invoices[req[c].scope], readAt[c], req[c].kind,
                      previousInvoiceHash[c])

\* A stored Phase 2 document belongs to one ended call and is stored once.
StoredOnce ==
    \A s \in Scope : \A i \in DOMAIN invoices[s] :
        invoices[s][i].kind \in Phase2Kind =>
            /\ invoices[s][i].invoiceHash \in Call
            /\ pc[invoices[s][i].invoiceHash] \in Ended
            /\ \A j \in DOMAIN invoices[s] :
                 /\ invoices[s][j].kind \in Phase2Kind
                 /\ invoices[s][j].invoiceHash = invoices[s][i].invoiceHash
                 => i = j

IInv ==
    /\ TypeOK
    /\ CallsSound
    /\ SerialsUnique
    /\ NoNumberSkipped
    /\ HeadIsNewest
    /\ ReadsAreHeads
    /\ StoredOnce
    /\ LinkIsSnapshot
    /\ DoneIsRecorded
=============================================================================
