---------------------------- MODULE InvoiceRoute ----------------------------
(***************************************************************************)
(* POST /v1/tenants/:ref/invoices of the standalone server, for one tenant *)
(* and one process: the idempotency slot, the local issue, the submission  *)
(* to ZATCA, the status update, the audit row and the cached response.     *)
(* Requests run concurrently; every await is a point where others run.     *)
(*                                                                         *)
(* A client's retry is another request with the same Idempotency-Key.      *)
(* issueInvoice is one step here (module InvoiceIssue has its inside): it  *)
(* stores the record under a fresh uuid, which the route never learns.     *)
(***************************************************************************)
EXTENDS Naturals

CONSTANTS
    Request,  \* HTTP requests to the route
    Key,      \* Idempotency-Key values
    NoKey,    \* the header is absent
    TTL,      \* idempotencyWindowMs
    MaxWork,  \* bound on how long a request takes from its claim to its answer
    MaxTime   \* bound on the clock

ASSUME RouteAssumption ==
    /\ NoKey \notin Key
    /\ TTL \in Nat \ {0}
    /\ MaxWork \in Nat
    /\ MaxTime \in Nat

NoRequest == "no request"

\* What a request carries: its key, whether its kind is a Phase 1 one, submit.
Body == [key: Key \cup {NoKey}, phase1: BOOLEAN, submit: BOOLEAN]

VARIABLES
    now,          \* Date.now()
    body,         \* request -> what it carries
    slot,         \* key -> the status of its entry, "none" if there is none
    expiresAt,    \* key -> expiresAt of the entry
    response,     \* key -> the request whose response the entry caches
    pc,           \* request -> where its handler is
    began,        \* request -> when it passed begin
    status,       \* request -> the handler's local status variable
    answer,       \* request -> the request whose response it replayed
    record,       \* request -> status of the record it stored, or "none"
    zatca,        \* request -> what ZATCA decided about its document
    audited,      \* the requests with an invoice.issued audit row
    committedAt   \* history: request -> when it committed its response

entries == <<slot, expiresAt, response>>
effects == <<record, zatca, audited>>
vars == <<now, body, entries, pc, began, status, answer, effects, committedAt>>

Executing == {"issuing", "submitting", "updating", "auditing", "committing",
              "releasing"}
Ended     == {"ok", "replayed", "busy", "error"}

\* The idempotency entries and the locals of the POST /invoices handler.
TypeOK ==
    /\ now \in 0 .. MaxTime
    /\ body \in [Request -> Body]
    /\ slot \in [Key -> {"none", "in-flight", "committed"}]
    /\ expiresAt \in [Key -> Nat]
    /\ response \in [Key -> Request \cup {NoRequest}]
    /\ pc \in [Request -> {"idle"} \cup Executing \cup Ended]
    /\ began \in [Request -> 0 .. MaxTime]
    /\ status \in [Request -> {"pending", "accepted", "rejected"}]
    /\ answer \in [Request -> Request \cup {NoRequest}]
    /\ record \in [Request -> {"none", "pending", "accepted", "rejected"}]
    /\ zatca \in [Request -> {"none", "accepted", "refused"}]
    /\ audited \subseteq Request
    /\ committedAt \in [Request -> 0 .. MaxTime]

Init ==
    /\ now = 0
    /\ body \in [Request -> Body]
    /\ slot = [k \in Key |-> "none"]
    /\ expiresAt = [k \in Key |-> 0]
    /\ response = [k \in Key |-> NoRequest]
    /\ pc = [r \in Request |-> "idle"]
    /\ began = [r \in Request |-> 0]
    /\ status = [r \in Request |-> "pending"]
    /\ answer = [r \in Request |-> NoRequest]
    /\ record = [r \in Request |-> "none"]
    /\ zatca = [r \in Request |-> "none"]
    /\ audited = {}
    /\ committedAt = [r \in Request |-> 0]

-----------------------------------------------------------------------------
\* authTenant, parseBody or readIdempotencyKey throws: nothing was touched.
Refuse(r) ==
    /\ pc[r] = "idle"
    /\ pc' = [pc EXCEPT ![r] = "error"]
    /\ UNCHANGED <<now, body, entries, began, status, answer, effects,
                   committedAt>>

(***************************************************************************)
(* IdempotencyStore.begin.  An expired entry is deleted when it is read.   *)
(***************************************************************************)
\* Faulty variants: an in-flight entry is not seen; an entry that expires now
\* still counts.
readFresh_CommittedOnly(k) == slot[k] = "committed" /\ expiresAt[k] > now

readFresh_Late(k) == slot[k] # "none" /\ expiresAt[k] >= now

readFresh(k) == slot[k] # "none" /\ expiresAt[k] > now

\* Faulty variant: the guard below throws before the try block is entered.
Entered_OutsideTry(r) ==
    IF body[r].submit /\ body[r].phase1 THEN "error" ELSE "issuing"

\* The first synchronous code of the try block: a Phase 1 document cannot be
\* submitted.
Entered(r) ==
    IF body[r].submit /\ body[r].phase1 THEN "releasing" ELSE "issuing"

\* No header: the handler proceeds without a slot.
ProceedUnkeyed(r) ==
    /\ pc[r] = "idle"
    /\ body[r].key = NoKey
    /\ pc' = [pc EXCEPT ![r] = Entered(r)]
    /\ began' = [began EXCEPT ![r] = now]
    /\ UNCHANGED <<now, body, entries, status, answer, effects, committedAt>>

\* begin answers claimed.
Claim(r) ==
    LET k == body[r].key
    IN  /\ pc[r] = "idle"
        /\ k # NoKey
        /\ ~readFresh(k)
        /\ slot' = [slot EXCEPT ![k] = "in-flight"]
        /\ expiresAt' = [expiresAt EXCEPT ![k] = now + TTL]
        /\ response' = [response EXCEPT ![k] = NoRequest]
        /\ pc' = [pc EXCEPT ![r] = Entered(r)]
        /\ began' = [began EXCEPT ![r] = now]
        /\ UNCHANGED <<now, body, status, answer, effects, committedAt>>

\* begin answers in-flight: 409.
Busy(r) ==
    LET k == body[r].key
    IN  /\ pc[r] = "idle"
        /\ k # NoKey
        /\ readFresh(k)
        /\ slot[k] = "in-flight"
        /\ pc' = [pc EXCEPT ![r] = "busy"]
        /\ began' = [began EXCEPT ![r] = now]
        /\ UNCHANGED <<now, body, entries, status, answer, effects,
                       committedAt>>

\* begin answers replay.
Replay(r) ==
    LET k == body[r].key
    IN  /\ pc[r] = "idle"
        /\ k # NoKey
        /\ readFresh(k)
        /\ slot[k] = "committed"
        /\ answer' = [answer EXCEPT ![r] = response[k]]
        /\ pc' = [pc EXCEPT ![r] = "replayed"]
        /\ began' = [began EXCEPT ![r] = now]
        /\ UNCHANGED <<now, body, entries, status, effects, committedAt>>

(***************************************************************************)
(* The work.                                                               *)
(***************************************************************************)
GoTo(r, place) == pc' = [pc EXCEPT ![r] = place]

\* issueInvoice returned: the record is stored as pending.
Issue(r) ==
    /\ pc[r] = "issuing"
    /\ record' = [record EXCEPT ![r] = "pending"]
    /\ GoTo(r, IF body[r].submit THEN "submitting" ELSE "auditing")
    /\ UNCHANGED <<now, body, entries, began, status, answer, zatca, audited,
                   committedAt>>

\* issueInvoice threw, before or after it stored the record.
IssueThrows(r, stored) ==
    /\ pc[r] = "issuing"
    /\ record' = [record EXCEPT ![r] = stored]
    /\ GoTo(r, "releasing")
    /\ UNCHANGED <<now, body, entries, began, status, answer, zatca, audited,
                   committedAt>>

(***************************************************************************)
(* singleInvoiceReportingOrClearanceStatus.  Every ZatcaApiError, that of  *)
(* a request whose answer never came included, counts as a rejection; a    *)
(* 200 or 202 counts as an acceptance, whatever its body says.             *)
(***************************************************************************)
Submit(r, decision, st) ==
    /\ pc[r] = "submitting"
    /\ st = "accepted" => decision # "none"
    /\ zatca' = [zatca EXCEPT ![r] = decision]
    /\ status' = [status EXCEPT ![r] = st]
    /\ GoTo(r, "updating")
    /\ UNCHANGED <<now, body, entries, began, answer, record, audited,
                   committedAt>>

\* It throws something else.
SubmitThrows(r) ==
    /\ pc[r] = "submitting"
    /\ GoTo(r, "releasing")
    /\ UNCHANGED <<now, body, entries, began, status, answer, effects,
                   committedAt>>

(***************************************************************************)
(* The id of the stored record is a uuid of the issuer's; the result of    *)
(* issueInvoice has no invoiceId, so the route falls back to the number.   *)
(***************************************************************************)
RecordId(r) == <<"uuid", r>>

StatusId(r) == <<"invoiceNumber", r>>

\* updateInvoiceStatus, which throws if no record has the id.
UpdateStatus(r) ==
    LET hit == {q \in Request : record[q] # "none" /\ RecordId(q) = StatusId(r)}
    IN  /\ pc[r] = "updating"
        /\ record' = [q \in Request |-> IF q \in hit THEN status[r]
                                        ELSE record[q]]
        /\ GoTo(r, IF hit = {} THEN "releasing" ELSE "auditing")
        /\ UNCHANGED <<now, body, entries, began, status, answer, zatca,
                       audited, committedAt>>

\* auditLog.write.
Audit(r) ==
    /\ pc[r] = "auditing"
    /\ audited' = audited \cup {r}
    /\ GoTo(r, "committing")
    /\ UNCHANGED <<now, body, entries, began, status, answer, record, zatca,
                   committedAt>>

AuditThrows(r) ==
    /\ pc[r] = "auditing"
    /\ GoTo(r, "releasing")
    /\ UNCHANGED <<now, body, entries, began, status, answer, effects,
                   committedAt>>

(***************************************************************************)
(* commitIdempotency and the answer.  commit asks only whether the key has *)
(* an entry, not whose it is, and throws if it has none.                   *)
(***************************************************************************)
CommitUnkeyed(r) ==
    /\ pc[r] = "committing"
    /\ body[r].key = NoKey
    /\ GoTo(r, "ok")
    /\ UNCHANGED <<now, body, entries, began, status, answer, effects,
                   committedAt>>

\* Faulty variant: the committed entry does not expire later than the claim.
Commit_KeepsExpiry(r) ==
    LET k == body[r].key
    IN  /\ pc[r] = "committing"
        /\ k # NoKey
        /\ slot[k] # "none"
        /\ slot' = [slot EXCEPT ![k] = "committed"]
        /\ response' = [response EXCEPT ![k] = r]
        /\ committedAt' = [committedAt EXCEPT ![r] = now]
        /\ GoTo(r, "ok")
        /\ UNCHANGED <<now, body, expiresAt, began, status, answer, effects>>

Commit(r) ==
    LET k == body[r].key
    IN  /\ pc[r] = "committing"
        /\ k # NoKey
        /\ slot[k] # "none"
        /\ slot' = [slot EXCEPT ![k] = "committed"]
        /\ expiresAt' = [expiresAt EXCEPT ![k] = now + TTL]
        /\ response' = [response EXCEPT ![k] = r]
        /\ committedAt' = [committedAt EXCEPT ![r] = now]
        /\ GoTo(r, "ok")
        /\ UNCHANGED <<now, body, began, status, answer, effects>>

CommitThrows(r) ==
    /\ pc[r] = "committing"
    /\ body[r].key # NoKey
    /\ slot[body[r].key] = "none"
    /\ GoTo(r, "releasing")
    /\ UNCHANGED <<now, body, entries, began, status, answer, effects,
                   committedAt>>

\* Faulty variant: the error path forgets the slot.
Release_Forgets(r) ==
    /\ pc[r] = "releasing"
    /\ GoTo(r, "error")
    /\ UNCHANGED <<now, body, entries, began, status, answer, effects,
                   committedAt>>

\* The catch block: releaseIdempotency deletes the entry, whoever's it is, and
\* the error goes to the client.
Release(r) ==
    /\ pc[r] = "releasing"
    /\ slot' = [k \in Key |-> IF k = body[r].key THEN "none" ELSE slot[k]]
    /\ GoTo(r, "error")
    /\ UNCHANGED <<now, body, expiresAt, response, began, status, answer,
                   effects, committedAt>>

\* Time passes, but no request takes longer than MaxWork.
Tick ==
    /\ now < MaxTime
    /\ \A r \in Request : pc[r] \in Executing => now < began[r] + MaxWork
    /\ now' = now + 1
    /\ UNCHANGED <<body, entries, pc, began, status, answer, effects,
                   committedAt>>

Arrive(r) ==
    Refuse(r) \/ ProceedUnkeyed(r) \/ Claim(r) \/ Busy(r) \/ Replay(r)

Work(r) ==
    \/ Issue(r)
    \/ \E stored \in {"none", "pending"} : IssueThrows(r, stored)
    \/ \E decision \in {"none", "accepted", "refused"},
          st \in {"accepted", "rejected"} : Submit(r, decision, st)
    \/ SubmitThrows(r)
    \/ UpdateStatus(r)
    \/ Audit(r)
    \/ AuditThrows(r)
    \/ CommitUnkeyed(r)
    \/ Commit(r)
    \/ CommitThrows(r)
    \/ Release(r)

Next == (\E r \in Request : Arrive(r) \/ Work(r)) \/ Tick

Spec == Init /\ [][Next]_vars

\* Every await of a running handler is answered.
FairSpec == Spec /\ \A r \in Request : WF_vars(Work(r))

-----------------------------------------------------------------------------
(***************************************************************************)
(* Properties.                                                             *)
(***************************************************************************)
SameKey(q, r) == body[q].key = body[r].key /\ body[q].key # NoKey

\* middleware/idempotency.ts:14: "the second concurrent caller sees the
\* in-flight state and gets a 409 retry-later, never executing the work": two
\* requests with one key never run their work at the same time.
ExclusiveExecution ==
    \A q, r \in Request :
        SameKey(q, r) /\ pc[q] \in Executing /\ pc[r] \in Executing => q = r

\* A slot is in flight only while some handler will still commit or release
\* it: no error path leaves it wedged until its TTL.
InFlightOwned ==
    \A k \in Key : slot[k] = "in-flight" =>
        \E r \in Request : pc[r] \in Executing /\ body[r].key = k

\* A replayed answer is the one a request with the same key returned, less
\* than TTL ago, after its document was stored and audited.
ReplayFaithful ==
    \A r \in Request : pc[r] = "replayed" =>
        \E q \in Request :
            /\ q = answer[r]
            /\ SameKey(q, r)
            /\ pc[q] = "ok"
            /\ record[q] # "none"
            /\ q \in audited
            /\ committedAt[q] <= began[r]
            /\ began[r] < committedAt[q] + TTL

\* One key stores two documents only if one of the requests failed after its
\* own was stored (its slot was released), or the later one came when the
\* window of the earlier one's answer was over.
DuplicateExplained ==
    \A q, r \in Request :
        /\ SameKey(q, r)
        /\ q # r
        /\ record[q] # "none"
        /\ record[r] # "none"
        => \/ {pc[q], pc[r]} \cap {"releasing", "error"} # {}
           \/ pc[q] = "ok" /\ began[r] >= committedAt[q] + TTL
           \/ pc[r] = "ok" /\ began[q] >= committedAt[r] + TTL

\* A slot that is in flight is eventually committed or released.
SlotSettles ==
    \A k \in Key : slot[k] = "in-flight" ~> slot[k] # "in-flight"

(***************************************************************************)
(* What the repository's documents say and the code does not do.           *)
(***************************************************************************)

\* routes/tenant-invoices.ts:16: "On a non-2xx ZATCA response the local record
\* is marked `rejected`".
RejectedIsMarked ==
    \A r \in Request :
        pc[r] \in Ended /\ status[r] = "rejected" => record[r] = "rejected"

=============================================================================
