----------------------------- MODULE TenantApi -----------------------------
(***************************************************************************)
(* The routes a tenant calls with its API key - load, cancel, status and   *)
(* check-compliance of an invoice - while admins manage tenants and keys   *)
(* and onboard (TenantAdmin, AdminOnboard).  InvoiceRoute has POST         *)
(* /invoices.                                                              *)
(*                                                                         *)
(* Each tenant has one stored invoice at most.  ZATCA knows it by its      *)
(* tenant's name here, and by None an invoice that is not in this store,   *)
(* which a caller can name with the overrides of cancel and status.        *)
(***************************************************************************)
EXTENDS AdminOnboard

VARIABLES record,     \* tenant -> status of its stored invoice, None if none
          cancelled   \* what ZATCA has cancelled

\* A record without an invoice is none with a status.
ASSUME RecordAssumption == None \notin {"accepted", "cancelled"}

vars == <<adminVars, onboardVars, record, cancelled>>

TenantKinds == {"load", "cancel", "status", "checkCompliance"}

\* The key of a request is that of `owner` with the random part `tail`.
TenantRequests ==
    [kind : TenantKinds, ref : Refs, owner : Refs, tail : Tails,
     candidates : {{}}, target : {None}, clearanceStatus : {"none"},
     reached : {FALSE}, result : {"ok"}]

Same == UNCHANGED <<onboardVars, record, cancelled>>
Stay == UNCHANGED <<db, buf, locks>>

Move(p, place) == GoTo(p, place) /\ Rest /\ Stay

\* A request is barred if its key belongs to another tenant or is revoked, or
\* if its tenant is deleted: it must not be served.
TenantRequest(p) ==
    \E r \in TenantRequests :
       /\ Begin(p, r, "resolving")
       /\ barred' = IF \/ r.owner # r.ref
                       \/ r.tail \in Revoked
                       \/ \E d \in db.deleted : d[1] = r.ref
                    THEN barred \cup {p} ELSE barred
       /\ Same

\* Faulty variant: revoked keys are candidates too.
Candidates_Revoked(ref) == Issued(ref)

\* resolve: the live keys of the tenant that the token names ...
Candidates(ref) == LiveKeys(ref)

ReadKeys(p) ==
    /\ pc[p] = "resolving"
    /\ op' = [op EXCEPT ![p].candidates = Candidates(op[p].owner)]
    /\ GoTo(p, "hashing")
    /\ UNCHANGED <<deployment, overlap, barred>> /\ Stay /\ Same

\* ... are compared with it one by one, which takes as long as scrypt takes.
\* verify then wants the key's tenant to be the one in the URL.
verify(p) ==
    /\ pc[p] = "hashing"
    /\ Move(p, IF op[p].tail \in op[p].candidates /\ op[p].owner = op[p].ref
               THEN "authorising" ELSE "failed")
    /\ Same

\* authTenant after verify: the tenant is live and production-ready, and the
\* vault (which nothing here changes) has its material.
authTenant(p) ==
    /\ pc[p] = "authorising"
    /\ Move(p, IF IsLive(op[p].ref) /\ op[p].ref \in onboarded
               THEN "loading" ELSE "failed")
    /\ Same

\* loadInvoice; cancel and status then need a clearance number, which no
\* code of the server ever stores, so that the caller has to give it.
loadInvoice(p) ==
    /\ pc[p] = "loading"
    /\ \E number \in BOOLEAN :
         Move(p, IF \/ record[op[p].ref] = None
                    \/ op[p].kind \in {"cancel", "status"} /\ ~number
                 THEN "failed"
                 ELSE IF op[p].kind = "load" THEN "done"
                 ELSE "calling")
    /\ Same

\* checkInvoiceStatus and checkInvoiceCompliance change nothing.
Ask(p) ==
    /\ pc[p] = "calling" /\ op[p].kind \in {"status", "checkCompliance"}
    /\ \E place \in {"done", "failed"} : Move(p, place)
    /\ Same

Settle(p, target, status, result, place) ==
    /\ op' = [op EXCEPT ![p].target = target, ![p].clearanceStatus = status,
                        ![p].result = result, ![p].reached = TRUE]
    /\ GoTo(p, place)
    /\ UNCHANGED <<deployment, overlap, barred>>

\* Faulty variant: the status is written whatever ZATCA answered.
Answer_Optimistic(p, target, status) == Settle(p, target, status, "ok", "marking")

\* What the route makes of a call: it throws if there is no 200 or 202 ("none"),
\* and every other answer is a success, whatever clearanceStatus it has.
Answer(p, target, status) ==
    IF status = "none" THEN Settle(p, target, status, "error", "closing")
                       ELSE Settle(p, target, status, "ok", "marking")

\* cancelInvoice of the stored invoice or of the one the caller names instead:
\* done, or done with the answer lost; refused with a 200 that says so, or with
\* an error, or not reached.
cancelInvoice(p) ==
    /\ pc[p] = "calling" /\ op[p].kind = "cancel"
    /\ \E target \in {op[p].ref, None} :
         \/ /\ cancelled' = cancelled \cup {target}
            /\ \E status \in {"CANCELLED", "none"} : Answer(p, target, status)
         \/ /\ \E status \in {"FAILED", "none"} : Answer(p, target, status)
            /\ UNCHANGED cancelled
    /\ Stay /\ UNCHANGED <<onboardVars, record>>

\* updateInvoiceStatus, which may fail after ZATCA has cancelled.
updateInvoiceStatus(p) ==
    /\ pc[p] = "marking"
    /\ \/ /\ record' = [record EXCEPT ![op[p].ref] = "cancelled"]
          /\ UNCHANGED op
       \/ /\ op' = [op EXCEPT ![p].result = "error"]
          /\ UNCHANGED record
    /\ GoTo(p, "closing")
    /\ UNCHANGED <<deployment, overlap, barred, onboardVars, cancelled>> /\ Stay

\* The finally block: the row is written for every outcome, and a failure to
\* write it replaces the outcome.
auditCancelled(p) ==
    /\ pc[p] = "closing"
    /\ \/ /\ db' = Union(db, [Nothing EXCEPT !.audit =
                                {<<"cancel", op[p].ref, op[p].result, p>>}])
          /\ GoTo(p, IF op[p].result = "ok" THEN "done" ELSE "failed")
          /\ Rest
       \/ /\ op' = [op EXCEPT ![p].result = "unaudited"]
          /\ GoTo(p, "failed")
          /\ UNCHANGED <<db, deployment, overlap, barred>>
    /\ UNCHANGED <<buf, locks>> /\ Same

\* A query before the call to ZATCA fails.
TenantThrows(p) ==
    /\ pc[p] \in {"resolving", "hashing", "authorising", "loading"}
    /\ Move(p, "failed") /\ Same

TenantStep(p) ==
    \/ ReadKeys(p) \/ verify(p) \/ authTenant(p) \/ loadInvoice(p)
    \/ Ask(p) \/ cancelInvoice(p) \/ updateInvoiceStatus(p)
    \/ auditCancelled(p)

Progress(p) ==
    \/ AdminStep(p) /\ Same
    \/ OnboardStep(p) /\ UNCHANGED <<record, cancelled>>
    \/ TenantStep(p)

\* A tenant that exists at the start has been onboarded and has an invoice.
Init ==
    /\ AdminInit
    /\ OnboardInit
    /\ record = [ref \in Refs |-> IF ref \in db.created THEN "accepted" ELSE None]
    /\ cancelled = {}

Next ==
    \/ \E p \in Process :
         \/ AdminRequest(p) /\ Same
         \/ OnboardRequest(p) /\ UNCHANGED <<record, cancelled>>
         \/ TenantRequest(p)
         \/ Progress(p)
         \/ QueryThrows(p) /\ Same
         \/ TenantThrows(p)
    \/ Lapse /\ UNCHANGED <<record, cancelled>>
    \/ /\ \A p \in Process : pc[p] \in {"done", "failed"}
       /\ UNCHANGED vars

\* Every query, hash and call that a handler awaits settles, with an answer
\* or a failure; a transaction waits for the rows of another.
Spec == Init /\ [][Next]_vars /\ \A p \in Process : WF_vars(Progress(p))

-----------------------------------------------------------------------------
(***************************************************************************)
(* Properties.                                                             *)
(***************************************************************************)
\* The tables behind the routes; a unit of work that ended, in whatever way,
\* keeps neither buffered writes nor row locks.
TypeOK ==
    /\ db.created \subseteq Refs
    /\ db.revoked \subseteq Tails
    /\ \A p \in Process : locks[p] \subseteq Refs \cup Tails
    /\ \A p \in Process : ~transactional \/ ~Running(p) =>
                            buf[p] = Nothing /\ locks[p] = {}
    /\ record \in [Refs -> {None, "accepted", "cancelled"}]
    /\ cancelled \subseteq Refs \cup {None}
    /\ \A p \in Process : Running(p) => op[p].kind \in AdminKinds \cup OnboardKinds
                                                 \cup TenantKinds

\* A request that arrives after the revocation of its key has committed, or
\* after the deletion of its tenant (even one whose key revocation failed), or
\* with a key of another tenant, is never served and never reaches ZATCA.
ServedWasEntitled ==
    \A p \in barred : pc[p] \notin {"loading", "calling", "marking", "closing", "done"}

\* ZATCA has cancelled what the caller named, or has answered that it did not,
\* with a status that the route does not read.
Answered(p) ==
    \/ op[p].clearanceStatus = "CANCELLED" /\ op[p].target \in cancelled
    \/ op[p].clearanceStatus = "FAILED"

\* An invoice is marked cancelled only after ZATCA has cancelled what the caller
\* named for it, or has answered FAILED with a 200, which the route takes for a
\* cancellation; an error or a lost answer never marks it.  A row says "ok" only
\* if the invoice was marked after such an answer; and a cancellation that was
\* sent has its row, whatever happened afterwards, unless writing the row is
\* what failed.
CancelAccounted ==
    /\ \A ref \in Refs : record[ref] = "cancelled" =>
         \E p \in Process : /\ op[p].kind = "cancel" /\ op[p].ref = ref
                            /\ Answered(p)
    /\ \A r \in db.audit :
         r[1] = "cancel" /\ r[3] = "ok" =>
            record[r[2]] = "cancelled" /\ Answered(r[4])
    /\ \A p \in Process :
         op[p].kind = "cancel" /\ op[p].reached /\ ~Running(p) =>
            \/ op[p].result = "unaudited"
            \/ <<"cancel", op[p].ref, op[p].result, p>> \in db.audit

\* Every request ends: no transaction leaves its rows locked behind it, and no
\* two wait for each other.
OpsEnd == \A p \in Process : Running(p) ~> ~Running(p)
=============================================================================
