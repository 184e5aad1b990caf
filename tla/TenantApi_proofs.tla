-------------------------- MODULE TenantApi_proofs --------------------------
(***************************************************************************)
(* The server's routes, for any number of requests, tenants and keys.      *)
(* What every kind of request leaves alone is proved first; then the       *)
(* onboarding and tenant routes: the cap, the OTPs, the API keys and the   *)
(* cancellations; last the admin routes: keys of deleted tenants and the   *)
(* audit log, with and without transactions.                               *)
(***************************************************************************)
EXTENDS TenantApi, FiniteSetTheorems, TLAPS

-----------------------------------------------------------------------------
(* The handlers. *)

AdminPlaces   == {"checking", "mutating", "revoking", "auditing", "committing"}
OnboardPlaces == {"opening", "loading tenant", "handshaking", "storing",
                  "releasing"}
TenantPlaces  == {"resolving", "hashing", "authorising", "loading", "calling",
                  "marking", "closing"}
Over          == {"done", "failed"}

Labels == {verifyHeader(h) : h \in Presented}

AdminOp == [kind : AdminKinds, ref : Refs, tail : Tails \cup {None},
            label : Labels]

OnboardOp == [kind : OnboardKinds, ref : Refs, key : Keys \cup {None},
              label : Labels]

TenantOp == [kind : TenantKinds, ref : Refs, owner : Refs, tail : Tails,
             candidates : SUBSET Tails, target : Refs \cup {None},
             clearanceStatus : {"none", "CANCELLED", "FAILED"},
             reached : BOOLEAN, result : {"ok", "error", "unaudited"}]

Total(f) == f = [p \in Process |-> f[p]]

Places == {"idle"} \cup AdminPlaces \cup OnboardPlaces \cup TenantPlaces \cup Over

\* A handler is at a place of its own route, with a request of that kind.
Fits(p) ==
    /\ pc[p] \in Places
    /\ pc[p] = "idle" => op[p].kind = "none"
    /\ pc[p] \in AdminPlaces => op[p].kind \in AdminKinds
    /\ pc[p] \in OnboardPlaces => op[p].kind \in OnboardKinds
    /\ pc[p] \in TenantPlaces => op[p].kind \in TenantKinds
    /\ op[p].kind \in AdminKinds => op[p] \in AdminOp
    /\ op[p].kind \in OnboardKinds => op[p] \in OnboardOp
    /\ op[p].kind \in TenantKinds => op[p] \in TenantOp

Shape ==
    /\ deployment \in Deployments
    /\ Total(pc) /\ Total(op) /\ Total(buf) /\ Total(locks)
    /\ \A p \in Process : Fits(p)

\* The requests by kind.
AdminMove(p)   == (AdminRequest(p) \/ AdminStep(p) \/ QueryThrows(p)) /\ Same
OnboardMove(p) == (OnboardRequest(p) \/ OnboardStep(p))
                    /\ UNCHANGED <<record, cancelled>>
TenantMove(p)  == TenantRequest(p) \/ TenantStep(p) \/ TenantThrows(p)

\* The parts of the database grow.
Grows ==
    /\ db.created \subseteq db'.created /\ db.deleted \subseteq db'.deleted
    /\ db.issued \subseteq db'.issued /\ db.revoked \subseteq db'.revoked
    /\ db.audit \subseteq db'.audit

\* A step of p leaves the other requests alone.
Elsewhere(p) ==
    /\ deployment' = deployment
    /\ \A q \in Process \ {p} :
         /\ pc'[q] = pc[q] /\ op'[q] = op[q]
         /\ buf'[q] = buf[q] /\ locks'[q] = locks[q]
    /\ Grows
    /\ overlap \subseteq overlap'
    /\ barred \subseteq barred' /\ barred' \subseteq barred \cup {p}

-----------------------------------------------------------------------------
(* The cap and the idempotency slots. *)

\* Exactly the handlers between tryAcquire and their finally block hold a
\* release function.
HeldExact ==
    /\ held = {p \in Process : pc[p] \in OnboardPlaces}
    /\ IsFiniteSet(held)
    /\ count = Cardinality(held)
    /\ count <= deployment.capacity

Keyed(p) == op[p].kind \in OnboardKinds /\ op[p].key # None

Entry == [status : {"none", "in-flight", "committed"}, by : Process \cup {None}]

Claiming == {"loading tenant", "handshaking", "storing", "releasing"}

\* As long as its window has not passed, the slot of a request is its own from
\* its claim on, and for good once the response is stored.
OwnsSlot(p) ==
    Keyed(p) /\ Slot(p) \notin lapsed =>
        /\ pc[p] \in Claiming =>
             idem[Slot(p)] = [status |-> "in-flight", by |-> p]
        /\ pc[p] = "done" /\ p \in burnt =>
             idem[Slot(p)] = [status |-> "committed", by |-> p]

SlotOwned ==
    /\ idem \in [Slots -> Entry]
    /\ \A p \in burnt :
         /\ p \in Process /\ op[p].kind \in OnboardKinds
         /\ pc[p] \in {"handshaking", "storing", "releasing", "done", "failed"}
    /\ \A p \in Process : OwnsSlot(p)

CapInv == HeldExact /\ SlotOwned

-----------------------------------------------------------------------------
(* The API keys and the cancellations. *)

Deleted(ref) == \E d \in db.deleted : d[1] = ref

\* Why a barred request must not be served lasts: it is found out by the check
\* that is about to come.
Shut(p) ==
    /\ p \in Process /\ op[p].kind \in TenantKinds
    /\ pc[p] \in {"resolving", "hashing", "authorising", "failed"}
    /\ pc[p] = "resolving" => \/ op[p].owner # op[p].ref
                              \/ op[p].tail \in db.revoked
                              \/ Deleted(op[p].ref)
    /\ pc[p] = "hashing" => \/ op[p].owner # op[p].ref
                            \/ op[p].tail \notin op[p].candidates
                            \/ Deleted(op[p].ref)
    /\ pc[p] = "authorising" => Deleted(op[p].ref)

BarredStays == \A p \in barred : Shut(p)

Sent(p) == op[p].kind = "cancel" /\ op[p].reached

\* What is known of a cancellation at each place.
CancelAt(p) ==
    /\ Sent(p) => pc[p] \in {"marking", "closing", "done", "failed"}
    /\ pc[p] \in {"marking", "closing"} => Sent(p)
    /\ pc[p] = "marking" => Answered(p)
    /\ pc[p] = "closing" /\ op[p].result = "ok" =>
         record[op[p].ref] = "cancelled" /\ Answered(p)
    /\ Sent(p) /\ pc[p] \in Over =>
         \/ op[p].result = "unaudited"
         \/ <<"cancel", op[p].ref, op[p].result, p>> \in db.audit

\* The row of a cancellation comes from the request itself.
CancelRow(r) ==
    /\ r[4] \in Process /\ Sent(r[4]) /\ pc[r[4]] \in Over
    /\ r[2] \in Refs
    /\ r[3] = "ok" => record[r[2]] = "cancelled" /\ Answered(r[4])

CancelledFor(ref) == \E p \in Process : Sent(p) /\ op[p].ref = ref /\ Answered(p)

AdminRows(p) == \A r \in buf[p].audit : r[1] \in AdminKinds

CancelInv ==
    /\ record \in [Refs -> {None, "accepted", "cancelled"}]
    /\ \A p \in Process : CancelAt(p) /\ AdminRows(p)
    /\ \A ref \in Refs : record[ref] = "cancelled" => CancelledFor(ref)
    /\ \A r \in db.audit : r[1] = "cancel" => CancelRow(r)

-----------------------------------------------------------------------------
(* What the building blocks of the handlers do. *)

\* Two sets of writes are united table by table.
LEMMA UnionFields ==
    ASSUME NEW a, NEW b
    PROVE  /\ Union(a, b).created = a.created \cup b.created
           /\ Union(a, b).deleted = a.deleted \cup b.deleted
           /\ Union(a, b).issued = a.issued \cup b.issued
           /\ Union(a, b).revoked = a.revoked \cup b.revoked
           /\ Union(a, b).audit = a.audit \cup b.audit
<1>1. DOMAIN Nothing = {"created", "deleted", "issued", "revoked", "audit"}
  BY DEF Nothing
<1>2. QED
  BY <1>1 DEF Union

\* A statement goes to the transaction, if there is one, or to the tables.
LEMMA WriteEffect ==
    ASSUME Shape, NEW p \in Process, NEW w, NEW rows, Write(p, w, rows)
    PROVE  /\ Total(buf)' /\ Total(locks)' /\ Grows
           /\ \A q \in Process \ {p} : buf'[q] = buf[q] /\ locks'[q] = locks[q]
           /\ transactional =>
                /\ Free(p, rows) /\ db' = db /\ locks'[p] = locks[p] \cup rows
                /\ buf'[p].created = buf[p].created \cup w.created
                /\ buf'[p].deleted = buf[p].deleted \cup w.deleted
                /\ buf'[p].issued = buf[p].issued \cup w.issued
                /\ buf'[p].revoked = buf[p].revoked \cup w.revoked
                /\ buf'[p].audit = buf[p].audit \cup w.audit
           /\ ~transactional =>
                /\ buf' = buf /\ locks' = locks
                /\ db'.created = db.created \cup w.created
                /\ db'.deleted = db.deleted \cup w.deleted
                /\ db'.issued = db.issued \cup w.issued
                /\ db'.revoked = db.revoked \cup w.revoked
                /\ db'.audit = db.audit \cup w.audit
<1>1. CASE transactional
  <2>1. /\ Free(p, rows) /\ db' = db
        /\ buf' = [buf EXCEPT ![p] = Union(@, w)]
        /\ locks' = [locks EXCEPT ![p] = @ \cup rows]
    BY <1>1 DEF Write
  <2>2. /\ buf'[p] = Union(buf[p], w) /\ locks'[p] = locks[p] \cup rows
        /\ \A q \in Process \ {p} : buf'[q] = buf[q] /\ locks'[q] = locks[q]
        /\ Total(buf)' /\ Total(locks)'
    BY <2>1 DEF Shape, Total
  <2>3. Grows
    BY <2>1 DEF Grows
  <2>4. QED
    BY <1>1, <2>1, <2>2, <2>3, UnionFields
<1>2. CASE ~transactional
  <2>1. db' = Union(db, w) /\ buf' = buf /\ locks' = locks
    BY <1>2 DEF Write
  <2>2. /\ db'.created = db.created \cup w.created
        /\ db'.deleted = db.deleted \cup w.deleted
        /\ db'.issued = db.issued \cup w.issued
        /\ db'.revoked = db.revoked \cup w.revoked
        /\ db'.audit = db.audit \cup w.audit
    BY <2>1, UnionFields
  <2>3. Grows
    BY <2>2 DEF Grows
  <2>4. QED
    BY <1>2, <2>1, <2>2, <2>3 DEF Shape, Total
<1>3. QED
  BY <1>1, <1>2

\* A request that begins was not there before.
LEMMA BeginEffect ==
    ASSUME Shape, NEW p \in Process, NEW request, NEW place,
           Begin(p, request, place)
    PROVE  /\ pc[p] = "idle" /\ pc'[p] = place /\ op'[p] = request
           /\ Total(pc)' /\ Total(op)'
           /\ UNCHANGED <<deployment, db, buf, locks>>
           /\ \A q \in Process \ {p} : pc'[q] = pc[q] /\ op'[q] = op[q]
           /\ overlap \subseteq overlap'
           /\ \A q \in Process : Running(q) =>
                <<p, q>> \in overlap' /\ <<q, p>> \in overlap'
<1>1. /\ pc[p] = "idle" /\ pc'[p] = place /\ op'[p] = request
      /\ Total(pc)' /\ Total(op)'
      /\ UNCHANGED <<deployment, db, buf, locks>>
      /\ \A q \in Process \ {p} : pc'[q] = pc[q] /\ op'[q] = op[q]
  BY DEF Begin, GoTo, Shape, Total
<1>2. overlap' = overlap \cup
        UNION {{<<p, q>>, <<q, p>>} : q \in {r \in Process : Running(r)}}
  BY DEF Begin
<1>3. ASSUME NEW q \in Process, Running(q)
      PROVE  <<p, q>> \in overlap' /\ <<q, p>> \in overlap'
  BY <1>2, <1>3
<1>4. QED
  BY <1>1, <1>2, <1>3

\* A handler goes on, and the others stay where they are.
LEMMA GoToEffect ==
    ASSUME Shape, NEW p \in Process, NEW place, GoTo(p, place)
    PROVE  /\ pc'[p] = place /\ Total(pc)'
           /\ \A q \in Process \ {p} : pc'[q] = pc[q]
BY DEF GoTo, Shape, Total

\* ROLLBACK forgets the writes of one transaction and gives its rows back.
LEMMA RollbackEffect ==
    ASSUME Shape, NEW p \in Process, Rollback(p)
    PROVE  /\ db' = db /\ buf'[p] = Nothing /\ locks'[p] = {}
           /\ Total(buf)' /\ Total(locks)'
           /\ \A q \in Process \ {p} : buf'[q] = buf[q] /\ locks'[q] = locks[q]
BY DEF Rollback, Shape, Total

\* COMMIT ends one transaction; its writes become visible together.
LEMMA CommitEffect ==
    ASSUME Shape, NEW p \in Process, Commit(p)
    PROVE  /\ pc[p] = "committing" /\ pc'[p] \in Over
           /\ ~transactional => pc'[p] = "done"
           /\ buf'[p] = Nothing /\ locks'[p] = {}
           /\ Total(pc)' /\ Total(buf)' /\ Total(locks)'
           /\ \A q \in Process \ {p} :
                pc'[q] = pc[q] /\ buf'[q] = buf[q] /\ locks'[q] = locks[q]
           /\ db'.created = db.created \cup buf[p].created
           /\ db'.deleted = db.deleted \cup buf[p].deleted
           /\ db'.issued = db.issued \cup buf[p].issued
           /\ db'.revoked = db.revoked \cup buf[p].revoked
           /\ db'.audit = db.audit \cup buf[p].audit
           /\ UNCHANGED <<deployment, op, overlap, barred>>
<1>1. /\ pc[p] = "committing" /\ pc'[p] \in Over
      /\ ~transactional => pc'[p] = "done"
      /\ Total(pc)' /\ \A q \in Process \ {p} : pc'[q] = pc[q]
  BY GoToEffect DEF Commit, Over
<1>2. /\ buf'[p] = Nothing /\ locks'[p] = {}
      /\ Total(buf)' /\ Total(locks)'
      /\ \A q \in Process \ {p} : buf'[q] = buf[q] /\ locks'[q] = locks[q]
  BY DEF Commit, Shape, Total
<1>3. db' = Union(db, buf[p]) /\ UNCHANGED <<deployment, op, overlap, barred>>
  BY DEF Commit, Rest
<1>4. QED
  BY <1>1, <1>2, <1>3, UnionFields

-----------------------------------------------------------------------------
(* What the routes leave alone. *)

AllTotal == Total(pc) /\ Total(op) /\ Total(buf) /\ Total(locks)

\* A step that keeps one request well formed and the others alone.
LEMMA ShapeFrom ==
    ASSUME Shape, NEW p \in Process, Elsewhere(p), AllTotal', Fits(p)'
    PROVE  Shape'
<1>1. ASSUME NEW q \in Process, q # p PROVE Fits(q)'
  <2>1. Fits(q) /\ pc'[q] = pc[q] /\ op'[q] = op[q]
    BY <1>1 DEF Shape, Elsewhere
  <2>2. QED
    BY <2>1 DEF Fits
<1>2. deployment' \in Deployments
  BY DEF Elsewhere, Shape
<1>3. QED
  BY <1>1, <1>2 DEF Shape, AllTotal

\* A step of an admin route stays among its places.
AdminFrame(p) ==
    /\ Elsewhere(p) /\ Shape'
    /\ pc[p] \in {"idle"} \cup AdminPlaces
    /\ pc'[p] \in AdminPlaces \cup Over
    /\ IF pc[p] = "idle" THEN op'[p].kind \in AdminKinds \cup {"none"}
       ELSE op'[p].kind = op[p].kind /\ op[p].kind \in AdminKinds
    /\ UNCHANGED <<count, held, idem, claimed, burnt, lapsed, onboarded, record,
                   cancelled, barred>>

\* What a step of an admin route may touch.
LEMMA AdminFrames ==
    ASSUME Shape, NEW p \in Process, AdminMove(p)
    PROVE  AdminFrame(p)
<1>1. UNCHANGED <<count, held, idem, claimed, burnt, lapsed, onboarded, record,
                  cancelled>>
  BY DEF AdminMove, Same, onboardVars
<1>2. Fits(p) /\ AllTotal
  BY DEF Shape, AllTotal
<1>3. ASSUME Elsewhere(p), AllTotal', Fits(p)', barred' = barred,
             pc[p] \in {"idle"} \cup AdminPlaces,
             pc'[p] \in AdminPlaces \cup Over,
             IF pc[p] = "idle" THEN op'[p].kind \in AdminKinds \cup {"none"}
             ELSE op'[p].kind = op[p].kind /\ op[p].kind \in AdminKinds
      PROVE  AdminFrame(p)
  BY <1>1, <1>3, ShapeFrom DEF AdminFrame
<1>4. ASSUME UNCHANGED <<deployment, op, overlap, barred>>, Grows,
             Total(pc)', Total(buf)', Total(locks)',
             \A q \in Process \ {p} : /\ pc'[q] = pc[q]
                                      /\ buf'[q] = buf[q] /\ locks'[q] = locks[q],
             pc[p] \in AdminPlaces, pc'[p] \in AdminPlaces \cup Over
      PROVE  AdminFrame(p)
  <2>1. Elsewhere(p) /\ AllTotal'
    BY <1>2, <1>4 DEF Elsewhere, AllTotal, Total
  <2>2. Fits(p)' /\ op[p].kind \in AdminKinds
    BY <1>2, <1>4 DEF Fits, Places, AdminPlaces, OnboardPlaces, TenantPlaces, Over
  <2>3. QED
    BY <1>3, <1>4, <2>1, <2>2 DEF AdminPlaces
<1>6. CASE AdminRequest(p)
  <2>1. PICK header \in Presented :
          IF verifyHeader(header) = None THEN Begin(p, op[p], "failed")
          ELSE \E request \in AdminRequests(verifyHeader(header)) :
                 Begin(p, request, IF request.kind = "issueKey" THEN "checking"
                                   ELSE "mutating")
    BY <1>6 DEF AdminRequest
  <2>2. barred' = barred
    BY <1>6 DEF AdminRequest
  <2>3. ASSUME NEW request, NEW place, Begin(p, request, place)
        PROVE  Elsewhere(p) /\ AllTotal' /\ pc[p] = "idle" /\ pc'[p] = place
                 /\ op'[p] = request
    <3>1. /\ pc[p] = "idle" /\ pc'[p] = place /\ op'[p] = request
          /\ Total(pc)' /\ Total(op)' /\ UNCHANGED <<deployment, db, buf, locks>>
          /\ \A q \in Process \ {p} : pc'[q] = pc[q] /\ op'[q] = op[q]
          /\ overlap \subseteq overlap'
      BY <2>3, BeginEffect
    <3>2. QED
      BY <1>2, <2>2, <3>1 DEF Elsewhere, AllTotal, Total, Grows
  <2>4. CASE Begin(p, op[p], "failed")
    <3>1. pc[p] = "idle" /\ pc'[p] = "failed" /\ op'[p] = op[p]
      BY <2>3, <2>4
    <3>2. Fits(p)' /\ op[p].kind = "none"
      BY <1>2, <3>1 DEF Fits, Places, AdminPlaces, OnboardPlaces, TenantPlaces, Over,
         AdminKinds, OnboardKinds, TenantKinds
    <3>3. QED
      BY <1>3, <2>2, <2>3, <2>4, <3>1, <3>2 DEF Over
  <2>5. ASSUME NEW request \in AdminRequests(verifyHeader(header)),
               Begin(p, request, IF request.kind = "issueKey" THEN "checking"
                                 ELSE "mutating")
        PROVE  AdminFrame(p)
    <3>1. /\ pc[p] = "idle" /\ op'[p] = request
          /\ pc'[p] = IF request.kind = "issueKey" THEN "checking" ELSE "mutating"
      BY <2>3, <2>5
    <3>2. verifyHeader(header) \in Labels
      BY DEF Labels
    <3>3. request \in AdminOp
      BY <2>5, <3>2 DEF AdminRequests, AdminOp, AdminKinds
    <3>4. request.kind \in AdminKinds
      BY <3>3 DEF AdminOp
    <3>5. pc'[p] \in {"checking", "mutating"}
      BY <3>1
    <3>6. Fits(p)'
      BY <3>1, <3>3, <3>4, <3>5 DEF Fits, Places, AdminPlaces, OnboardPlaces,
         TenantPlaces, Over, AdminKinds, OnboardKinds, TenantKinds
    <3>7. QED
      BY <1>3, <2>2, <2>3, <2>5, <3>1, <3>4, <3>5, <3>6 DEF AdminPlaces
  <2>6. QED
    BY <2>1, <2>4, <2>5
<1>7. ASSUME NEW w, NEW rows, Write(p, w, rows), NEW place \in AdminPlaces,
             GoTo(p, place), Rest, pc[p] \in AdminPlaces
      PROVE  AdminFrame(p)
  BY <1>4, <1>7, WriteEffect, GoToEffect DEF Rest
<1>8. ASSUME Throw(p), pc[p] \in AdminPlaces PROVE AdminFrame(p)
  <2>1. Rollback(p) /\ GoTo(p, "failed") /\ Rest
    BY <1>8 DEF Throw
  <2>2. db' = db
    BY <2>1, RollbackEffect
  <2>3. Grows
    BY <2>2 DEF Grows
  <2>4. QED
    BY <1>4, <1>8, <2>1, <2>3, RollbackEffect, GoToEffect DEF Rest, Over
<1>9. CASE create(p)
  BY <1>7, <1>8, <1>9 DEF create, AdminPlaces
<1>10. CASE patch(p)
  BY <1>7, <1>8, <1>10 DEF patch, AdminPlaces
<1>11. CASE softDelete(p)
  BY <1>7, <1>8, <1>11 DEF softDelete, AdminPlaces
<1>12. CASE revokeAllForTenant(p)
  BY <1>7, <1>12 DEF revokeAllForTenant, AdminPlaces
<1>13. CASE revoke(p)
  BY <1>7, <1>8, <1>13 DEF revoke, AdminPlaces
<1>14. CASE auditWrite(p)
  BY <1>7, <1>14 DEF auditWrite, AdminPlaces
<1>15. CASE checkTenant(p)
  <2>1. /\ pc[p] = "checking" /\ pc'[p] \in {"mutating", "failed"} /\ Total(pc)'
        /\ \A q \in Process \ {p} : pc'[q] = pc[q]
        /\ UNCHANGED <<deployment, op, overlap, barred, db, buf, locks>>
    BY <1>15, GoToEffect DEF checkTenant, Rest
  <2>2. Grows /\ Total(buf)' /\ Total(locks)'
    BY <1>2, <2>1 DEF Grows, AllTotal, Total
  <2>3. QED
    BY <1>4, <2>1, <2>2 DEF AdminPlaces, Over
<1>16. CASE issue(p)
  <2>1. PICK k \in Fresh :
          /\ Write(p, [Nothing EXCEPT !.issued = {<<k, op[p].ref, p>>}], {k})
          /\ op' = [op EXCEPT ![p].tail = k]
    BY <1>16 DEF issue
  <2>2. /\ pc[p] = "mutating" /\ op[p].kind = "issueKey" /\ pc'[p] = "auditing"
        /\ Total(pc)' /\ \A q \in Process \ {p} : pc'[q] = pc[q]
        /\ UNCHANGED <<deployment, overlap, barred>>
    BY <1>16, GoToEffect DEF issue
  <2>3. /\ Total(buf)' /\ Total(locks)' /\ Grows
        /\ \A q \in Process \ {p} : buf'[q] = buf[q] /\ locks'[q] = locks[q]
    BY <2>1, WriteEffect
  <2>4. op[p] \in AdminOp /\ k \in Tails
    BY <1>2, <2>2 DEF Fits, AdminKinds, Fresh
  <2>5. /\ op'[p] = [op[p] EXCEPT !.tail = k] /\ Total(op)'
        /\ \A q \in Process \ {p} : op'[q] = op[q]
    BY <1>2, <2>1 DEF AllTotal, Total
  <2>6. op'[p] \in AdminOp /\ op'[p].kind = op[p].kind
    BY <2>4, <2>5 DEF AdminOp
  <2>7. Fits(p)'
    BY <2>2, <2>6 DEF Fits, Places, AdminPlaces, OnboardPlaces, TenantPlaces, Over,
       AdminKinds, OnboardKinds, TenantKinds
  <2>8. Elsewhere(p) /\ AllTotal'
    BY <2>2, <2>3, <2>5 DEF Elsewhere, AllTotal
  <2>9. QED
    BY <1>3, <2>2, <2>6, <2>7, <2>8 DEF AdminPlaces, AdminKinds
<1>17. CASE Commit(p)
  <2>1. Grows
    BY <1>17, CommitEffect DEF Grows
  <2>2. QED
    BY <1>4, <1>17, <2>1, CommitEffect DEF AdminPlaces
<1>18. CASE QueryThrows(p)
  BY <1>8, <1>18 DEF QueryThrows, AdminPlaces
<1>19. QED
  BY <1>6, <1>9, <1>10, <1>11, <1>12, <1>13, <1>14, <1>15, <1>16, <1>17, <1>18
     DEF AdminMove, AdminStep

\* The other routes write nothing but audit rows of their own kind.
OnlyAudit(kinds) ==
    /\ db'.created = db.created /\ db'.deleted = db.deleted
    /\ db'.issued = db.issued /\ db'.revoked = db.revoked
    /\ db.audit \subseteq db'.audit
    /\ \A r \in db'.audit \ db.audit : r[1] \in kinds

\* Writes that take effect at once.
LEMMA UnionEffect ==
    ASSUME NEW w, db' = Union(db, w)
    PROVE  /\ db'.created = db.created \cup w.created
           /\ db'.deleted = db.deleted \cup w.deleted
           /\ db'.issued = db.issued \cup w.issued
           /\ db'.revoked = db.revoked \cup w.revoked
           /\ db'.audit = db.audit \cup w.audit
BY UnionFields

\* An audit row that is written at once.
LEMMA AuditEffect ==
    ASSUME NEW row, NEW kinds, row[1] \in kinds,
           db' = Union(db, [Nothing EXCEPT !.audit = {row}])
    PROVE  OnlyAudit(kinds) /\ db'.audit = db.audit \cup {row}
<1>1. PICK w : w = [Nothing EXCEPT !.audit = {row}]
  OBVIOUS
<1>2. /\ w.created = {} /\ w.deleted = {} /\ w.issued = {} /\ w.revoked = {}
      /\ w.audit = {row}
  BY <1>1 DEF Nothing
<1>3. db' = Union(db, w)
  BY <1>1
<1>4. /\ db'.created = db.created \cup w.created
      /\ db'.deleted = db.deleted \cup w.deleted
      /\ db'.issued = db.issued \cup w.issued
      /\ db'.revoked = db.revoked \cup w.revoked
      /\ db'.audit = db.audit \cup w.audit
  BY <1>3, UnionEffect
<1>5. QED
  BY <1>2, <1>4 DEF OnlyAudit

OnboardFrame(p) ==
    /\ Elsewhere(p) /\ Shape' /\ OnlyAudit(OnboardKinds)
    /\ pc[p] \in {"idle"} \cup OnboardPlaces
    /\ pc'[p] \in OnboardPlaces \cup Over
    /\ IF pc[p] = "idle" THEN op'[p].kind \in OnboardKinds \cup {"none"}
       ELSE op' = op /\ op[p].kind \in OnboardKinds
    /\ UNCHANGED <<buf, locks, record, cancelled, barred>>

\* What a step of /onboard or /credentials/rotate may touch.
LEMMA OnboardFrames ==
    ASSUME Shape, NEW p \in Process, OnboardMove(p)
    PROVE  OnboardFrame(p)
<1>1. UNCHANGED <<record, cancelled>>
  BY DEF OnboardMove
<1>2. Fits(p) /\ AllTotal
  BY DEF Shape, AllTotal
<1>3. db' = db => OnlyAudit(OnboardKinds)
  BY DEF OnlyAudit
<1>4. OnlyAudit(OnboardKinds) => Grows
  BY DEF OnlyAudit, Grows
<1>5. CASE OnboardRequest(p)
  <2>1. PICK request, place :
          /\ Begin(p, request, place)
          /\ \/ request \in OnboardOp /\ place = "opening"
             \/ request = op[p] /\ place = "failed"
    <3>1. \A header \in Presented : verifyHeader(header) \in Labels
      BY DEF Labels
    <3>2. \A header \in Presented :
            \A request \in OnboardRequests(verifyHeader(header)) : request \in OnboardOp
      BY <3>1 DEF OnboardRequests, OnboardOp
    <3>3. QED
      BY <1>5, <3>2 DEF OnboardRequest
  <2>2. /\ pc[p] = "idle" /\ pc'[p] = place /\ op'[p] = request
        /\ Total(pc)' /\ Total(op)' /\ UNCHANGED <<deployment, db, buf, locks>>
        /\ \A q \in Process \ {p} : pc'[q] = pc[q] /\ op'[q] = op[q]
        /\ overlap \subseteq overlap'
    BY <2>1, BeginEffect
  <2>3. barred' = barred
    BY <1>5 DEF OnboardRequest
  <2>4. Elsewhere(p) /\ AllTotal'
    BY <1>2, <2>2, <2>3 DEF Elsewhere, AllTotal, Total, Grows
  <2>5. request \in OnboardOp => request.kind \in OnboardKinds
    BY DEF OnboardOp
  <2>6. Fits(p)' /\ op'[p].kind \in OnboardKinds \cup {"none"}
    BY <1>2, <2>1, <2>2, <2>5 DEF Fits, Places, AdminPlaces, OnboardPlaces,
       TenantPlaces, Over, AdminKinds, OnboardKinds, TenantKinds
  <2>7. QED
    BY <1>1, <1>3, <2>1, <2>2, <2>3, <2>4, <2>6, ShapeFrom
       DEF OnboardFrame, OnboardPlaces, Over
<1>6. ASSUME NEW place \in OnboardPlaces \cup Over, GoTo(p, place), Rest,
             UNCHANGED <<buf, locks>>, OnlyAudit(OnboardKinds),
             pc[p] \in OnboardPlaces
      PROVE  OnboardFrame(p)
  <2>1. /\ pc'[p] = place /\ Total(pc)' /\ \A q \in Process \ {p} : pc'[q] = pc[q]
    BY <1>6, GoToEffect
  <2>2. UNCHANGED <<deployment, op, overlap, barred>>
    BY <1>6 DEF Rest
  <2>3. Elsewhere(p) /\ AllTotal'
    BY <1>2, <1>4, <1>6, <2>1, <2>2 DEF Elsewhere, AllTotal, Total
  <2>4. Fits(p)' /\ op[p].kind \in OnboardKinds
    BY <1>2, <1>6, <2>1, <2>2 DEF Fits, Places, AdminPlaces, OnboardPlaces,
       TenantPlaces, Over
  <2>5. QED
    BY <1>1, <1>6, <2>1, <2>2, <2>3, <2>4, ShapeFrom DEF OnboardFrame, OnboardPlaces
<1>7. ASSUME NEW place \in OnboardPlaces \cup Over, Step(p, place),
             pc[p] \in OnboardPlaces
      PROVE  OnboardFrame(p)
  BY <1>3, <1>6, <1>7 DEF Step
<1>8. CASE Persist(p)
  <2>1. db' = Union(db, [Nothing EXCEPT !.audit =
                          {<<op[p].kind, op[p].ref, op[p].label, p>>}])
    BY <1>8 DEF Persist
  <2>2. pc[p] = "handshaking" /\ GoTo(p, "storing") /\ Rest /\ UNCHANGED <<buf, locks>>
    BY <1>8 DEF Persist
  <2>3. op[p].kind \in OnboardKinds
    BY <1>2, <2>2 DEF Fits, OnboardPlaces
  <2>4. OnlyAudit(OnboardKinds)
    <3> DEFINE row == <<op[p].kind, op[p].ref, op[p].label, p>>
    <3>1. row[1] \in OnboardKinds /\ db' = Union(db, [Nothing EXCEPT !.audit = {row}])
      BY <2>1, <2>3
    <3> HIDE DEF row
    <3>2. QED
      BY <3>1, AuditEffect
  <2>5. QED
    BY <1>6, <2>2, <2>4 DEF OnboardPlaces
<1> USE DEF OnboardPlaces, Over
<1>9. CASE Open(p)
  BY <1>7, <1>9 DEF Open, beginIdempotency, Leave
<1>10. CASE getTenant(p)
  BY <1>7, <1>10 DEF getTenant
<1>11. CASE RunThrows(p)
  BY <1>7, <1>11 DEF RunThrows
<1>12. CASE commitIdempotency(p)
  BY <1>7, <1>12 DEF commitIdempotency, Leave
<1>13. CASE releaseIdempotency(p)
  BY <1>7, <1>13 DEF releaseIdempotency, Leave
<1>14. QED
  BY <1>5, <1>8, <1>9, <1>10, <1>11, <1>12, <1>13 DEF OnboardMove, OnboardStep

TenantFrame(p) ==
    /\ Elsewhere(p) /\ Shape' /\ OnlyAudit({"cancel"})
    /\ pc[p] \in {"idle"} \cup TenantPlaces
    /\ pc'[p] \in TenantPlaces \cup Over
    /\ op'[p].kind \in TenantKinds /\ op'[p] \in TenantOp
    /\ pc[p] # "idle" => /\ op[p] \in TenantOp /\ op'[p].kind = op[p].kind
                         /\ op'[p].ref = op[p].ref /\ op'[p].owner = op[p].owner
                         /\ op'[p].tail = op[p].tail
    /\ UNCHANGED <<count, held, idem, claimed, burnt, lapsed, onboarded, buf, locks>>

\* What a step of a tenant route may touch.
LEMMA TenantFrames ==
    ASSUME Shape, NEW p \in Process, TenantMove(p)
    PROVE  TenantFrame(p)
<1>1. Fits(p) /\ AllTotal
  BY DEF Shape, AllTotal
<1>2. db' = db => OnlyAudit({"cancel"})
  BY DEF OnlyAudit
<1>3. OnlyAudit({"cancel"}) => Grows
  BY DEF OnlyAudit, Grows
<1>4. CASE TenantRequest(p)
  <2>1. PICK r \in TenantRequests :
          /\ Begin(p, r, "resolving") /\ Same
          /\ barred' \in {barred, barred \cup {p}}
    BY <1>4 DEF TenantRequest
  <2>2. /\ pc[p] = "idle" /\ pc'[p] = "resolving" /\ op'[p] = r
        /\ Total(pc)' /\ Total(op)' /\ UNCHANGED <<deployment, db, buf, locks>>
        /\ \A q \in Process \ {p} : pc'[q] = pc[q] /\ op'[q] = op[q]
        /\ overlap \subseteq overlap'
    BY <2>1, BeginEffect
  <2>3. r \in TenantOp /\ r.kind \in TenantKinds
    BY <2>1 DEF TenantRequests, TenantOp
  <2>4. Elsewhere(p) /\ AllTotal'
    BY <1>1, <2>1, <2>2 DEF Elsewhere, AllTotal, Total, Grows
  <2>5. Fits(p)'
    BY <2>2, <2>3 DEF Fits, Places, AdminPlaces, OnboardPlaces,
       TenantPlaces, Over, AdminKinds, OnboardKinds, TenantKinds
  <2>6. UNCHANGED <<count, held, idem, claimed, burnt, lapsed, onboarded>>
    BY <2>1 DEF Same, onboardVars
  <2>7. QED
    BY <1>2, <2>2, <2>3, <2>4, <2>5, <2>6, ShapeFrom
       DEF TenantFrame, TenantPlaces
<1>5. ASSUME NEW place \in TenantPlaces \cup Over, GoTo(p, place),
             UNCHANGED <<deployment, overlap, barred, buf, locks, onboardVars>>,
             OnlyAudit({"cancel"}), pc[p] \in TenantPlaces,
             Total(op)', \A q \in Process \ {p} : op'[q] = op[q],
             op'[p] \in TenantOp, op'[p].kind = op[p].kind,
             op'[p].ref = op[p].ref, op'[p].owner = op[p].owner,
             op'[p].tail = op[p].tail
      PROVE  TenantFrame(p)
  <2>1. /\ pc'[p] = place /\ Total(pc)' /\ \A q \in Process \ {p} : pc'[q] = pc[q]
    BY <1>5, GoToEffect
  <2>2. Elsewhere(p) /\ AllTotal'
    BY <1>1, <1>3, <1>5, <2>1 DEF Elsewhere, AllTotal, Total
  <2>3. op[p].kind \in TenantKinds /\ op[p] \in TenantOp
    BY <1>1, <1>5 DEF Fits
  <2>4. Fits(p)'
    BY <1>5, <2>1, <2>3 DEF Fits, Places, AdminPlaces, OnboardPlaces,
       TenantPlaces, Over, AdminKinds, OnboardKinds, TenantKinds
  <2>5. UNCHANGED <<count, held, idem, claimed, burnt, lapsed, onboarded>>
    BY <1>5 DEF onboardVars
  <2>6. QED
    BY <1>5, <2>1, <2>2, <2>3, <2>4, <2>5, ShapeFrom DEF TenantFrame, TenantPlaces
<1>6. pc[p] \in TenantPlaces => op[p] \in TenantOp
  BY <1>1 DEF Fits
<1>7. ASSUME NEW place \in TenantPlaces \cup Over, Move(p, place), Same,
             pc[p] \in TenantPlaces
      PROVE  TenantFrame(p)
  <2>1. UNCHANGED <<deployment, op, overlap, barred, db, buf, locks, onboardVars>>
    BY <1>7 DEF Move, Rest, Stay, Same
  <2>2. GoTo(p, place)
    BY <1>7 DEF Move
  <2>3. Total(op)' /\ op'[p] \in TenantOp /\ OnlyAudit({"cancel"})
    BY <1>1, <1>2, <1>6, <1>7, <2>1 DEF AllTotal, Total
  <2>4. QED
    BY <1>5, <1>7, <2>1, <2>2, <2>3
<1>8. ASSUME NEW target \in Refs \cup {None},
             NEW status \in {"none", "CANCELLED", "FAILED"},
             NEW result \in {"ok", "error"}, NEW place \in TenantPlaces \cup Over,
             Settle(p, target, status, result, place),
             Stay, UNCHANGED onboardVars, pc[p] \in TenantPlaces
      PROVE  TenantFrame(p)
  <2>1. /\ op' = [op EXCEPT ![p].target = target, ![p].clearanceStatus = status,
                            ![p].result = result, ![p].reached = TRUE]
        /\ GoTo(p, place) /\ UNCHANGED <<deployment, overlap, barred, db, buf, locks>>
    BY <1>8 DEF Settle, Stay
  <2>2. /\ op'[p] = [op[p] EXCEPT !.target = target, !.clearanceStatus = status,
                                  !.result = result, !.reached = TRUE]
        /\ Total(op)' /\ \A q \in Process \ {p} : op'[q] = op[q]
    BY <1>1, <2>1 DEF AllTotal, Total
  <2>3. /\ op'[p] \in TenantOp /\ op'[p].kind = op[p].kind
        /\ op'[p].ref = op[p].ref /\ op'[p].owner = op[p].owner
        /\ op'[p].tail = op[p].tail
    BY <1>6, <1>8, <2>2 DEF TenantOp
  <2>4. QED
    BY <1>2, <1>5, <1>8, <2>1, <2>2, <2>3
<1>9. CASE ReadKeys(p)
  <2>1. /\ pc[p] = "resolving" /\ GoTo(p, "hashing")
        /\ op' = [op EXCEPT ![p].candidates = Candidates(op[p].owner)]
        /\ UNCHANGED <<deployment, overlap, barred, db, buf, locks, onboardVars>>
    BY <1>9 DEF ReadKeys, Stay, Same
  <2>2. Candidates(op[p].owner) \subseteq Tails
    BY DEF Candidates, LiveKeys, Issued
  <2>3. /\ op'[p] = [op[p] EXCEPT !.candidates = Candidates(op[p].owner)]
        /\ Total(op)' /\ \A q \in Process \ {p} : op'[q] = op[q]
    BY <1>1, <2>1 DEF AllTotal, Total
  <2>4. op[p] \in TenantOp
    BY <1>6, <2>1 DEF TenantPlaces
  <2>5. /\ op'[p] \in TenantOp /\ op'[p].kind = op[p].kind
        /\ op'[p].ref = op[p].ref /\ op'[p].owner = op[p].owner
        /\ op'[p].tail = op[p].tail
    BY <2>2, <2>3, <2>4 DEF TenantOp
  <2>6. QED
    BY <1>2, <1>5, <2>1, <2>3, <2>5 DEF TenantPlaces
<1>10. ASSUME NEW result \in {"ok", "error", "unaudited"}, pc[p] \in TenantPlaces,
              op' = op \/ op' = [op EXCEPT ![p].result = result]
       PROVE  /\ op'[p] \in TenantOp /\ op'[p].kind = op[p].kind
              /\ op'[p].ref = op[p].ref /\ op'[p].owner = op[p].owner
              /\ op'[p].tail = op[p].tail
              /\ Total(op)' /\ \A q \in Process \ {p} : op'[q] = op[q]
  <2>1. CASE op' = op
    BY <1>1, <1>6, <1>10, <2>1 DEF AllTotal, Total
  <2>2. CASE op' = [op EXCEPT ![p].result = result]
    <3>1. /\ op'[p] = [op[p] EXCEPT !.result = result]
          /\ Total(op)' /\ \A q \in Process \ {p} : op'[q] = op[q]
      BY <1>1, <2>2 DEF AllTotal, Total
    <3>2. QED
      BY <1>6, <1>10, <3>1 DEF TenantOp
  <2>3. QED
    BY <1>10, <2>1, <2>2
<1>11. CASE updateInvoiceStatus(p)
  <2>1. /\ pc[p] = "marking" /\ GoTo(p, "closing")
        /\ op' = op \/ op' = [op EXCEPT ![p].result = "error"]
        /\ UNCHANGED <<deployment, overlap, barred, db, buf, locks, onboardVars>>
    BY <1>11 DEF updateInvoiceStatus, Stay
  <2>2. QED
    BY <1>2, <1>5, <1>10, <2>1 DEF TenantPlaces
<1>12. CASE auditCancelled(p)
  <2> DEFINE row == <<"cancel", op[p].ref, op[p].result, p>>
  <2>1. /\ pc[p] = "closing"
        /\ op' = op \/ op' = [op EXCEPT ![p].result = "unaudited"]
        /\ \/ db' = Union(db, [Nothing EXCEPT !.audit = {row}])
           \/ db' = db
        /\ UNCHANGED <<deployment, overlap, barred, buf, locks, onboardVars>>
        /\ GoTo(p, "done") \/ GoTo(p, "failed")
    BY <1>12 DEF auditCancelled, Same, Rest
  <2>2. OnlyAudit({"cancel"})
    <3>1. row[1] \in {"cancel"}
      OBVIOUS
    <3> HIDE DEF row
    <3>2. QED
      BY <1>2, <2>1, <3>1, AuditEffect
  <2>3. QED
    BY <1>5, <1>10, <2>1, <2>2 DEF TenantPlaces, Over
<1>13. CASE cancelInvoice(p)
  <2>1. /\ pc[p] = "calling" /\ op[p].kind = "cancel" /\ Stay
        /\ UNCHANGED onboardVars
        /\ \E target \in {op[p].ref, None}, status \in {"none", "CANCELLED", "FAILED"} :
             \/ Settle(p, target, status, "ok", "marking")
             \/ Settle(p, target, status, "error", "closing")
    BY <1>13 DEF cancelInvoice, Answer
  <2>2. op[p].ref \in Refs
    BY <1>6, <2>1 DEF TenantPlaces, TenantOp
  <2>3. QED
    BY <1>8, <2>1, <2>2 DEF TenantPlaces
<1> USE DEF TenantPlaces, Over
<1>14. CASE verify(p)
  BY <1>7, <1>14 DEF verify
<1>15. CASE authTenant(p)
  BY <1>7, <1>15 DEF authTenant
<1>16. CASE loadInvoice(p)
  BY <1>7, <1>16 DEF loadInvoice
<1>17. CASE Ask(p)
  BY <1>7, <1>17 DEF Ask
<1>18. CASE TenantThrows(p)
  BY <1>7, <1>18 DEF TenantThrows
<1>19. QED
  BY <1>4, <1>9, <1>11, <1>12, <1>13, <1>14, <1>15, <1>16, <1>17, <1>18
     DEF TenantMove, TenantStep

-----------------------------------------------------------------------------
(* Steps of the specification. *)

\* The next-state relation by kind of request.
LEMMA NextCases ==
    ASSUME [Next]_vars
    PROVE  \/ \E p \in Process : AdminMove(p) \/ OnboardMove(p) \/ TenantMove(p)
           \/ Lapse /\ UNCHANGED <<record, cancelled>>
           \/ UNCHANGED vars
BY DEF Next, Progress, AdminMove, OnboardMove, TenantMove

\* Neither the end of a window nor a stuttering step touches a handler.
LEMMA StillSame ==
    ASSUME (Lapse /\ UNCHANGED <<record, cancelled>>) \/ UNCHANGED vars
    PROVE  UNCHANGED <<deployment, db, buf, locks, op, pc, overlap, barred, count,
                       held, claimed, burnt, onboarded, record, cancelled>>
<1>1. CASE Lapse /\ UNCHANGED <<record, cancelled>>
  BY <1>1 DEF Lapse, adminVars
<1>2. CASE UNCHANGED vars
  BY <1>2 DEF vars, adminVars, onboardVars
<1>3. QED
  BY <1>1, <1>2

\* The initial requests are well formed.
LEMMA ShapeInit == Init => Shape
<1> SUFFICES ASSUME Init PROVE Shape
  OBVIOUS
<1>1. /\ deployment \in Deployments
      /\ buf = [p \in Process |-> Nothing]
      /\ locks = [p \in Process |-> {}]
      /\ op = [p \in Process |-> [kind |-> "none"]]
      /\ pc = [p \in Process |-> "idle"]
  BY DEF Init, AdminInit
<1>2. \A p \in Process : pc[p] = "idle" /\ op[p].kind = "none"
  BY <1>1
<1>3. \A p \in Process : Fits(p)
  BY <1>2 DEF Fits, Places, AdminPlaces, OnboardPlaces, TenantPlaces, AdminKinds,
     OnboardKinds, TenantKinds
<1>4. QED
  BY <1>1, <1>3 DEF Shape, Total

\* Every step keeps the requests well formed.
LEMMA ShapeNext ==
    ASSUME Shape, [Next]_vars
    PROVE  Shape'
<1>1. CASE UNCHANGED <<deployment, db, buf, locks, op, pc, overlap, barred, count,
                       held, claimed, burnt, onboarded, record, cancelled>>
  BY <1>1 DEF Shape, Total, Fits
<1>2. CASE \E p \in Process : AdminMove(p) \/ OnboardMove(p) \/ TenantMove(p)
  BY <1>2, AdminFrames, OnboardFrames, TenantFrames
     DEF AdminFrame, OnboardFrame, TenantFrame
<1>3. QED
  BY <1>1, <1>2, NextCases, StillSame

-----------------------------------------------------------------------------
(* The cap. *)

\* tryAcquire and the finally block keep the semaphore's count exact.
LEMMA HeldNext ==
    ASSUME Shape, HeldExact, NEW p \in Process, OnboardMove(p)
    PROVE  HeldExact'
<1> DEFINE Inside == {q \in Process : pc'[q] \in OnboardPlaces}
<1>1. OnboardFrame(p)
  BY OnboardFrames
<1>2. /\ \A q \in Process \ {p} : pc'[q] = pc[q]
      /\ deployment' = deployment
  BY <1>1 DEF OnboardFrame, Elsewhere
<1>3. count \in Nat /\ deployment.capacity \in Nat
  BY FS_CardinalityType, CapacityAssumption DEF HeldExact, Shape
<1>4. ASSUME UNCHANGED <<count, held>>,
             pc[p] \in OnboardPlaces <=> pc'[p] \in OnboardPlaces
      PROVE  HeldExact'
  <2>1. Inside = held
    BY <1>2, <1>4 DEF HeldExact
  <2>2. QED
    BY <1>2, <1>4, <2>1 DEF HeldExact
<1>5. ASSUME NEW place \in OnboardPlaces, Step(p, place), UNCHANGED <<count, held>>,
             pc[p] \in OnboardPlaces
      PROVE  HeldExact'
  BY <1>4, <1>5, GoToEffect DEF Step
<1>6. ASSUME NEW place \in Over, Leave(p, place), pc[p] \in OnboardPlaces
      PROVE  HeldExact'
  <2>1. pc'[p] = place
    BY <1>6, GoToEffect DEF Leave, Step
  <2>2. pc'[p] \notin OnboardPlaces
    BY <1>6, <2>1 DEF Over, OnboardPlaces
  <2>3. p \in held
    BY <1>6 DEF HeldExact
  <2>4. count' = count - 1 /\ held' = held \ {p}
    BY <1>6, <2>3 DEF Leave, release
  <2>5. Inside = held \ {p}
    BY <1>2, <2>2 DEF HeldExact
  <2>6. IsFiniteSet(held \ {p}) /\ Cardinality(held \ {p}) = Cardinality(held) - 1
    BY <2>3, FS_RemoveElement DEF HeldExact
  <2>7. QED
    BY <1>2, <1>3, <2>4, <2>5, <2>6 DEF HeldExact
<1>7. CASE OnboardRequest(p)
  <2>1. CASE /\ tryAcquire(p)
             /\ \E request : Begin(p, request, "opening")
    <3>1. pc[p] = "idle" /\ pc'[p] = "opening"
      BY <2>1, BeginEffect
    <3>2. p \notin held
      BY <3>1 DEF HeldExact, OnboardPlaces
    <3>3. count < deployment.capacity /\ count' = count + 1 /\ held' = held \cup {p}
      BY <2>1 DEF tryAcquire
    <3>4. Inside = held \cup {p}
      BY <1>2, <3>1 DEF HeldExact, OnboardPlaces
    <3>5. IsFiniteSet(held \cup {p}) /\ Cardinality(held \cup {p}) = Cardinality(held) + 1
      BY <3>2, FS_AddElement DEF HeldExact
    <3>6. QED
      BY <1>2, <1>3, <3>3, <3>4, <3>5 DEF HeldExact
  <2>2. CASE Begin(p, op[p], "failed") /\ UNCHANGED <<count, held>>
    <3>1. pc[p] = "idle" /\ pc'[p] = "failed"
      BY <2>2, BeginEffect
    <3>2. QED
      BY <1>4, <2>2, <3>1 DEF OnboardPlaces
  <2>3. QED
    BY <1>7, <2>1, <2>2 DEF OnboardRequest
<1>8. CASE Persist(p)
  <2>1. pc[p] = "handshaking" /\ pc'[p] = "storing" /\ UNCHANGED <<count, held>>
    BY <1>8, GoToEffect DEF Persist
  <2>2. QED
    BY <1>4, <2>1 DEF OnboardPlaces
<1> HIDE DEF Inside
<1> USE DEF OnboardPlaces, Over
<1>9. CASE Open(p)
  BY <1>5, <1>6, <1>9 DEF Open, beginIdempotency
<1>10. CASE getTenant(p)
  BY <1>5, <1>10 DEF getTenant
<1>11. CASE RunThrows(p)
  BY <1>5, <1>11 DEF RunThrows
<1>12. CASE commitIdempotency(p)
  BY <1>5, <1>6, <1>12 DEF commitIdempotency
<1>13. CASE releaseIdempotency(p)
  BY <1>6, <1>13 DEF releaseIdempotency
<1>14. QED
  BY <1>7, <1>8, <1>9, <1>10, <1>11, <1>12, <1>13 DEF OnboardMove, OnboardStep

-----------------------------------------------------------------------------
(* The idempotency slots. *)

\* p changes no slot but one that is free or its own.
TouchesOwn(p) ==
    \/ idem' = idem
    \/ /\ Keyed(p)
       /\ idem[Slot(p)].status = "none" \/ pc[p] \in Claiming
       /\ \E e \in Entry : idem' = [idem EXCEPT ![Slot(p)] = e]

\* What another request holds it keeps then.
LEMMA SlotElsewhere ==
    ASSUME Shape, SlotOwned, NEW p \in Process, Elsewhere(p),
           lapsed' = lapsed, burnt' \in {burnt, burnt \cup {p}}, TouchesOwn(p),
           NEW q \in Process, q # p
    PROVE  OwnsSlot(q)'
<1>1. op'[q] = op[q] /\ pc'[q] = pc[q]
  BY DEF Elsewhere
<1>2. (Keyed(q)' <=> Keyed(q)) /\ Slot(q)' = Slot(q)
  BY <1>1 DEF Keyed, Slot
<1>3. OwnsSlot(q) /\ OwnsSlot(p) /\ idem \in [Slots -> Entry]
  BY DEF SlotOwned
<1>4. ASSUME Keyed(q), Slot(q) \notin lapsed,
             pc[q] \in Claiming \/ (pc[q] = "done" /\ q \in burnt)
      PROVE  idem'[Slot(q)] = idem[Slot(q)]
  <2>1. \/ idem[Slot(q)] = [status |-> "in-flight", by |-> q]
        \/ idem[Slot(q)] = [status |-> "committed", by |-> q]
    BY <1>3, <1>4 DEF OwnsSlot, Claiming
  <2>2. idem[Slot(q)].status # "none" /\ idem[Slot(q)].by = q
    BY <2>1
  <2>3. Slot(q) \in Slots
    BY <1>4 DEF Shape, Fits, Keyed, OnboardOp, Slot, Slots
  <2>4. ASSUME Keyed(p), pc[p] \in Claiming, Slot(p) = Slot(q) PROVE FALSE
    <3>1. idem[Slot(p)] = [status |-> "in-flight", by |-> p]
      BY <1>3, <1>4, <2>4 DEF OwnsSlot, Claiming
    <3>2. idem[Slot(p)].by = p
      BY <3>1
    <3>3. QED
      BY <2>2, <2>4, <3>2
  <2>5. ASSUME NEW e \in Entry, idem' = [idem EXCEPT ![Slot(p)] = e],
               Slot(p) # Slot(q)
        PROVE  idem'[Slot(q)] = idem[Slot(q)]
    BY <1>3, <2>3, <2>5
  <2>6. QED
    BY <2>2, <2>4, <2>5 DEF TouchesOwn
<1>5. QED
  BY <1>1, <1>2, <1>3, <1>4 DEF OwnsSlot, Claiming

\* begin, commit and release of the admin routes keep a slot its owner's.
LEMMA SlotNext ==
    ASSUME Shape, SlotOwned, NEW p \in Process, OnboardMove(p)
    PROVE  SlotOwned'
<1>1. OnboardFrame(p)
  BY OnboardFrames
<1>2. /\ Elsewhere(p) /\ \A q \in Process \ {p} : pc'[q] = pc[q] /\ op'[q] = op[q]
      /\ pc[p] \in {"idle"} \cup OnboardPlaces /\ pc'[p] \in OnboardPlaces \cup Over
      /\ pc[p] # "idle" => op' = op /\ op[p].kind \in OnboardKinds
  BY <1>1 DEF OnboardFrame, Elsewhere
<1>3. idem \in [Slots -> Entry] /\ OwnsSlot(p)
  BY DEF SlotOwned
<1>4. pc[p] # "idle" => op[p] \in OnboardOp /\ Slot(p)' = Slot(p)
                          /\ (Keyed(p)' <=> Keyed(p))
                          /\ (Keyed(p) <=> op[p].key # None)
  BY <1>2 DEF Shape, Fits, Keyed, Slot
<1>5. pc[p] # "idle" /\ Keyed(p) => Slot(p) \in Slots
  BY <1>4 DEF OnboardOp, Slot, Slots
<1>6. ASSUME idem' \in [Slots -> Entry], lapsed' = lapsed, OwnsSlot(p)',
             \/ burnt' = burnt /\ pc'[p] # "loading tenant"
             \/ burnt' = burnt /\ p \notin burnt
             \/ burnt' = burnt \cup {p} /\ pc'[p] = "handshaking" /\ pc[p] # "idle",
             p \in burnt => pc'[p] # "opening",
             TouchesOwn(p)
      PROVE  SlotOwned'
  <2>1. \A q \in Process : q # p => OwnsSlot(q)'
    BY <1>2, <1>6, SlotElsewhere
  <2>2. ASSUME NEW q \in burnt'
        PROVE  /\ q \in Process /\ op'[q].kind \in OnboardKinds
               /\ pc'[q] \in {"handshaking", "storing", "releasing", "done", "failed"}
    <3>1. CASE q # p
      BY <1>2, <1>6, <2>2, <3>1 DEF SlotOwned
    <3>2. CASE q = p /\ p \in burnt
      <4>1. pc[p] # "idle" /\ pc'[p] \notin {"loading tenant", "opening"}
        BY <1>6, <3>2 DEF SlotOwned
      <4>2. QED
        BY <1>2, <3>2, <4>1 DEF OnboardPlaces, Over
    <3>3. CASE q = p /\ p \notin burnt
      BY <1>2, <1>6, <2>2, <3>3
    <3>4. QED
      BY <3>1, <3>2, <3>3
  <2>3. QED
    BY <1>6, <2>1, <2>2 DEF SlotOwned
<1>7. pc[p] \in {"idle", "opening", "loading tenant"} => p \notin burnt
  BY DEF SlotOwned
<1>8. CASE OnboardRequest(p)
  <2>1. /\ UNCHANGED <<idem, burnt, lapsed>>
        /\ \E request : Begin(p, request, "opening") \/ Begin(p, request, "failed")
    BY <1>8 DEF OnboardRequest
  <2>2. pc[p] = "idle" /\ pc'[p] \in {"opening", "failed"}
    BY <2>1, BeginEffect
  <2>3. OwnsSlot(p)'
    BY <2>2 DEF OwnsSlot, Claiming
  <2>4. QED
    BY <1>3, <1>6, <1>7, <2>1, <2>2, <2>3 DEF TouchesOwn
<1>9. ASSUME NEW place, GoTo(p, place) PROVE pc'[p] = place
  BY <1>9, GoToEffect
<1>10. \A s \in {"in-flight", "committed"} : [status |-> s, by |-> p] \in Entry
  BY DEF Entry
<1>11. NoEntry \in Entry
  BY DEF NoEntry, Entry
<1>12. CASE Open(p)
  <2>1. pc[p] = "opening" /\ UNCHANGED <<burnt, lapsed>> /\ p \notin burnt
    BY <1>7, <1>12 DEF Open
  <2>2. CASE pc'[p] \in Over /\ idem' = idem
    <3>1. OwnsSlot(p)'
      BY <2>1, <2>2 DEF OwnsSlot, Claiming, Over
    <3>2. QED
      BY <1>3, <1>6, <2>1, <2>2, <3>1 DEF Over, TouchesOwn
  <2>3. CASE op[p].key = None /\ pc'[p] = "loading tenant" /\ idem' = idem
    <3>1. OwnsSlot(p)'
      BY <1>4, <2>1, <2>3 DEF OwnsSlot, Claiming
    <3>2. QED
      BY <1>3, <1>6, <2>1, <2>3, <3>1 DEF TouchesOwn
  <2>4. CASE /\ op[p].key # None /\ pc'[p] = "loading tenant"
             /\ idem[Slot(p)].status = "none"
             /\ idem' = [idem EXCEPT ![Slot(p)] = [status |-> "in-flight", by |-> p]]
    <3>1. Keyed(p) /\ Slot(p) \in Slots
      BY <1>4, <1>5, <2>1, <2>4
    <3>2. /\ idem'[Slot(p)] = [status |-> "in-flight", by |-> p]
          /\ idem' \in [Slots -> Entry]
      BY <1>3, <1>10, <2>4, <3>1
    <3>3. OwnsSlot(p)'
      BY <1>4, <2>1, <2>4, <3>2 DEF OwnsSlot, Claiming
    <3>4. QED
      BY <1>6, <1>10, <2>1, <2>4, <3>1, <3>2, <3>3 DEF TouchesOwn, Claiming
  <2>5. QED
    BY <1>9, <1>12, <2>2, <2>3, <2>4 DEF Open, beginIdempotency, Leave, Step, Over
<1>13. CASE getTenant(p)
  <2>1. /\ pc[p] = "loading tenant" /\ UNCHANGED <<idem, lapsed>> /\ p \notin burnt
        /\ \/ pc'[p] = "handshaking" /\ burnt' = burnt \cup {p}
           \/ pc'[p] = "releasing" /\ burnt' = burnt
    BY <1>7, <1>9, <1>13 DEF getTenant, Step
  <2>2. OwnsSlot(p)'
    BY <1>3, <1>4, <2>1 DEF OwnsSlot, Claiming
  <2>3. QED
    BY <1>3, <1>6, <2>1, <2>2 DEF TouchesOwn
<1>14. CASE Persist(p) \/ RunThrows(p)
  <2>1. /\ pc[p] = "handshaking" /\ UNCHANGED <<idem, lapsed, burnt>>
        /\ pc'[p] \in {"storing", "releasing"}
    BY <1>9, <1>14 DEF Persist, RunThrows, Step
  <2>2. OwnsSlot(p)'
    BY <1>3, <1>4, <2>1 DEF OwnsSlot, Claiming
  <2>3. QED
    BY <1>3, <1>6, <2>1, <2>2 DEF TouchesOwn
<1>15. CASE commitIdempotency(p)
  <2>1. pc[p] = "storing" /\ UNCHANGED <<lapsed, burnt>>
    BY <1>15 DEF commitIdempotency
  <2>2. CASE op[p].key = None /\ pc'[p] = "done" /\ idem' = idem
    <3>1. OwnsSlot(p)'
      BY <1>4, <2>1, <2>2 DEF OwnsSlot, Claiming
    <3>2. QED
      BY <1>3, <1>6, <2>1, <2>2, <3>1 DEF TouchesOwn
  <2>3. CASE /\ idem[Slot(p)].status = "none" /\ pc'[p] = "releasing" /\ idem' = idem
    <3>1. OwnsSlot(p)'
      BY <1>3, <1>4, <2>1, <2>3 DEF OwnsSlot, Claiming
    <3>2. QED
      BY <1>3, <1>6, <2>1, <2>3, <3>1 DEF TouchesOwn
  <2>4. CASE /\ op[p].key # None /\ pc'[p] = "done"
             /\ idem' = [idem EXCEPT ![Slot(p)] = [status |-> "committed", by |-> p]]
    <3>1. Keyed(p) /\ Slot(p) \in Slots
      BY <1>4, <1>5, <2>1, <2>4
    <3>2. /\ idem'[Slot(p)] = [status |-> "committed", by |-> p]
          /\ idem' \in [Slots -> Entry]
      BY <1>3, <1>10, <2>4, <3>1
    <3>3. OwnsSlot(p)'
      BY <1>4, <2>1, <2>4, <3>2 DEF OwnsSlot, Claiming
    <3>4. QED
      BY <1>6, <1>10, <2>1, <2>4, <3>1, <3>2, <3>3 DEF TouchesOwn, Claiming
  <2>5. QED
    BY <1>9, <1>15, <2>2, <2>3, <2>4 DEF commitIdempotency, Leave, Step
<1>16. CASE releaseIdempotency(p)
  <2>1. /\ pc[p] = "releasing" /\ UNCHANGED <<lapsed, burnt>> /\ pc'[p] = "failed"
        /\ idem' = IF op[p].key = None THEN idem
                   ELSE [idem EXCEPT ![Slot(p)] = NoEntry]
    BY <1>9, <1>16 DEF releaseIdempotency, Leave, Step
  <2>2. OwnsSlot(p)'
    BY <2>1 DEF OwnsSlot, Claiming
  <2>3. CASE op[p].key = None
    BY <1>3, <1>6, <2>1, <2>2, <2>3 DEF TouchesOwn
  <2>4. CASE op[p].key # None
    <3>1. Keyed(p) /\ idem' \in [Slots -> Entry]
      BY <1>3, <1>4, <1>11, <2>1, <2>4
    <3>2. QED
      BY <1>6, <1>11, <2>1, <2>2, <2>4, <3>1 DEF TouchesOwn, Claiming
  <2>5. QED
    BY <2>3, <2>4
<1>17. QED
  BY <1>8, <1>12, <1>13, <1>14, <1>15, <1>16 DEF OnboardMove, OnboardStep

\* The other routes leave the cap and the slots alone.
LEMMA CapQuiet ==
    ASSUME CapInv, NEW p \in Process, Elsewhere(p),
           pc[p] \notin OnboardPlaces \cup Over, pc'[p] \notin OnboardPlaces,
           UNCHANGED <<count, held, idem, burnt, lapsed>>
    PROVE  CapInv'
<1>1. /\ \A q \in Process \ {p} : pc'[q] = pc[q] /\ op'[q] = op[q]
      /\ deployment' = deployment
  BY DEF Elsewhere
<1>2. HeldExact'
  <2>1. {q \in Process : pc'[q] \in OnboardPlaces} = held
    BY <1>1 DEF CapInv, HeldExact
  <2>2. QED
    BY <1>1, <2>1 DEF CapInv, HeldExact
<1>3. p \notin burnt
  BY DEF CapInv, SlotOwned, OnboardPlaces, Over
<1>4. ASSUME NEW q \in Process PROVE OwnsSlot(q)'
  <2>1. CASE q = p
    BY <1>3, <2>1 DEF OwnsSlot, Claiming, OnboardPlaces
  <2>2. CASE q # p
    <3>1. (Keyed(q)' <=> Keyed(q)) /\ Slot(q)' = Slot(q)
      BY <1>1, <2>2 DEF Keyed, Slot
    <3>2. OwnsSlot(q)
      BY DEF CapInv, SlotOwned
    <3>3. QED
      BY <1>1, <2>2, <3>1, <3>2 DEF OwnsSlot
  <2>3. QED
    BY <2>1, <2>2
<1>5. \A q \in burnt' : q # p
  BY <1>3
<1>6. SlotOwned'
  BY <1>1, <1>4, <1>5 DEF CapInv, SlotOwned
<1>7. QED
  BY <1>2, <1>6 DEF CapInv

\* The end of a window frees its slot.
LEMMA LapseSlots ==
    ASSUME Shape, CapInv, Lapse
    PROVE  CapInv'
<1>1. PICK s \in Slots \ lapsed :
        idem' = [idem EXCEPT ![s] = NoEntry] /\ lapsed' = lapsed \cup {s}
  BY DEF Lapse
<1>2. UNCHANGED <<deployment, op, pc, count, held, burnt>>
  BY DEF Lapse, adminVars
<1>3. idem \in [Slots -> Entry] /\ NoEntry \in Entry
  BY DEF CapInv, SlotOwned, NoEntry, Entry
<1>4. /\ idem' \in [Slots -> Entry]
      /\ \A x \in Slots : x # s => idem'[x] = idem[x]
  BY <1>1, <1>3
<1>5. ASSUME NEW q \in Process PROVE OwnsSlot(q)'
  <2>1. OwnsSlot(q) /\ (Keyed(q)' <=> Keyed(q)) /\ Slot(q)' = Slot(q)
    BY <1>2 DEF CapInv, SlotOwned, Keyed, Slot
  <2>2. Keyed(q) => Slot(q) \in Slots
    BY DEF Shape, Fits, Keyed, OnboardOp, Slot, Slots
  <2>3. QED
    BY <1>1, <1>2, <1>4, <2>1, <2>2 DEF OwnsSlot
<1>6. QED
  BY <1>2, <1>4, <1>5 DEF CapInv, HeldExact, SlotOwned

\* Count and slots are right in every behaviour.
LEMMA CapInvariance == Spec => [](Shape /\ CapInv)
<1>1. Init => Shape /\ CapInv
  <2> SUFFICES ASSUME Init PROVE CapInv
    BY ShapeInit
  <2>1. /\ pc = [p \in Process |-> "idle"] /\ deployment \in Deployments
        /\ op = [p \in Process |-> [kind |-> "none"]]
        /\ count = 0 /\ held = {} /\ burnt = {}
        /\ idem = [s \in Slots |-> NoEntry]
    BY DEF Init, AdminInit, OnboardInit
  <2>2. HeldExact
    <3>1. {p \in Process : pc[p] \in OnboardPlaces} = {}
      BY <2>1 DEF OnboardPlaces
    <3>2. IsFiniteSet({}) /\ Cardinality({}) = 0
      BY FS_EmptySet
    <3>3. deployment.capacity \in Nat
      BY <2>1, CapacityAssumption
    <3>4. QED
      BY <2>1, <3>1, <3>2, <3>3 DEF HeldExact
  <2>3. SlotOwned
    <3>1. NoEntry \in Entry
      BY DEF NoEntry, Entry
    <3>2. \A p \in Process : pc[p] = "idle"
      BY <2>1
    <3>3. QED
      BY <2>1, <3>1, <3>2 DEF SlotOwned, OwnsSlot, Claiming
  <2>4. QED
    BY <2>2, <2>3 DEF CapInv
<1>2. ASSUME Shape, CapInv, [Next]_vars PROVE Shape' /\ CapInv'
  <2>1. Shape'
    BY <1>2, ShapeNext
  <2>2. ASSUME NEW p \in Process, AdminMove(p) PROVE CapInv'
    BY <1>2, <2>2, AdminFrames, CapQuiet
       DEF AdminFrame, AdminPlaces, OnboardPlaces, Over
  <2>3. ASSUME NEW p \in Process, TenantMove(p) PROVE CapInv'
    BY <1>2, <2>3, TenantFrames, CapQuiet
       DEF TenantFrame, TenantPlaces, OnboardPlaces, Over
  <2>4. ASSUME NEW p \in Process, OnboardMove(p) PROVE CapInv'
    BY <1>2, <2>4, HeldNext, SlotNext DEF CapInv
  <2>5. CASE Lapse /\ UNCHANGED <<record, cancelled>>
    BY <1>2, <2>1, <2>5, LapseSlots
  <2>6. CASE UNCHANGED vars
    <3>1. UNCHANGED <<deployment, op, pc, count, held, burnt, idem, lapsed>>
      BY <2>6 DEF vars, adminVars, onboardVars
    <3>2. HeldExact'
      BY <1>2, <3>1 DEF CapInv, HeldExact
    <3>3. \A p \in Process : OwnsSlot(p)'
      BY <1>2, <3>1 DEF CapInv, SlotOwned, OwnsSlot, Keyed, Slot
    <3>4. QED
      BY <1>2, <2>1, <3>1, <3>2, <3>3 DEF CapInv, SlotOwned
  <2>7. QED
    BY <1>2, <2>1, <2>2, <2>3, <2>4, <2>5, <2>6, NextCases
<1>3. QED
  BY <1>1, <1>2, PTL DEF Spec

\* The semaphore counts the running handlers of /onboard and /credentials/rotate
\* exactly, and never exceeds the deployment's capacity.
THEOREM CapHolds == Spec => []CapExact
<1>1. Shape /\ CapInv => CapExact
  <2> SUFFICES ASSUME Shape, CapInv PROVE CapExact
    OBVIOUS
  <2>1. ASSUME NEW p \in Process
        PROVE  Running(p) /\ op[p].kind \in OnboardKinds <=> pc[p] \in OnboardPlaces
    BY DEF Shape, Fits, Running, Ended, Places, AdminPlaces, OnboardPlaces,
       TenantPlaces, Over, AdminKinds, OnboardKinds, TenantKinds
  <2>2. {p \in Process : Running(p) /\ op[p].kind \in OnboardKinds} = held
    BY <2>1 DEF CapInv, HeldExact
  <2>3. QED
    BY <2>2 DEF CapExact, CapInv, HeldExact
<1>2. QED
  BY <1>1, CapInvariance, PTL

\* Two requests with one Idempotency-Key spend an OTP each only if one of them
\* failed or the window of the key has passed.
THEOREM OtpSpentOnce == Spec => []OtpOncePerKey
<1>1. Shape /\ CapInv => OtpOncePerKey
  <2> SUFFICES ASSUME Shape, CapInv, NEW p \in burnt, NEW q \in burnt,
                      p # q, op[p].key # None, Slot(p) = Slot(q),
                      Slot(p) \notin lapsed, pc[p] # "failed", pc[q] # "failed"
               PROVE  FALSE
    BY DEF OtpOncePerKey
  <2>1. op[q].key = op[p].key
    BY DEF Slot
  <2>2. /\ p \in Process /\ q \in Process /\ Keyed(p) /\ Keyed(q)
        /\ pc[p] \in Claiming \cup {"done"} /\ pc[q] \in Claiming \cup {"done"}
    BY <2>1 DEF CapInv, SlotOwned, Keyed, Claiming
  <2>3. /\ \/ idem[Slot(p)] = [status |-> "in-flight", by |-> p]
           \/ idem[Slot(p)] = [status |-> "committed", by |-> p]
        /\ \/ idem[Slot(q)] = [status |-> "in-flight", by |-> q]
           \/ idem[Slot(q)] = [status |-> "committed", by |-> q]
    BY <2>2 DEF CapInv, SlotOwned, OwnsSlot
  <2>4. idem[Slot(p)].by = p /\ idem[Slot(q)].by = q
    BY <2>3
  <2>5. QED
    BY <2>4
<1>2. QED
  BY <1>1, CapInvariance, PTL

-----------------------------------------------------------------------------
(* The API keys. *)

\* What bars a request outlasts the steps of the others.
LEMMA ShutElsewhere ==
    ASSUME NEW p \in Process, Elsewhere(p), NEW q \in Process, q # p, Shut(q)
    PROVE  Shut(q)'
<1>1. /\ pc'[q] = pc[q] /\ op'[q] = op[q]
      /\ db.revoked \subseteq db'.revoked /\ db.deleted \subseteq db'.deleted
  BY DEF Elsewhere, Grows
<1>2. Deleted(op[q].ref) => \E d \in db'.deleted : d[1] = op'[q].ref
  BY <1>1 DEF Deleted
<1>3. QED
  BY <1>1, <1>2 DEF Shut, Deleted

\* A key that is revoked is no candidate, a key of another tenant does not
\* verify, a deleted tenant is not authorised.
LEMMA ShutNext ==
    ASSUME Shape, BarredStays, NEW p \in Process, TenantMove(p), p \in barred'
    PROVE  Shut(p)'
<1>1. TenantFrame(p)
  BY TenantFrames
<1>2. op'[p].kind \in TenantKinds
  BY <1>1 DEF TenantFrame
<1>3. p \in barred => Shut(p)
  BY DEF BarredStays
<1>4. CASE TenantRequest(p)
  <2>1. PICK r \in TenantRequests :
          /\ Begin(p, r, "resolving")
          /\ barred' = IF \/ r.owner # r.ref
                          \/ r.tail \in Revoked
                          \/ \E d \in db.deleted : d[1] = r.ref
                       THEN barred \cup {p} ELSE barred
    BY <1>4 DEF TenantRequest
  <2>2. pc[p] = "idle" /\ pc'[p] = "resolving" /\ op'[p] = r /\ db' = db
    BY <2>1, BeginEffect
  <2>3. p \notin barred
    BY <1>3, <2>2 DEF Shut
  <2>4. \/ r.owner # r.ref
        \/ r.tail \in db.revoked
        \/ \E d \in db.deleted : d[1] = r.ref
    BY <2>1, <2>3 DEF Revoked
  <2>5. QED
    BY <1>2, <2>2, <2>4 DEF Shut, Deleted
<1>5. ASSUME ~TenantRequest(p) PROVE barred' = barred
  BY <1>5 DEF TenantMove, TenantStep, ReadKeys, verify, authTenant, loadInvoice,
     Ask, cancelInvoice, updateInvoiceStatus, auditCancelled, TenantThrows, Move,
     Rest, Answer, Settle
<1>6. ASSUME NEW place, Move(p, place)
      PROVE  pc'[p] = place /\ UNCHANGED <<op, db>>
  BY <1>6, GoToEffect DEF Move, Rest, Stay
<1>7. CASE ReadKeys(p) /\ ~TenantRequest(p)
  <2>1. /\ pc[p] = "resolving" /\ pc'[p] = "hashing" /\ db' = db
        /\ op' = [op EXCEPT ![p].candidates = Candidates(op[p].owner)]
    BY <1>7, GoToEffect DEF ReadKeys, Stay
  <2>2. op[p] \in TenantOp
    BY <1>1, <2>1 DEF TenantFrame
  <2>3. op'[p] = [op[p] EXCEPT !.candidates = Candidates(op[p].owner)]
    BY <2>1 DEF Shape, Total
  <2>4. /\ op'[p].owner = op[p].owner /\ op'[p].ref = op[p].ref
        /\ op'[p].tail = op[p].tail /\ op'[p].candidates = Candidates(op[p].owner)
    BY <2>2, <2>3 DEF TenantOp
  <2>5. op[p].tail \in db.revoked => op[p].tail \notin Candidates(op[p].owner)
    BY DEF Candidates, LiveKeys, Revoked
  <2>6. Shut(p)
    BY <1>3, <1>5, <1>7
  <2>7. QED
    BY <1>2, <2>1, <2>4, <2>5, <2>6 DEF Shut, Deleted
<1>8. CASE verify(p) /\ ~TenantRequest(p)
  <2>1. /\ pc[p] = "hashing" /\ UNCHANGED <<op, db>>
        /\ pc'[p] = IF op[p].tail \in op[p].candidates /\ op[p].owner = op[p].ref
                    THEN "authorising" ELSE "failed"
    BY <1>6, <1>8 DEF verify
  <2>2. Shut(p)
    BY <1>3, <1>5, <1>8
  <2>3. QED
    BY <2>1, <2>2 DEF Shut, Deleted
<1>9. CASE authTenant(p) /\ ~TenantRequest(p)
  <2>1. /\ pc[p] = "authorising" /\ UNCHANGED <<op, db>>
        /\ pc'[p] = IF IsLive(op[p].ref) /\ op[p].ref \in onboarded
                    THEN "loading" ELSE "failed"
    BY <1>6, <1>9 DEF authTenant
  <2>2. Shut(p)
    BY <1>3, <1>5, <1>9
  <2>3. ~IsLive(op[p].ref)
    BY <2>1, <2>2 DEF Shut, IsLive, Deleted
  <2>4. QED
    BY <2>1, <2>2, <2>3 DEF Shut
<1>10. CASE TenantThrows(p) /\ ~TenantRequest(p)
  BY <1>2, <1>6, <1>10 DEF TenantThrows, Shut
<1>11. CASE \/ loadInvoice(p) \/ Ask(p) \/ cancelInvoice(p)
            \/ updateInvoiceStatus(p) \/ auditCancelled(p)
  <2>1. pc[p] \in {"loading", "calling", "marking", "closing"}
    BY <1>11 DEF loadInvoice, Ask, cancelInvoice, updateInvoiceStatus, auditCancelled
  <2>2. ~TenantRequest(p)
    BY <2>1 DEF TenantRequest, Begin
  <2>3. Shut(p)
    BY <1>3, <1>5, <2>2
  <2>4. QED
    BY <2>1, <2>3 DEF Shut
<1>12. QED
  BY <1>4, <1>7, <1>8, <1>9, <1>10, <1>11 DEF TenantMove, TenantStep

\* What bars a request lasts in every behaviour.
LEMMA BarredInvariance == Spec => [](Shape /\ BarredStays)
<1>1. Init => Shape /\ BarredStays
  BY ShapeInit DEF Init, AdminInit, BarredStays
<1>2. ASSUME Shape, BarredStays, [Next]_vars PROVE Shape' /\ BarredStays'
  <2>1. Shape'
    BY <1>2, ShapeNext
  <2>2. ASSUME NEW p \in Process, Elsewhere(p), barred' = barred, p \notin barred
        PROVE  BarredStays'
    BY <1>2, <2>2, ShutElsewhere DEF BarredStays, Shut
  <2>3. ASSUME NEW p \in Process, pc[p] \in {"idle"} \cup AdminPlaces \cup OnboardPlaces
        PROVE  p \notin barred
    BY <1>2, <2>3 DEF BarredStays, Shut, AdminPlaces, OnboardPlaces
  <2>4. ASSUME NEW p \in Process, AdminMove(p) PROVE BarredStays'
    <3>1. Elsewhere(p) /\ barred' = barred /\ pc[p] \in {"idle"} \cup AdminPlaces
      BY <1>2, <2>4, AdminFrames DEF AdminFrame
    <3>2. QED
      BY <2>2, <2>3, <3>1
  <2>5. ASSUME NEW p \in Process, OnboardMove(p) PROVE BarredStays'
    <3>1. Elsewhere(p) /\ barred' = barred /\ pc[p] \in {"idle"} \cup OnboardPlaces
      BY <1>2, <2>5, OnboardFrames DEF OnboardFrame
    <3>2. QED
      BY <2>2, <2>3, <3>1
  <2>6. ASSUME NEW p \in Process, TenantMove(p) PROVE BarredStays'
    <3>1. Elsewhere(p) /\ barred' \subseteq barred \cup {p}
      BY <1>2, <2>6, TenantFrames DEF TenantFrame, Elsewhere
    <3>2. ASSUME NEW q \in barred', q # p PROVE Shut(q)'
      <4>1. q \in barred /\ Shut(q)
        BY <1>2, <3>1, <3>2 DEF BarredStays
      <4>2. q \in Process
        BY <4>1 DEF Shut
      <4>3. QED
        BY <3>1, <3>2, <4>1, <4>2, ShutElsewhere
    <3>3. QED
      BY <1>2, <2>6, <3>2, ShutNext DEF BarredStays
  <2>7. CASE UNCHANGED <<deployment, db, buf, locks, op, pc, overlap, barred, count,
                         held, claimed, burnt, onboarded, record, cancelled>>
    <3>1. BarredStays'
      BY <1>2, <2>7 DEF BarredStays, Shut, Deleted
    <3>2. QED
      BY <2>1, <3>1
  <2>8. QED
    BY <1>2, <2>1, <2>4, <2>5, <2>6, <2>7, NextCases, StillSame
<1>3. QED
  BY <1>1, <1>2, PTL DEF Spec

\* A request that arrives after its key was revoked or its tenant deleted, or with
\* a key of another tenant, is never served.
THEOREM OnlyEntitledServed == Spec => []ServedWasEntitled
<1>1. BarredStays => ServedWasEntitled
  BY DEF BarredStays, Shut, ServedWasEntitled
<1>2. QED
  BY <1>1, BarredInvariance, PTL

-----------------------------------------------------------------------------
(* Cancellations. *)

\* The admin routes write rows of their own kinds only.
LEMMA AdminAudit ==
    ASSUME Shape, NEW p \in Process, AdminMove(p), AdminRows(p)
    PROVE  /\ AdminRows(p)'
           /\ \A r \in db'.audit \ db.audit : r[1] \in AdminKinds
<1>1. ASSUME UNCHANGED <<db, buf>>
      PROVE  AdminRows(p)' /\ \A r \in db'.audit \ db.audit : r[1] \in AdminKinds
  BY <1>1 DEF AdminRows
<1>2. ASSUME NEW w, NEW rows, Write(p, w, rows), \A r \in w.audit : r[1] \in AdminKinds
      PROVE  AdminRows(p)' /\ \A r \in db'.audit \ db.audit : r[1] \in AdminKinds
  <2>1. CASE transactional
    <3>1. buf'[p].audit = buf[p].audit \cup w.audit /\ db' = db
      BY <1>2, <2>1, WriteEffect
    <3>2. QED
      BY <1>2, <3>1 DEF AdminRows
  <2>2. CASE ~transactional
    <3>1. buf' = buf /\ db'.audit = db.audit \cup w.audit
      BY <1>2, <2>2, WriteEffect
    <3>2. QED
      BY <1>2, <3>1 DEF AdminRows
  <2>3. QED
    BY <2>1, <2>2
<1>3. ASSUME Throw(p)
      PROVE  AdminRows(p)' /\ \A r \in db'.audit \ db.audit : r[1] \in AdminKinds
  <2>1. db' = db /\ buf'[p] = Nothing
    BY <1>3, RollbackEffect DEF Throw
  <2>2. Nothing.audit = {}
    BY DEF Nothing
  <2>3. QED
    BY <2>1, <2>2 DEF AdminRows
<1>4. CASE AdminRequest(p)
  <2>1. \E request, place : Begin(p, request, place)
    BY <1>4 DEF AdminRequest
  <2>2. QED
    BY <1>1, <2>1, BeginEffect
<1>5. CASE checkTenant(p)
  BY <1>1, <1>5 DEF checkTenant
<1>6. CASE Commit(p)
  <2>1. buf'[p] = Nothing /\ db'.audit = db.audit \cup buf[p].audit
    BY <1>6, CommitEffect
  <2>2. Nothing.audit = {}
    BY DEF Nothing
  <2>3. QED
    BY <2>1, <2>2 DEF AdminRows
<1>7. CASE auditWrite(p)
  <2> DEFINE row == <<op[p].kind, Target(p), op[p].label, p>>
  <2>1. /\ Write(p, [Nothing EXCEPT !.audit = {row}], {}) /\ op[p].kind \in AdminKinds
    BY <1>7 DEF auditWrite
  <2>2. row[1] \in AdminKinds
    BY <2>1
  <2> HIDE DEF row
  <2>3. \A r \in [Nothing EXCEPT !.audit = {row}].audit : r[1] \in AdminKinds
    BY <2>2 DEF Nothing
  <2>4. QED
    BY <1>2, <2>1, <2>3
<1>8. /\ \A x : [Nothing EXCEPT !.created = x].audit = {}
      /\ \A x : [Nothing EXCEPT !.deleted = x].audit = {}
      /\ \A x : [Nothing EXCEPT !.issued = x].audit = {}
      /\ \A x : [Nothing EXCEPT !.revoked = x].audit = {}
      /\ Nothing.audit = {}
  BY DEF Nothing
<1>9. CASE create(p)
  BY <1>2, <1>3, <1>8, <1>9 DEF create
<1>10. CASE patch(p)
  BY <1>2, <1>3, <1>8, <1>10 DEF patch
<1>11. CASE softDelete(p)
  BY <1>2, <1>3, <1>8, <1>11 DEF softDelete
<1>12. CASE revokeAllForTenant(p)
  BY <1>2, <1>8, <1>12 DEF revokeAllForTenant
<1>13. CASE issue(p)
  BY <1>2, <1>8, <1>13 DEF issue
<1>14. CASE revoke(p)
  BY <1>2, <1>3, <1>8, <1>14 DEF revoke
<1>15. CASE QueryThrows(p)
  BY <1>3, <1>15 DEF QueryThrows
<1>16. QED
  BY <1>4, <1>5, <1>6, <1>7, <1>9, <1>10, <1>11, <1>12, <1>13, <1>14, <1>15
     DEF AdminMove, AdminStep

RecordType == [Refs -> {None, "accepted", "cancelled"}]

\* What a step of p has to leave behind for CancelInv to go on.
LEMMA CancelFrom ==
    ASSUME Shape, CancelInv, NEW p \in Process, Elsewhere(p), pc[p] \notin Over,
           record' \in RecordType,
           \A ref \in Refs : record[ref] = "cancelled" => record'[ref] = "cancelled",
           cancelled \subseteq cancelled',
           CancelAt(p)', AdminRows(p)',
           Sent(p) => /\ Sent(p)' /\ op'[p].ref = op[p].ref
                      /\ op'[p].target = op[p].target
                      /\ op'[p].clearanceStatus = op[p].clearanceStatus,
           \A ref \in Refs : record'[ref] = "cancelled" =>
               \/ record[ref] = "cancelled"
               \/ Sent(p)' /\ op'[p].ref = ref /\ Answered(p)',
           \A r \in db'.audit \ db.audit : r[1] = "cancel" => CancelRow(r)'
    PROVE  CancelInv'
<1>1. /\ \A q \in Process \ {p} : /\ pc'[q] = pc[q] /\ op'[q] = op[q]
                                  /\ buf'[q] = buf[q]
      /\ db.audit \subseteq db'.audit
  BY DEF Elsewhere, Grows
<1>2. ASSUME NEW q \in Process, q # p, Answered(q) PROVE Answered(q)'
  BY <1>1, <1>2 DEF Answered
<1>3. ASSUME NEW q \in Process, q # p PROVE CancelAt(q)' /\ AdminRows(q)'
  <2>1. CancelAt(q) /\ AdminRows(q)
    BY DEF CancelInv
  <2>2. pc'[q] = pc[q] /\ op'[q] = op[q] /\ buf'[q] = buf[q] /\ (Sent(q)' <=> Sent(q))
    BY <1>1, <1>3 DEF Sent
  <2>3. pc[q] = "closing" => op[q].ref \in Refs
    BY DEF Shape, Fits, TenantPlaces, TenantOp
  <2>4. Answered(q) => Answered(q)'
    BY <1>3, <1>2
  <2>5. QED
    BY <1>1, <2>1, <2>2, <2>3, <2>4 DEF CancelAt, AdminRows
<1>4. ASSUME NEW ref \in Refs, CancelledFor(ref) PROVE CancelledFor(ref)'
  <2>1. PICK q \in Process : Sent(q) /\ op[q].ref = ref /\ Answered(q)
    BY <1>4 DEF CancelledFor
  <2>2. Sent(q)' /\ op'[q].ref = ref /\ Answered(q)'
    BY <1>1, <2>1 DEF Sent, Answered
  <2>3. QED
    BY <2>2 DEF CancelledFor
<1>5. ASSUME NEW ref \in Refs, record'[ref] = "cancelled" PROVE CancelledFor(ref)'
  BY <1>4, <1>5 DEF CancelInv, CancelledFor
<1>6. ASSUME NEW r \in db.audit, r[1] = "cancel" PROVE CancelRow(r)'
  <2>1. CancelRow(r)
    BY <1>6 DEF CancelInv
  <2>2. r[4] # p /\ r[4] \in Process
    BY <2>1 DEF CancelRow
  <2>3. /\ pc'[r[4]] = pc[r[4]] /\ op'[r[4]] = op[r[4]] /\ (Sent(r[4])' <=> Sent(r[4]))
    BY <1>1, <2>2 DEF Sent
  <2>4. Answered(r[4]) => Answered(r[4])'
    BY <1>2, <2>2
  <2>5. QED
    BY <2>1, <2>2, <2>3, <2>4 DEF CancelRow
<1>7. QED
  BY <1>3, <1>5, <1>6 DEF CancelInv, RecordType

\* The steps of the tenant routes keep cancellations accounted for.
LEMMA CancelTenant ==
    ASSUME Shape, CancelInv, NEW p \in Process, TenantMove(p)
    PROVE  CancelInv'
<1>1. TenantFrame(p)
  BY TenantFrames
<1>2. /\ Elsewhere(p) /\ pc[p] \in {"idle"} \cup TenantPlaces /\ buf' = buf
      /\ pc[p] \notin Over
      /\ op'[p] \in TenantOp
      /\ pc[p] # "idle" => /\ op[p] \in TenantOp /\ op'[p].kind = op[p].kind
                           /\ op'[p].ref = op[p].ref
  BY <1>1 DEF TenantFrame, TenantPlaces, Over
<1>3. AdminRows(p)' /\ CancelAt(p) /\ record \in RecordType
  BY <1>2 DEF CancelInv, AdminRows, RecordType
<1>4. pc[p] = "idle" => ~Sent(p)
  BY <1>3 DEF CancelAt
<1>5. ASSUME ~Sent(p), ~Sent(p)', pc'[p] \notin {"marking", "closing"},
             UNCHANGED <<record, cancelled, db>>
      PROVE  CancelInv'
  <2>1. CancelAt(p)'
    BY <1>5 DEF CancelAt
  <2>2. QED
    BY <1>2, <1>3, <1>5, <2>1, CancelFrom
<1>6. CASE TenantRequest(p)
  <2>1. PICK r \in TenantRequests : Begin(p, r, "resolving") /\ Same
    BY <1>6 DEF TenantRequest
  <2>2. pc[p] = "idle" /\ pc'[p] = "resolving" /\ op'[p] = r /\ db' = db
    BY <2>1, BeginEffect
  <2>3. ~Sent(p)'
    BY <2>2 DEF Sent, TenantRequests
  <2>4. QED
    BY <1>4, <1>5, <2>1, <2>2, <2>3 DEF Same
<1>7. CASE ReadKeys(p)
  <2>1. /\ pc[p] = "resolving" /\ pc'[p] = "hashing" /\ db' = db
        /\ op' = [op EXCEPT ![p].candidates = Candidates(op[p].owner)]
        /\ UNCHANGED <<record, cancelled>>
    BY <1>7, GoToEffect DEF ReadKeys, Stay, Same
  <2>2. op'[p] = [op[p] EXCEPT !.candidates = Candidates(op[p].owner)]
    BY <2>1 DEF Shape, Total
  <2>3. op'[p].kind = op[p].kind /\ op'[p].reached = op[p].reached
    BY <1>2, <2>1, <2>2 DEF TenantOp
  <2>4. ~Sent(p)
    BY <1>3, <2>1 DEF CancelAt
  <2>5. QED
    BY <1>5, <2>1, <2>3, <2>4 DEF Sent
<1>8. ASSUME NEW place \in TenantPlaces \cup Over, place \notin {"marking", "closing"},
             Move(p, place), Same,
             pc[p] \in {"resolving", "hashing", "authorising", "loading", "calling"}
      PROVE  CancelInv'
  <2>1. pc'[p] = place /\ UNCHANGED <<op, db, record, cancelled>>
    BY <1>8, GoToEffect DEF Move, Rest, Stay, Same
  <2>2. ~Sent(p) /\ ~Sent(p)'
    BY <1>3, <1>8, <2>1 DEF CancelAt, Sent
  <2>3. QED
    BY <1>5, <1>8, <2>1, <2>2
<1>9. CASE cancelInvoice(p)
  <2>1. PICK target \in {op[p].ref, None} :
          \/ /\ cancelled' = cancelled \cup {target}
             /\ Settle(p, target, "CANCELLED", "ok", "marking")
          \/ /\ cancelled' = cancelled
             /\ Settle(p, target, "FAILED", "ok", "marking")
          \/ /\ cancelled' \in {cancelled, cancelled \cup {target}}
             /\ Settle(p, target, "none", "error", "closing")
    BY <1>9 DEF cancelInvoice, Answer
  <2>2. /\ pc[p] = "calling" /\ op[p].kind = "cancel" /\ db' = db /\ record' = record
    BY <1>9 DEF cancelInvoice, Stay
  <2>3. ASSUME NEW status, NEW result, NEW place,
               Settle(p, target, status, result, place)
        PROVE  /\ op'[p].target = target /\ op'[p].clearanceStatus = status
               /\ op'[p].result = result
               /\ op'[p].reached /\ op'[p].kind = "cancel" /\ pc'[p] = place
    <3>1. op'[p] = [op[p] EXCEPT !.target = target, !.clearanceStatus = status,
                                 !.result = result, !.reached = TRUE]
      BY <2>3 DEF Settle, Shape, Total
    <3>2. pc'[p] = place
      BY <2>3, GoToEffect DEF Settle
    <3>3. QED
      BY <1>2, <2>2, <3>1, <3>2 DEF TenantOp
  <2>4. ~Sent(p)
    BY <1>3, <2>2 DEF CancelAt
  <2>5. CancelAt(p)'
    <3>1. CASE pc'[p] = "marking" /\ Answered(p)' /\ Sent(p)'
      BY <3>1 DEF CancelAt, Over
    <3>2. CASE pc'[p] = "closing" /\ op'[p].result = "error" /\ Sent(p)'
      BY <3>2 DEF CancelAt, Over
    <3>3. QED
      BY <2>1, <2>3, <3>1, <3>2 DEF Sent, Answered
  <2>6. cancelled \subseteq cancelled'
    BY <2>1
  <2>7. QED
    BY <1>2, <1>3, <2>2, <2>4, <2>5, <2>6, CancelFrom
<1>10. CASE updateInvoiceStatus(p)
  <2>1. /\ pc[p] = "marking" /\ pc'[p] = "closing" /\ UNCHANGED <<db, cancelled>>
        /\ \/ op' = op /\ record' = [record EXCEPT ![op[p].ref] = "cancelled"]
           \/ op' = [op EXCEPT ![p].result = "error"] /\ record' = record
    BY <1>10, GoToEffect DEF updateInvoiceStatus, Stay
  <2>2. op[p] \in TenantOp /\ Sent(p) /\ Answered(p)
    BY <1>2, <1>3, <2>1 DEF CancelAt
  <2>3. op[p].ref \in Refs
    BY <2>2 DEF TenantOp
  <2>4. CASE op' = op /\ record' = [record EXCEPT ![op[p].ref] = "cancelled"]
    <3>1. /\ record' \in RecordType /\ record'[op[p].ref] = "cancelled"
          /\ \A ref \in Refs : ref # op[p].ref => record'[ref] = record[ref]
      BY <1>3, <2>3, <2>4 DEF RecordType
    <3>2. Sent(p)' /\ Answered(p)'
      BY <2>1, <2>2, <2>4 DEF Sent, Answered
    <3>3. CancelAt(p)'
      BY <2>1, <2>2, <2>4, <3>1, <3>2 DEF CancelAt, Over
    <3>4. QED
      BY <1>2, <1>3, <2>1, <2>2, <2>4, <3>1, <3>2, <3>3, CancelFrom
  <2>5. CASE op' = [op EXCEPT ![p].result = "error"] /\ record' = record
    <3>1. op'[p] = [op[p] EXCEPT !.result = "error"]
      BY <2>5 DEF Shape, Total
    <3>2. /\ op'[p].result = "error" /\ op'[p].target = op[p].target
          /\ op'[p].clearanceStatus = op[p].clearanceStatus
          /\ op'[p].reached = op[p].reached /\ op'[p].kind = op[p].kind
          /\ op'[p].ref = op[p].ref
      BY <2>2, <3>1 DEF TenantOp
    <3>3. Sent(p)'
      BY <2>2, <3>2 DEF Sent
    <3>4. CancelAt(p)'
      BY <2>1, <3>2, <3>3 DEF CancelAt, Over
    <3>5. QED
      BY <1>2, <1>3, <2>1, <2>5, <3>2, <3>3, <3>4, CancelFrom
  <2>6. QED
    BY <2>1, <2>4, <2>5
<1>11. CASE auditCancelled(p)
  <2> DEFINE row == <<"cancel", op[p].ref, op[p].result, p>>
  <2>1. /\ pc[p] = "closing" /\ UNCHANGED <<record, cancelled>>
        /\ \/ /\ db' = Union(db, [Nothing EXCEPT !.audit = {row}])
              /\ op' = op /\ pc'[p] \in Over
           \/ /\ op' = [op EXCEPT ![p].result = "unaudited"]
              /\ db' = db /\ pc'[p] = "failed"
    BY <1>11, GoToEffect DEF auditCancelled, Same, Rest, Over
  <2>2. op[p] \in TenantOp /\ Sent(p)
    BY <1>2, <1>3, <2>1 DEF CancelAt
  <2>3. CASE /\ db' = Union(db, [Nothing EXCEPT !.audit = {row}])
             /\ op' = op /\ pc'[p] \in Over
    <3>1. row[1] = "cancel" /\ row[2] = op[p].ref /\ row[3] = op[p].result /\ row[4] = p
      OBVIOUS
    <3>2. db'.audit = db.audit \cup {row}
      <4>1. row[1] \in {"cancel"}
        BY <3>1
      <4> HIDE DEF row
      <4>2. QED
        BY <2>3, <4>1, AuditEffect
    <3>3. Sent(p)' /\ op[p].ref \in Refs
      BY <2>2, <2>3 DEF Sent, TenantOp
    <3>4. CancelAt(p)'
      BY <2>3, <3>2, <3>3 DEF CancelAt, Over
    <3>5. op[p].result = "ok" =>
            record[op[p].ref] = "cancelled" /\ Answered(p) /\ Answered(p)'
      BY <1>3, <2>1, <2>3 DEF CancelAt, Answered
    <3>6. ASSUME NEW r, r = row PROVE CancelRow(r)'
      <4>1. r[4] = p /\ r[2] = op[p].ref /\ r[3] = op[p].result
        BY <3>1, <3>6
      <4> HIDE DEF row
      <4>2. QED
        BY <2>1, <2>3, <3>3, <3>5, <4>1 DEF CancelRow
    <3>7. \A r \in db'.audit \ db.audit : r[1] = "cancel" => CancelRow(r)'
      <4> HIDE DEF row
      <4>1. QED
        BY <3>2, <3>6
    <3> HIDE DEF row
    <3>8. QED
      BY <1>2, <1>3, <2>1, <2>2, <2>3, <3>3, <3>4, <3>7, CancelFrom
  <2>4. CASE /\ op' = [op EXCEPT ![p].result = "unaudited"]
             /\ db' = db /\ pc'[p] = "failed"
    <3>1. op'[p] = [op[p] EXCEPT !.result = "unaudited"]
      BY <2>4 DEF Shape, Total
    <3>2. /\ op'[p].result = "unaudited" /\ op'[p].target = op[p].target
          /\ op'[p].clearanceStatus = op[p].clearanceStatus
          /\ op'[p].reached = op[p].reached /\ op'[p].kind = op[p].kind
          /\ op'[p].ref = op[p].ref
      BY <2>2, <3>1 DEF TenantOp
    <3>3. Sent(p)'
      BY <2>2, <3>2 DEF Sent
    <3>4. CancelAt(p)'
      BY <2>4, <3>2, <3>3 DEF CancelAt, Over
    <3>5. QED
      BY <1>2, <1>3, <2>1, <2>4, <3>2, <3>3, <3>4, CancelFrom
  <2>5. QED
    BY <2>1, <2>3, <2>4
<1> USE DEF TenantPlaces, Over
<1>12. CASE verify(p)
  BY <1>8, <1>12 DEF verify
<1>13. CASE authTenant(p)
  BY <1>8, <1>13 DEF authTenant
<1>14. CASE loadInvoice(p)
  BY <1>8, <1>14 DEF loadInvoice
<1>15. CASE Ask(p)
  BY <1>8, <1>15 DEF Ask
<1>16. CASE TenantThrows(p)
  BY <1>8, <1>16 DEF TenantThrows
<1>17. QED
  BY <1>6, <1>7, <1>9, <1>10, <1>11, <1>12, <1>13, <1>14, <1>15, <1>16
     DEF TenantMove, TenantStep

\* The other routes send no cancellation.
LEMMA CancelOther ==
    ASSUME Shape, CancelInv, NEW p \in Process, AdminMove(p) \/ OnboardMove(p)
    PROVE  CancelInv'
<1>1. /\ Elsewhere(p) /\ Shape' /\ UNCHANGED <<record, cancelled>>
      /\ pc[p] \in {"idle"} \cup AdminPlaces \cup OnboardPlaces
      /\ pc'[p] \in AdminPlaces \cup OnboardPlaces \cup Over
      /\ op'[p].kind \in AdminKinds \cup OnboardKinds \cup {"none"}
  <2>1. CASE AdminMove(p)
    BY <2>1, AdminFrames DEF AdminFrame
  <2>2. CASE OnboardMove(p)
    BY <2>2, OnboardFrames DEF OnboardFrame
  <2>3. QED
    BY <2>1, <2>2
<1>2. /\ AdminRows(p)'
      /\ \A r \in db'.audit \ db.audit : r[1] \in AdminKinds \cup OnboardKinds
  <2>1. AdminRows(p)
    BY DEF CancelInv
  <2>2. CASE AdminMove(p)
    BY <2>1, <2>2, AdminAudit
  <2>3. CASE OnboardMove(p)
    <3>1. buf' = buf /\ OnlyAudit(OnboardKinds)
      BY <2>3, OnboardFrames DEF OnboardFrame
    <3>2. QED
      BY <2>1, <3>1 DEF AdminRows, OnlyAudit
  <2>4. QED
    BY <2>2, <2>3
<1>3. "cancel" \notin AdminKinds \cup OnboardKinds \cup {"none"}
  BY DEF AdminKinds, OnboardKinds
<1>4. CancelAt(p) /\ record \in RecordType
  BY DEF CancelInv, RecordType
<1>5. pc[p] \notin {"marking", "closing", "done", "failed"}
  BY <1>1 DEF AdminPlaces, OnboardPlaces
<1>6. ~Sent(p) /\ ~Sent(p)'
  BY <1>1, <1>3, <1>4, <1>5 DEF CancelAt, Sent
<1>7. pc'[p] \notin {"marking", "closing"}
  BY <1>1 DEF AdminPlaces, OnboardPlaces, Over
<1>8. CancelAt(p)'
  BY <1>6, <1>7 DEF CancelAt
<1>9. pc[p] \notin Over
  BY <1>5 DEF Over
<1>10. \A r \in db'.audit \ db.audit : r[1] = "cancel" => CancelRow(r)'
  BY <1>2, <1>3
<1>11. QED
  BY <1>1, <1>2, <1>4, <1>6, <1>8, <1>9, <1>10, CancelFrom

\* Nothing is cancelled at first.
LEMMA CancelInit == Init => CancelInv
<1> SUFFICES ASSUME Init PROVE CancelInv
  OBVIOUS
<1>1. \A p \in Process : buf[p] = Nothing /\ pc[p] = "idle" /\ op[p].kind = "none"
  BY DEF Init, AdminInit
<1>2. /\ record = [ref \in Refs |-> IF ref \in db.created THEN "accepted" ELSE None]
  BY DEF Init
<1>3. \A r \in db.audit : r[1] \in {"create", "issueKey"}
  <2>1. PICK ref, tail : db = Founded(ref, tail)
    BY DEF Init, AdminInit
  <2>2. db.audit = {<<"create", ref, None, None>>, <<"issueKey", tail, None, None>>}
    BY <2>1 DEF Founded, Nothing
  <2>3. QED
    BY <2>2
<1>4. ASSUME NEW p \in Process PROVE CancelAt(p) /\ AdminRows(p)
  <2>1. Nothing.audit = {}
    BY DEF Nothing
  <2>2. ~Sent(p)
    BY <1>1 DEF Sent
  <2>3. QED
    BY <1>1, <2>1, <2>2 DEF CancelAt, AdminRows
<1>5. \A r \in db.audit : r[1] # "cancel"
  BY <1>3
<1>6. record \in [Refs -> {None, "accepted", "cancelled"}]
  BY <1>2
<1>7. \A ref \in Refs : record[ref] = "cancelled" => CancelledFor(ref)
  BY <1>2, RecordAssumption
<1>8. QED
  BY <1>4, <1>5, <1>6, <1>7 DEF CancelInv

\* Cancellations are accounted for in every behaviour.
LEMMA CancelInvariance == Spec => [](Shape /\ CancelInv)
<1>1. Init => Shape /\ CancelInv
  BY ShapeInit, CancelInit
<1>2. ASSUME Shape, CancelInv, [Next]_vars PROVE Shape' /\ CancelInv'
  <2>1. Shape'
    BY <1>2, ShapeNext
  <2>2. CASE UNCHANGED <<deployment, db, buf, locks, op, pc, overlap, barred, count,
                         held, claimed, burnt, onboarded, record, cancelled>>
    <3>1. CancelInv'
      BY <1>2, <2>2 DEF CancelInv, CancelAt, AdminRows, CancelledFor, CancelRow,
         Sent, Answered
    <3>2. QED
      BY <2>1, <3>1
  <2>3. CASE \E p \in Process : AdminMove(p) \/ OnboardMove(p) \/ TenantMove(p)
    BY <1>2, <2>1, <2>3, CancelTenant, CancelOther
  <2>4. QED
    BY <1>2, <2>2, <2>3, NextCases, StillSame
<1>3. QED
  BY <1>1, <1>2, PTL DEF Spec

\* An invoice is marked cancelled only after ZATCA has cancelled what the caller
\* named, or has answered FAILED with a 200, which the route takes for success;
\* an "ok" row means such an answer and the mark; and every cancellation that
\* was sent has its row, unless writing it is what failed.
THEOREM CancellationsAccounted == Spec => []CancelAccounted
<1>1. Shape /\ CancelInv => CancelAccounted
  <2> SUFFICES ASSUME Shape, CancelInv PROVE CancelAccounted
    OBVIOUS
  <2>1. ASSUME NEW ref \in Refs, record[ref] = "cancelled"
        PROVE  \E p \in Process : /\ op[p].kind = "cancel" /\ op[p].ref = ref
                                  /\ Answered(p)
    BY <2>1 DEF CancelInv, CancelledFor, Sent
  <2>2. \A r \in db.audit : r[1] = "cancel" /\ r[3] = "ok" =>
          record[r[2]] = "cancelled" /\ Answered(r[4])
    BY DEF CancelInv, CancelRow
  <2>3. ASSUME NEW p \in Process, op[p].kind = "cancel", op[p].reached, ~Running(p)
        PROVE  \/ op[p].result = "unaudited"
               \/ <<"cancel", op[p].ref, op[p].result, p>> \in db.audit
    <3>1. Sent(p) /\ CancelAt(p)
      BY <2>3 DEF Sent, CancelInv
    <3>2. pc[p] \in Over
      BY <2>3, <3>1 DEF CancelAt, Running, Ended, Over
    <3>3. QED
      BY <3>1, <3>2 DEF CancelAt
  <2>4. QED
    BY <2>1, <2>2, <2>3 DEF CancelAccounted
<1>2. QED
  BY <1>1, CancelInvariance, PTL

-----------------------------------------------------------------------------
(* The unit of work. *)

\* The rows of the tables.
Tables ==
    /\ db.created \subseteq Refs
    /\ db.deleted \subseteq Refs \X Process
    /\ db.issued \subseteq Tails \X Refs \X (Process \cup {None})
    /\ db.revoked \subseteq Tails

Row(p) == <<op[p].kind, Target(p), op[p].label, p>>

Wrote(p, kind, places) == op[p].kind = kind /\ pc[p] \in places

Past    == {"auditing", "committing"}
Holding == {"revoking", "auditing", "committing"}

Clean(p) == buf[p] = Nothing /\ locks[p] = {}

\* An open transaction has written what its request asks for and nothing else,
\* and holds the rows it has written.
BufferedAt(p) ==
    /\ ~(transactional /\ pc[p] \in Holding) => Clean(p)
    /\ \A x \in buf[p].created :
         op[p].kind = "create" /\ x = op[p].ref /\ x \in locks[p]
    /\ \A d \in buf[p].deleted :
         /\ op[p].kind = "delete" /\ d = <<op[p].ref, p>>
         /\ op[p].ref \in locks[p]
    /\ \A i \in buf[p].issued :
         /\ op[p].kind = "issueKey" /\ pc[p] \in Past
         /\ i = <<op[p].tail, op[p].ref, p>>
    /\ \A r \in buf[p].audit : pc[p] = "committing" /\ r = Row(p)
    /\ \A k \in buf[p].revoked :
         /\ k \in Tails /\ k \in locks[p]
         /\ \/ op[p].kind = "revokeKey" /\ k = op[p].tail
            \/ /\ op[p].kind = "delete"
               /\ \E i \in db.issued : i[1] = k /\ i[2] = op[p].ref

\* A transaction at its end has its row.
RowAt(p) == transactional /\ pc[p] = "committing" => Row(p) \in buf[p].audit

\* The place of an admin request tells what it has done.
DoneAt(p) ==
    /\ pc[p] \in AdminPlaces =>
         /\ op[p].kind \in {"create", "patch", "delete"} => op[p].tail = None
         /\ op[p].kind = "revokeKey" => op[p].tail \in Tails
    /\ pc[p] = "checking" => op[p].kind = "issueKey"
    /\ pc[p] = "revoking" => op[p].kind = "delete"
    /\ Wrote(p, "issueKey", Past) => op[p].tail \in Tails
    /\ Wrote(p, "create", Past) =>
         IF transactional THEN op[p].ref \in buf[p].created
         ELSE op[p].ref \in db.created
    /\ Wrote(p, "delete", Holding) =>
         IF transactional THEN <<op[p].ref, p>> \in buf[p].deleted
         ELSE <<op[p].ref, p>> \in db.deleted
    /\ Wrote(p, "revokeKey", Past) =>
         IF transactional THEN op[p].tail \in buf[p].revoked
         ELSE op[p].tail \in db.revoked

OwnAt(p) == BufferedAt(p) /\ RowAt(p) /\ DoneAt(p)

\* What a transaction has created, deleted or revoked nobody else has ...
AloneAt(p) ==
    /\ \A x \in buf[p].created : x \notin db.created
    /\ \A d \in buf[p].deleted : d[1] \in db.created /\ ~Deleted(d[1])
    /\ \A k \in buf[p].revoked : k \notin db.revoked

\* ... because no two of them hold one row.
Disjoint == \A p, q \in Process : p # q => locks[p] \cap locks[q] = {}

WorkInv == Tables /\ Disjoint /\ \A p \in Process : OwnAt(p) /\ AloneAt(p)

-----------------------------------------------------------------------------
(* The steps of an admin route, by what they write. *)

\* A statement that adds to the tables c, d, i, r and a.
Statement(p, c, d, i, r, a, rows) ==
    /\ transactional =>
         /\ Free(p, rows) /\ db' = db /\ locks'[p] = locks[p] \cup rows
         /\ buf'[p].created = buf[p].created \cup c
         /\ buf'[p].deleted = buf[p].deleted \cup d
         /\ buf'[p].issued = buf[p].issued \cup i
         /\ buf'[p].revoked = buf[p].revoked \cup r
         /\ buf'[p].audit = buf[p].audit \cup a
    /\ ~transactional =>
         /\ buf' = buf /\ locks' = locks
         /\ db'.created = db.created \cup c
         /\ db'.deleted = db.deleted \cup d
         /\ db'.issued = db.issued \cup i
         /\ db'.revoked = db.revoked \cup r
         /\ db'.audit = db.audit \cup a

Goes(p, kind, from, to) ==
    op[p].kind = kind /\ pc[p] = from /\ pc'[p] = to /\ overlap' = overlap

DidEnter(p) ==
    /\ pc[p] = "idle" /\ UNCHANGED <<db, buf, locks>>
    /\ \/ pc'[p] = "failed"
       \/ /\ pc'[p] = IF op'[p].kind = "issueKey" THEN "checking" ELSE "mutating"
          /\ op'[p].kind \in {"create", "patch", "delete"} => op'[p].tail = None
          /\ op'[p].kind = "revokeKey" => op'[p].tail \in Tails

DidCheck(p) ==
    /\ pc[p] = "checking" /\ UNCHANGED <<db, buf, locks, op, overlap>>
    /\ \/ pc'[p] = "failed"
       \/ pc'[p] = "mutating" /\ ~Deleted(op[p].ref)

DidFail(p) ==
    /\ pc[p] \in AdminPlaces /\ pc'[p] = "failed" /\ UNCHANGED <<db, op, overlap>>
    /\ buf'[p] = Nothing /\ locks'[p] = {}

DidCreate(p) ==
    /\ Goes(p, "create", "mutating", "auditing") /\ op' = op
    /\ op[p].ref \notin db.created
    /\ Statement(p, {op[p].ref}, {}, {}, {}, {}, {op[p].ref})

DidPatch(p) ==
    /\ Goes(p, "patch", "mutating", "auditing") /\ op' = op
    /\ Statement(p, {}, {}, {}, {}, {}, {op[p].ref})

DidDelete(p) ==
    /\ Goes(p, "delete", "mutating", "revoking") /\ op' = op
    /\ op[p].ref \in db.created /\ ~Deleted(op[p].ref)
    /\ Statement(p, {}, {<<op[p].ref, p>>}, {}, {}, {}, {op[p].ref})

DidRevokeAll(p) ==
    /\ pc[p] = "revoking" /\ pc'[p] = "auditing" /\ UNCHANGED <<op, overlap>>
    /\ Statement(p, {}, {}, {}, LiveKeys(op[p].ref), {}, LiveKeys(op[p].ref))

DidIssue(p) ==
    /\ Goes(p, "issueKey", "mutating", "auditing")
    /\ op'[p].kind = "issueKey" /\ op'[p].ref = op[p].ref
    /\ op'[p].tail \in Tails
    /\ Statement(p, {}, {}, {<<op'[p].tail, op[p].ref, p>>}, {}, {}, {op'[p].tail})

DidRevoke(p) ==
    /\ Goes(p, "revokeKey", "mutating", "auditing") /\ op' = op
    /\ op[p].tail \in LiveKeys(op[p].ref)
    /\ Statement(p, {}, {}, {}, {op[p].tail}, {}, {op[p].tail})

DidAudit(p) ==
    /\ op[p].kind \in AdminKinds /\ pc[p] = "auditing" /\ pc'[p] = "committing"
    /\ UNCHANGED <<op, overlap>>
    /\ Statement(p, {}, {}, {}, {}, {Row(p)}, {})

AdminCase(p) ==
    \/ DidEnter(p) \/ DidCheck(p) \/ DidFail(p) \/ DidCreate(p) \/ DidPatch(p)
    \/ DidDelete(p) \/ DidRevokeAll(p) \/ DidIssue(p) \/ DidRevoke(p)
    \/ DidAudit(p) \/ Commit(p)

\* A transaction begins with no writes.
LEMMA NothingEmpty ==
    /\ Nothing.created = {} /\ Nothing.deleted = {} /\ Nothing.issued = {}
    /\ Nothing.revoked = {} /\ Nothing.audit = {}
BY DEF Nothing

\* A write of withUnitOfWork is a statement in the open transaction, or takes
\* effect at once.
LEMMA StatementOf ==
    ASSUME Shape, NEW p \in Process, NEW w, NEW rows, Write(p, w, rows)
    PROVE  Statement(p, w.created, w.deleted, w.issued, w.revoked, w.audit, rows)
BY WriteEffect DEF Statement

\* The steps of the admin routes, one by one.
LEMMA AdminCases ==
    ASSUME Shape, NEW p \in Process, AdminMove(p)
    PROVE  AdminCase(p)
<1>1. ASSUME NEW place, GoTo(p, place) PROVE pc'[p] = place
  BY <1>1, GoToEffect
<1>2. Rest => UNCHANGED <<op, overlap>>
  BY DEF Rest
<1>3. ASSUME Throw(p), pc[p] \in AdminPlaces PROVE DidFail(p)
  <2>1. Rollback(p) /\ GoTo(p, "failed") /\ Rest
    BY <1>3 DEF Throw
  <2>2. QED
    BY <1>1, <1>2, <1>3, <2>1, RollbackEffect DEF DidFail
<1>4. \A ref : IsLive(ref) => ref \in db.created /\ ~Deleted(ref)
  BY DEF IsLive, Deleted
<1>5. CASE AdminRequest(p)
  <2>1. PICK header \in Presented :
          IF verifyHeader(header) = None THEN Begin(p, op[p], "failed")
          ELSE \E request \in AdminRequests(verifyHeader(header)) :
                 Begin(p, request, IF request.kind = "issueKey" THEN "checking"
                                   ELSE "mutating")
    BY <1>5 DEF AdminRequest
  <2>2. CASE Begin(p, op[p], "failed")
    BY <2>2, BeginEffect DEF AdminCase, DidEnter
  <2>3. ASSUME NEW request \in AdminRequests(verifyHeader(header)),
               Begin(p, request, IF request.kind = "issueKey" THEN "checking"
                                 ELSE "mutating")
        PROVE  AdminCase(p)
    <3>1. /\ pc[p] = "idle" /\ op'[p] = request /\ UNCHANGED <<db, buf, locks>>
          /\ pc'[p] = IF request.kind = "issueKey" THEN "checking" ELSE "mutating"
      BY <2>3, BeginEffect
    <3>2. /\ request.kind \in {"create", "patch", "delete"} => request.tail = None
          /\ request.kind = "revokeKey" => request.tail \in Tails
      BY <2>3 DEF AdminRequests
    <3>3. QED
      BY <3>1, <3>2 DEF AdminCase, DidEnter
  <2>4. QED
    BY <2>1, <2>2, <2>3
<1>6. CASE checkTenant(p)
  BY <1>1, <1>2, <1>4, <1>6 DEF checkTenant, AdminCase, DidCheck
<1>7. CASE Commit(p)
  BY <1>7 DEF AdminCase
<1>8. CASE QueryThrows(p)
  BY <1>3, <1>8 DEF QueryThrows, AdminCase, AdminPlaces
<1>9. CASE create(p)
  <2>1. pc[p] = "mutating" /\ op[p].kind = "create"
    BY <1>9 DEF create
  <2>2. CASE Throw(p)
    BY <1>3, <2>1, <2>2 DEF AdminCase, AdminPlaces
  <2>3. CASE /\ op[p].ref \notin db.created
             /\ Write(p, [Nothing EXCEPT !.created = {op[p].ref}], {op[p].ref})
             /\ GoTo(p, "auditing") /\ Rest
    <3>1. PICK w : w = [Nothing EXCEPT !.created = {op[p].ref}]
      OBVIOUS
    <3>2. /\ w.created = {op[p].ref} /\ w.deleted = {} /\ w.issued = {}
          /\ w.revoked = {} /\ w.audit = {}
      BY <3>1 DEF Nothing
    <3>3. Statement(p, w.created, w.deleted, w.issued, w.revoked, w.audit, {op[p].ref})
      BY <2>3, <3>1, StatementOf
    <3>4. QED
      BY <1>1, <1>2, <2>1, <2>3, <3>2, <3>3 DEF AdminCase, DidCreate, Goes
  <2>4. QED
    BY <1>9, <2>2, <2>3 DEF create
<1>10. CASE patch(p)
  <2>1. pc[p] = "mutating" /\ op[p].kind = "patch"
    BY <1>10 DEF patch
  <2>2. CASE Throw(p)
    BY <1>3, <2>1, <2>2 DEF AdminCase, AdminPlaces
  <2>3. CASE Write(p, Nothing, {op[p].ref}) /\ GoTo(p, "auditing") /\ Rest
    <3>1. Statement(p, {}, {}, {}, {}, {}, {op[p].ref})
      BY <2>3, StatementOf, NothingEmpty
    <3>2. QED
      BY <1>1, <1>2, <2>1, <2>3, <3>1 DEF AdminCase, DidPatch, Goes
  <2>4. QED
    BY <1>10, <2>2, <2>3 DEF patch
<1>11. CASE softDelete(p)
  <2>1. pc[p] = "mutating" /\ op[p].kind = "delete"
    BY <1>11 DEF softDelete
  <2>2. CASE Throw(p)
    BY <1>3, <2>1, <2>2 DEF AdminCase, AdminPlaces
  <2>3. CASE /\ IsLive(op[p].ref)
             /\ Write(p, [Nothing EXCEPT !.deleted = {<<op[p].ref, p>>}],
                      {op[p].ref})
             /\ GoTo(p, "revoking") /\ Rest
    <3>1. PICK w : w = [Nothing EXCEPT !.deleted = {<<op[p].ref, p>>}]
      OBVIOUS
    <3>2. /\ w.created = {} /\ w.deleted = {<<op[p].ref, p>>} /\ w.issued = {}
          /\ w.revoked = {} /\ w.audit = {}
      BY <3>1 DEF Nothing
    <3>3. Statement(p, w.created, w.deleted, w.issued, w.revoked, w.audit, {op[p].ref})
      BY <2>3, <3>1, StatementOf
    <3>4. QED
      BY <1>1, <1>2, <1>4, <2>1, <2>3, <3>2, <3>3 DEF AdminCase, DidDelete, Goes
  <2>4. QED
    BY <1>11, <2>2, <2>3 DEF softDelete
<1>12. CASE revokeAllForTenant(p)
  <2>1. /\ pc[p] = "revoking" /\ GoTo(p, "auditing") /\ Rest
        /\ Write(p, [Nothing EXCEPT !.revoked = LiveKeys(op[p].ref)],
                 LiveKeys(op[p].ref))
    BY <1>12 DEF revokeAllForTenant
  <2>2. PICK w : w = [Nothing EXCEPT !.revoked = LiveKeys(op[p].ref)]
    OBVIOUS
  <2>3. /\ w.created = {} /\ w.deleted = {} /\ w.issued = {}
        /\ w.revoked = LiveKeys(op[p].ref) /\ w.audit = {}
    BY <2>2 DEF Nothing
  <2>4. Statement(p, w.created, w.deleted, w.issued, w.revoked, w.audit,
                  LiveKeys(op[p].ref))
    BY <2>1, <2>2, StatementOf
  <2>5. QED
    BY <1>1, <1>2, <2>1, <2>3, <2>4 DEF AdminCase, DidRevokeAll
<1>13. CASE issue(p)
  <2>1. PICK k \in Fresh :
          /\ Write(p, [Nothing EXCEPT !.issued = {<<k, op[p].ref, p>>}], {k})
          /\ op' = [op EXCEPT ![p].tail = k]
    BY <1>13 DEF issue
  <2>2. /\ pc[p] = "mutating" /\ op[p].kind = "issueKey" /\ pc'[p] = "auditing"
        /\ overlap' = overlap
    BY <1>1, <1>13 DEF issue
  <2>3. op[p] \in AdminOp /\ k \in Tails
    BY <2>2 DEF Shape, Fits, AdminKinds, Fresh
  <2>4. op'[p] = [op[p] EXCEPT !.tail = k]
    BY <2>1 DEF Shape, Total
  <2>5. op'[p].tail = k /\ op'[p].kind = op[p].kind /\ op'[p].ref = op[p].ref
    BY <2>3, <2>4 DEF AdminOp
  <2>6. PICK w : w = [Nothing EXCEPT !.issued = {<<k, op[p].ref, p>>}]
    OBVIOUS
  <2>7. /\ w.created = {} /\ w.deleted = {} /\ w.issued = {<<k, op[p].ref, p>>}
        /\ w.revoked = {} /\ w.audit = {}
    BY <2>6 DEF Nothing
  <2>8. Statement(p, w.created, w.deleted, w.issued, w.revoked, w.audit, {k})
    BY <2>1, <2>6, StatementOf
  <2>9. QED
    BY <2>2, <2>3, <2>5, <2>7, <2>8 DEF AdminCase, DidIssue, Goes
<1>14. CASE revoke(p)
  <2>1. pc[p] = "mutating" /\ op[p].kind = "revokeKey"
    BY <1>14 DEF revoke
  <2>2. CASE Throw(p)
    BY <1>3, <2>1, <2>2 DEF AdminCase, AdminPlaces
  <2>3. CASE /\ op[p].tail \in LiveKeys(op[p].ref)
             /\ Write(p, [Nothing EXCEPT !.revoked = {op[p].tail}], {op[p].tail})
             /\ GoTo(p, "auditing") /\ Rest
    <3>1. PICK w : w = [Nothing EXCEPT !.revoked = {op[p].tail}]
      OBVIOUS
    <3>2. /\ w.created = {} /\ w.deleted = {} /\ w.issued = {}
          /\ w.revoked = {op[p].tail} /\ w.audit = {}
      BY <3>1 DEF Nothing
    <3>3. Statement(p, w.created, w.deleted, w.issued, w.revoked, w.audit, {op[p].tail})
      BY <2>3, <3>1, StatementOf
    <3>4. QED
      BY <1>1, <1>2, <2>1, <2>3, <3>2, <3>3 DEF AdminCase, DidRevoke, Goes
  <2>4. QED
    BY <1>14, <2>2, <2>3 DEF revoke
<1>15. CASE auditWrite(p)
  <2>1. /\ pc[p] = "auditing" /\ op[p].kind \in AdminKinds
        /\ Write(p, [Nothing EXCEPT !.audit = {Row(p)}], {})
        /\ GoTo(p, "committing") /\ Rest
    BY <1>15 DEF auditWrite, Row
  <2>2. PICK w : w = [Nothing EXCEPT !.audit = {Row(p)}]
    OBVIOUS
  <2>3. /\ w.created = {} /\ w.deleted = {} /\ w.issued = {}
        /\ w.revoked = {} /\ w.audit = {Row(p)}
    BY <2>2 DEF Nothing
  <2>4. Statement(p, w.created, w.deleted, w.issued, w.revoked, w.audit, {})
    BY <2>1, <2>2, StatementOf
  <2>5. QED
    BY <1>1, <1>2, <2>1, <2>3, <2>4 DEF AdminCase, DidAudit
<1>16. QED
  BY <1>5, <1>6, <1>7, <1>8, <1>9, <1>10, <1>11, <1>12, <1>13, <1>14, <1>15
     DEF AdminMove, AdminStep

-----------------------------------------------------------------------------
(* The unit of work is what it seems. *)

\* What is known of a request is kept by the steps of others.
LEMMA OwnElsewhere ==
    ASSUME NEW p, NEW q \in Process, q # p, Elsewhere(p), OwnAt(q)
    PROVE  OwnAt(q)'
<1>1. /\ pc'[q] = pc[q] /\ op'[q] = op[q] /\ buf'[q] = buf[q] /\ locks'[q] = locks[q]
      /\ deployment' = deployment
      /\ db.created \subseteq db'.created /\ db.deleted \subseteq db'.deleted
      /\ db.issued \subseteq db'.issued /\ db.revoked \subseteq db'.revoked
  BY DEF Elsewhere, Grows
<1>2. (transactional' <=> transactional) /\ Row(q)' = Row(q)
  BY <1>1 DEF transactional, Row, Target
<1>3. BufferedAt(q)'
  <2>1. BufferedAt(q)
    BY DEF OwnAt
  <2>2. QED
    BY <1>1, <1>2, <2>1 DEF BufferedAt, Clean
<1>4. RowAt(q)'
  BY <1>1, <1>2 DEF OwnAt, RowAt
<1>5. DoneAt(q)'
  <2>1. DoneAt(q)
    BY DEF OwnAt
  <2>2. QED
    BY <1>1, <1>2, <2>1 DEF DoneAt, Wrote
<1>6. QED
  BY <1>3, <1>4, <1>5 DEF OwnAt

\* A request that is not at work on the tables has no writes.
LEMMA OwnOutside ==
    ASSUME NEW p \in Process, pc'[p] \notin AdminPlaces, buf'[p] = Nothing,
           locks'[p] = {}
    PROVE  OwnAt(p)' /\ AloneAt(p)'
<1>1. /\ pc'[p] \notin Holding /\ pc'[p] \notin Past /\ pc'[p] # "checking"
      /\ pc'[p] # "revoking" /\ pc'[p] # "committing"
  BY DEF Holding, Past, AdminPlaces
<1>2. /\ buf'[p].created = {} /\ buf'[p].deleted = {} /\ buf'[p].issued = {}
      /\ buf'[p].revoked = {} /\ buf'[p].audit = {} /\ Clean(p)'
  BY NothingEmpty DEF Clean
<1>3. QED
  BY <1>1, <1>2 DEF OwnAt, AloneAt, BufferedAt, RowAt, DoneAt, Wrote

\* Nobody but p notices a step that leaves the tables alone.
LEMMA WorkQuiet ==
    ASSUME Shape, WorkInv, NEW p \in Process, Elsewhere(p),
           UNCHANGED <<db.created, db.deleted, db.issued, db.revoked>>,
           locks'[p] \subseteq locks[p], OwnAt(p)', AloneAt(p)'
    PROVE  WorkInv'
<1>1. /\ \A q \in Process \ {p} : buf'[q] = buf[q] /\ locks'[q] = locks[q]
  BY DEF Elsewhere
<1>2. ASSUME NEW q \in Process, q # p PROVE OwnAt(q)' /\ AloneAt(q)'
  <2>1. OwnAt(q) /\ AloneAt(q)
    BY DEF WorkInv
  <2>2. OwnAt(q)'
    BY <1>2, <2>1, OwnElsewhere
  <2>3. buf'[q] = buf[q]
    BY <1>1, <1>2
  <2>4. AloneAt(q)'
    BY <2>1, <2>3 DEF AloneAt, Deleted
  <2>5. QED
    BY <2>2, <2>4
<1>3. Disjoint'
  BY <1>1 DEF WorkInv, Disjoint
<1>4. Tables'
  BY DEF WorkInv, Tables
<1>5. QED
  BY <1>2, <1>3, <1>4 DEF WorkInv

\* A statement keeps to its own transaction, or everything is visible at once.
LEMMA WorkStatement ==
    ASSUME Shape, WorkInv, NEW p \in Process, Elsewhere(p),
           NEW c \in SUBSET Refs, NEW d \in SUBSET (Refs \X Process),
           NEW i \in SUBSET (Tails \X Refs \X (Process \cup {None})),
           NEW r \in SUBSET Tails, NEW a, NEW rows,
           Statement(p, c, d, i, r, a, rows), OwnAt(p)', AloneAt(p)'
    PROVE  WorkInv'
<1>1. /\ \A q \in Process \ {p} : buf'[q] = buf[q] /\ locks'[q] = locks[q]
      /\ deployment' = deployment
  BY DEF Elsewhere
<1>2. ASSUME NEW q \in Process, q # p PROVE OwnAt(q)' /\ AloneAt(q)'
  <2>1. OwnAt(q) /\ AloneAt(q)
    BY DEF WorkInv
  <2>2. OwnAt(q)'
    BY <1>2, <2>1, OwnElsewhere
  <2>3. buf'[q] = buf[q]
    BY <1>1, <1>2
  <2>4. CASE transactional
    <3>1. db' = db
      BY <2>4 DEF Statement
    <3>2. AloneAt(q)'
      BY <2>1, <2>3, <3>1 DEF AloneAt, Deleted
    <3>3. QED
      BY <2>2, <3>2
  <2>5. CASE ~transactional
    <3>1. buf'[q] = Nothing
      BY <2>1, <2>3, <2>5 DEF OwnAt, BufferedAt, Clean
    <3>2. AloneAt(q)'
      BY <3>1, NothingEmpty DEF AloneAt
    <3>3. QED
      BY <2>2, <3>2
  <2>6. QED
    BY <2>4, <2>5
<1>3. Disjoint'
  <2>1. CASE transactional
    <3>1. locks'[p] = locks[p] \cup rows /\ \A q \in Process \ {p} : locks[q] \cap rows = {}
      BY <2>1 DEF Statement, Free
    <3>2. \A q \in Process \ {p} : locks'[q] \cap locks'[p] = {} /\ locks'[p] \cap locks'[q] = {}
      BY <1>1, <3>1 DEF WorkInv, Disjoint
    <3>3. QED
      BY <1>1, <3>2 DEF WorkInv, Disjoint
  <2>2. CASE ~transactional
    BY <2>2 DEF Statement, WorkInv, Disjoint
  <2>3. QED
    BY <2>1, <2>2
<1>4. Tables'
  BY DEF WorkInv, Tables, Statement
<1>5. QED
  BY <1>2, <1>3, <1>4 DEF WorkInv

\* COMMIT publishes what nobody else can have written and gives the rows back.
LEMMA WorkCommit ==
    ASSUME Shape, WorkInv, NEW p \in Process, Elsewhere(p), Commit(p)
    PROVE  WorkInv'
<1>1. /\ pc[p] = "committing" /\ pc'[p] \in Over
      /\ buf'[p] = Nothing /\ locks'[p] = {}
      /\ \A q \in Process \ {p} : buf'[q] = buf[q] /\ locks'[q] = locks[q]
      /\ db'.created = db.created \cup buf[p].created
      /\ db'.deleted = db.deleted \cup buf[p].deleted
      /\ db'.issued = db.issued \cup buf[p].issued
      /\ db'.revoked = db.revoked \cup buf[p].revoked
  BY CommitEffect
<1>2. OwnAt(p)' /\ AloneAt(p)'
  <2>1. pc'[p] \notin AdminPlaces
    BY <1>1 DEF AdminPlaces, Over
  <2>2. QED
    BY <1>1, <2>1, OwnOutside
<1>3. BufferedAt(p) /\ DoneAt(p)
  BY DEF WorkInv, OwnAt
<1>4. op[p].kind \in AdminKinds /\ op[p] \in AdminOp
  BY <1>1 DEF Shape, Fits, AdminPlaces
<1>5. op[p].ref \in Refs
  BY <1>4 DEF AdminOp
<1>6. Tables'
  <2>1. buf[p].created \subseteq Refs /\ buf[p].revoked \subseteq Tails
    BY <1>3, <1>5 DEF BufferedAt
  <2>2. buf[p].deleted \subseteq Refs \X Process
    BY <1>3, <1>5 DEF BufferedAt
  <2>3. buf[p].issued \subseteq Tails \X Refs \X (Process \cup {None})
    <3>1. ASSUME NEW i \in buf[p].issued
          PROVE  i \in Tails \X Refs \X (Process \cup {None})
      <4>1. op[p].kind = "issueKey" /\ i = <<op[p].tail, op[p].ref, p>>
        BY <1>3 DEF BufferedAt
      <4>2. op[p].tail \in Tails
        BY <1>1, <1>3, <4>1 DEF DoneAt, Wrote, Past
      <4>3. QED
        BY <1>5, <4>1, <4>2
    <3>2. QED
      BY <3>1
  <2>4. QED
    BY <1>1, <2>1, <2>2, <2>3 DEF WorkInv, Tables
<1>7. Disjoint'
  BY <1>1 DEF WorkInv, Disjoint
<1>8. ASSUME NEW q \in Process, q # p PROVE OwnAt(q)' /\ AloneAt(q)'
  <2>1. OwnAt(q) /\ AloneAt(q) /\ BufferedAt(q) /\ locks[p] \cap locks[q] = {}
    BY <1>8 DEF WorkInv, Disjoint, OwnAt
  <2>2. OwnAt(q)'
    BY <1>8, <2>1, OwnElsewhere
  <2>3. buf'[q] = buf[q]
    BY <1>1, <1>8
  <2>4. ASSUME NEW x \in buf[q].created PROVE x \notin db'.created
    <3>1. x \notin db.created /\ x \in locks[q]
      BY <2>1 DEF AloneAt, BufferedAt
    <3>2. x \notin buf[p].created
      BY <1>3, <2>1, <3>1 DEF BufferedAt
    <3>3. QED
      BY <1>1, <3>1, <3>2
  <2>5. ASSUME NEW k \in buf[q].revoked PROVE k \notin db'.revoked
    <3>1. k \notin db.revoked /\ k \in locks[q]
      BY <2>1 DEF AloneAt, BufferedAt
    <3>2. k \notin buf[p].revoked
      BY <1>3, <2>1, <3>1 DEF BufferedAt
    <3>3. QED
      BY <1>1, <3>1, <3>2
  <2>6. ASSUME NEW d \in buf[q].deleted PROVE d[1] \in db'.created /\ ~Deleted(d[1])'
    <3>1. d[1] \in db.created /\ ~Deleted(d[1])
      BY <2>1 DEF AloneAt
    <3>2. d[1] = op[q].ref /\ op[q].ref \in locks[q]
      BY <2>1 DEF BufferedAt
    <3>3. ASSUME NEW e \in buf[p].deleted PROVE e[1] # d[1]
      <4>1. e[1] = op[p].ref /\ op[p].ref \in locks[p]
        BY <1>3 DEF BufferedAt
      <4>2. QED
        BY <2>1, <3>2, <4>1
    <3>4. QED
      BY <1>1, <3>1, <3>3 DEF Deleted
  <2>7. AloneAt(q)'
    BY <2>3, <2>4, <2>5, <2>6 DEF AloneAt
  <2>8. QED
    BY <2>2, <2>7
<1>9. QED
  BY <1>2, <1>6, <1>7, <1>8 DEF WorkInv

\* Before its first statement a request has no writes.
LEMMA CleanBefore ==
    ASSUME WorkInv, NEW p \in Process, pc[p] \notin Holding
    PROVE  /\ buf[p] = Nothing /\ locks[p] = {}
           /\ buf[p].created = {} /\ buf[p].deleted = {} /\ buf[p].issued = {}
           /\ buf[p].revoked = {} /\ buf[p].audit = {}
BY NothingEmpty DEF WorkInv, OwnAt, BufferedAt, Clean

\* Without a transaction there is nothing to hold back.
LEMMA OwnAtOnce ==
    ASSUME WorkInv, NEW p \in Process, ~transactional, deployment' = deployment,
           buf' = buf, locks' = locks, DoneAt(p)'
    PROVE  OwnAt(p)' /\ AloneAt(p)'
<1>1. buf[p] = Nothing /\ locks[p] = {} /\ ~transactional'
  BY DEF WorkInv, OwnAt, BufferedAt, Clean, transactional
<1>2. /\ buf'[p].created = {} /\ buf'[p].deleted = {} /\ buf'[p].issued = {}
      /\ buf'[p].revoked = {} /\ buf'[p].audit = {} /\ Clean(p)'
  BY <1>1, NothingEmpty DEF Clean
<1>3. QED
  BY <1>1, <1>2 DEF OwnAt, AloneAt, BufferedAt, RowAt

\* The steps of the admin routes keep the units of work apart.
LEMMA WorkAdmin ==
    ASSUME Shape, WorkInv, NEW p \in Process, AdminMove(p)
    PROVE  WorkInv'
<1>1. /\ Elsewhere(p) /\ Shape' /\ pc'[p] \in AdminPlaces \cup Over
  BY AdminFrames DEF AdminFrame
<1>2. deployment' = deployment /\ (transactional' <=> transactional)
  BY <1>1 DEF Elsewhere, transactional
<1>3. OwnAt(p) /\ BufferedAt(p) /\ DoneAt(p) /\ AloneAt(p)
  BY DEF WorkInv, OwnAt
<1>4. pc[p] \in AdminPlaces => op[p].ref \in Refs /\ op[p].kind \in AdminKinds
  BY DEF Shape, Fits, AdminOp
<1> USE DEF Goes
<1>5. CASE DidFail(p)
  <2>1. buf'[p] = Nothing /\ locks'[p] = {} /\ pc'[p] \notin AdminPlaces /\ db' = db
    BY <1>5 DEF DidFail, AdminPlaces
  <2>2. OwnAt(p)' /\ AloneAt(p)'
    BY <2>1, OwnOutside
  <2>3. QED
    BY <1>1, <2>1, <2>2, WorkQuiet
<1>6. CASE DidEnter(p) \/ DidCheck(p)
  <2>1. /\ UNCHANGED <<db, buf, locks>> /\ pc[p] \notin Holding
        /\ pc'[p] \in {"checking", "mutating", "failed"}
    BY <1>6 DEF DidEnter, DidCheck, Holding
  <2>2. /\ buf'[p] = Nothing /\ locks'[p] = {}
        /\ buf'[p].created = {} /\ buf'[p].deleted = {} /\ buf'[p].issued = {}
        /\ buf'[p].revoked = {} /\ buf'[p].audit = {}
    BY <2>1, CleanBefore
  <2>3. CASE pc'[p] = "failed"
    <3>1. pc'[p] \notin AdminPlaces
      BY <2>3 DEF AdminPlaces
    <3>2. OwnAt(p)' /\ AloneAt(p)'
      BY <2>2, <3>1, OwnOutside
    <3>3. QED
      BY <1>1, <2>1, <3>2, WorkQuiet
  <2>4. CASE pc'[p] \in {"checking", "mutating"}
    <3>1. /\ pc'[p] = "checking" => op'[p].kind = "issueKey"
          /\ op'[p].kind \in {"create", "patch", "delete"} => op'[p].tail = None
          /\ op'[p].kind = "revokeKey" => op'[p].tail \in Tails
      <4>1. CASE DidEnter(p)
        BY <2>4, <4>1 DEF DidEnter
      <4>2. CASE DidCheck(p)
        BY <1>3, <2>4, <4>2 DEF DidCheck, DoneAt, AdminPlaces
      <4>3. QED
        BY <1>6, <4>1, <4>2
    <3>2. DoneAt(p)'
      BY <2>4, <3>1 DEF DoneAt, Wrote, Past, Holding
    <3>3. BufferedAt(p)' /\ RowAt(p)' /\ AloneAt(p)'
      BY <2>2, <2>4 DEF BufferedAt, RowAt, AloneAt, Clean
    <3>4. OwnAt(p)'
      BY <3>2, <3>3 DEF OwnAt
    <3>5. QED
      BY <1>1, <2>1, <3>3, <3>4, WorkQuiet
  <2>5. QED
    BY <2>1, <2>3, <2>4
<1>7. CASE Commit(p)
  BY <1>1, <1>7, WorkCommit
<1>8. CASE DidCreate(p)
  <2>1. /\ op[p].kind = "create" /\ pc[p] = "mutating" /\ pc'[p] = "auditing"
        /\ op' = op /\ op[p].ref \notin db.created /\ op[p].tail = None
        /\ Statement(p, {op[p].ref}, {}, {}, {}, {}, {op[p].ref})
    BY <1>3, <1>8 DEF DidCreate, DoneAt, AdminPlaces
  <2>2. /\ buf[p].created = {} /\ buf[p].deleted = {} /\ buf[p].issued = {}
        /\ buf[p].revoked = {} /\ buf[p].audit = {} /\ locks[p] = {}
    BY <2>1, CleanBefore DEF Holding
  <2>3. DoneAt(p)'
    BY <1>2, <2>1 DEF DoneAt, Wrote, Statement
  <2>4. OwnAt(p)' /\ AloneAt(p)'
    <3>1. CASE transactional
      <4>1. /\ buf'[p].created = {op[p].ref} /\ buf'[p].deleted = {}
            /\ buf'[p].issued = {} /\ buf'[p].revoked = {} /\ buf'[p].audit = {}
            /\ locks'[p] = {op[p].ref} /\ db' = db
        BY <2>1, <2>2, <3>1 DEF Statement
      <4>2. BufferedAt(p)' /\ RowAt(p)' /\ AloneAt(p)'
        BY <1>2, <2>1, <3>1, <4>1 DEF BufferedAt, RowAt, AloneAt, Holding
      <4>3. QED
        BY <2>3, <4>2 DEF OwnAt
    <3>2. CASE ~transactional
      BY <1>2, <2>1, <2>3, <3>2, OwnAtOnce DEF Statement
    <3>3. QED
      BY <3>1, <3>2
  <2>5. {op[p].ref} \in SUBSET Refs
    BY <1>4, <2>1 DEF AdminPlaces
  <2>6. QED
    BY <1>1, <2>1, <2>4, <2>5, WorkStatement
<1>9. CASE DidPatch(p)
  <2>1. /\ op[p].kind = "patch" /\ pc[p] = "mutating" /\ pc'[p] = "auditing"
        /\ op' = op /\ op[p].tail = None
        /\ Statement(p, {}, {}, {}, {}, {}, {op[p].ref})
    BY <1>3, <1>9 DEF DidPatch, DoneAt, AdminPlaces
  <2>2. /\ buf[p].created = {} /\ buf[p].deleted = {} /\ buf[p].issued = {}
        /\ buf[p].revoked = {} /\ buf[p].audit = {} /\ locks[p] = {}
    BY <2>1, CleanBefore DEF Holding
  <2>3. DoneAt(p)'
    BY <1>2, <2>1 DEF DoneAt, Wrote
  <2>4. OwnAt(p)' /\ AloneAt(p)'
    <3>1. CASE transactional
      <4>1. /\ buf'[p].created = {} /\ buf'[p].deleted = {}
            /\ buf'[p].issued = {} /\ buf'[p].revoked = {} /\ buf'[p].audit = {}
        BY <2>1, <2>2, <3>1 DEF Statement
      <4>2. BufferedAt(p)' /\ RowAt(p)' /\ AloneAt(p)'
        BY <1>2, <2>1, <3>1, <4>1 DEF BufferedAt, RowAt, AloneAt, Holding
      <4>3. QED
        BY <2>3, <4>2 DEF OwnAt
    <3>2. CASE ~transactional
      BY <1>2, <2>1, <2>3, <3>2, OwnAtOnce DEF Statement
    <3>3. QED
      BY <3>1, <3>2
  <2>5. QED
    BY <1>1, <2>1, <2>4, WorkStatement
<1>10. CASE DidDelete(p)
  <2>1. /\ op[p].kind = "delete" /\ pc[p] = "mutating" /\ pc'[p] = "revoking"
        /\ op' = op /\ op[p].ref \in db.created /\ ~Deleted(op[p].ref)
        /\ op[p].tail = None
        /\ Statement(p, {}, {<<op[p].ref, p>>}, {}, {}, {}, {op[p].ref})
    BY <1>3, <1>10 DEF DidDelete, DoneAt, AdminPlaces
  <2>2. /\ buf[p].created = {} /\ buf[p].deleted = {} /\ buf[p].issued = {}
        /\ buf[p].revoked = {} /\ buf[p].audit = {} /\ locks[p] = {}
    BY <2>1, CleanBefore DEF Holding
  <2>3. DoneAt(p)'
    BY <1>2, <2>1 DEF DoneAt, Wrote, Statement, Past
  <2>4. OwnAt(p)' /\ AloneAt(p)'
    <3>1. CASE transactional
      <4>1. /\ buf'[p].created = {} /\ buf'[p].deleted = {<<op[p].ref, p>>}
            /\ buf'[p].issued = {} /\ buf'[p].revoked = {} /\ buf'[p].audit = {}
            /\ locks'[p] = {op[p].ref} /\ db' = db
        BY <2>1, <2>2, <3>1 DEF Statement
      <4>2. BufferedAt(p)' /\ RowAt(p)'
        BY <1>2, <2>1, <3>1, <4>1 DEF BufferedAt, RowAt, Holding
      <4>3. \A d \in buf'[p].deleted : d[1] = op[p].ref
        BY <4>1
      <4>4. AloneAt(p)'
        BY <2>1, <4>1, <4>3 DEF AloneAt, Deleted
      <4>5. QED
        BY <2>3, <4>2, <4>4 DEF OwnAt
    <3>2. CASE ~transactional
      BY <1>2, <2>1, <2>3, <3>2, OwnAtOnce DEF Statement
    <3>3. QED
      BY <3>1, <3>2
  <2>5. {<<op[p].ref, p>>} \in SUBSET (Refs \X Process)
    BY <1>4, <2>1 DEF AdminPlaces
  <2>6. QED
    BY <1>1, <2>1, <2>4, <2>5, WorkStatement
<1>11. CASE DidRevokeAll(p)
  <2> DEFINE live == LiveKeys(op[p].ref)
  <2>1. /\ pc[p] = "revoking" /\ pc'[p] = "auditing" /\ op' = op
        /\ op[p].kind = "delete" /\ op[p].tail = None
        /\ Statement(p, {}, {}, {}, live, {}, live)
    BY <1>3, <1>11 DEF DidRevokeAll, DoneAt, AdminPlaces
  <2>2. /\ live \in SUBSET Tails /\ \A k \in live : k \notin db.revoked
        /\ \A k \in live : \E i \in db.issued : i[1] = k /\ i[2] = op[p].ref
    BY DEF LiveKeys, Issued, Revoked
  <2> HIDE DEF live
  <2>3. IF transactional THEN <<op[p].ref, p>> \in buf[p].deleted
        ELSE <<op[p].ref, p>> \in db.deleted
    BY <1>3, <2>1 DEF DoneAt, Wrote, Holding
  <2>4. DoneAt(p)'
    BY <1>2, <2>1, <2>3 DEF DoneAt, Wrote, Statement
  <2>5. OwnAt(p)' /\ AloneAt(p)'
    <3>1. CASE transactional
      <4>1. /\ buf'[p].created = buf[p].created /\ buf'[p].deleted = buf[p].deleted
            /\ buf'[p].issued = buf[p].issued /\ buf'[p].audit = buf[p].audit
            /\ buf'[p].revoked = buf[p].revoked \cup live
            /\ locks'[p] = locks[p] \cup live /\ db' = db
        BY <2>1, <3>1 DEF Statement
      <4>2. buf[p].audit = {} /\ buf[p].issued = {} /\ buf[p].created = {}
        BY <1>3, <2>1 DEF BufferedAt
      <4>3. BufferedAt(p)' /\ RowAt(p)'
        BY <1>2, <1>3, <2>1, <2>2, <3>1, <4>1, <4>2 DEF BufferedAt, RowAt, Holding
      <4>4. AloneAt(p)'
        BY <1>3, <2>2, <4>1 DEF AloneAt, Deleted
      <4>5. QED
        BY <2>4, <4>3, <4>4 DEF OwnAt
    <3>2. CASE ~transactional
      BY <1>2, <2>1, <2>4, <3>2, OwnAtOnce DEF Statement
    <3>3. QED
      BY <3>1, <3>2
  <2>6. QED
    BY <1>1, <2>1, <2>2, <2>5, WorkStatement
<1>12. CASE DidIssue(p)
  <2>1. /\ op[p].kind = "issueKey" /\ pc[p] = "mutating" /\ pc'[p] = "auditing"
        /\ op'[p].kind = "issueKey" /\ op'[p].ref = op[p].ref /\ op'[p].tail \in Tails
        /\ Statement(p, {}, {}, {<<op'[p].tail, op[p].ref, p>>}, {}, {}, {op'[p].tail})
    BY <1>12 DEF DidIssue
  <2>2. /\ buf[p].created = {} /\ buf[p].deleted = {} /\ buf[p].issued = {}
        /\ buf[p].revoked = {} /\ buf[p].audit = {} /\ locks[p] = {}
    BY <2>1, CleanBefore DEF Holding
  <2>3. DoneAt(p)'
    BY <1>2, <2>1 DEF DoneAt, Wrote
  <2>4. OwnAt(p)' /\ AloneAt(p)'
    <3>1. CASE transactional
      <4>1. /\ buf'[p].created = {} /\ buf'[p].deleted = {}
            /\ buf'[p].issued = {<<op'[p].tail, op[p].ref, p>>}
            /\ buf'[p].revoked = {} /\ buf'[p].audit = {}
        BY <2>1, <2>2, <3>1 DEF Statement
      <4>2. BufferedAt(p)' /\ RowAt(p)' /\ AloneAt(p)'
        BY <1>2, <2>1, <3>1, <4>1 DEF BufferedAt, RowAt, AloneAt, Holding, Past
      <4>3. QED
        BY <2>3, <4>2 DEF OwnAt
    <3>2. CASE ~transactional
      BY <1>2, <2>1, <2>3, <3>2, OwnAtOnce DEF Statement
    <3>3. QED
      BY <3>1, <3>2
  <2>5. {<<op'[p].tail, op[p].ref, p>>} \in
          SUBSET (Tails \X Refs \X (Process \cup {None}))
    BY <1>4, <2>1 DEF AdminPlaces
  <2>6. QED
    BY <1>1, <2>1, <2>4, <2>5, WorkStatement
<1>13. CASE DidRevoke(p)
  <2>1. /\ op[p].kind = "revokeKey" /\ pc[p] = "mutating" /\ pc'[p] = "auditing"
        /\ op' = op /\ op[p].tail \in Tails
        /\ Statement(p, {}, {}, {}, {op[p].tail}, {}, {op[p].tail})
    BY <1>3, <1>13 DEF DidRevoke, DoneAt, AdminPlaces
  <2>2. op[p].tail \notin db.revoked
    BY <1>13 DEF DidRevoke, LiveKeys, Revoked
  <2>3. /\ buf[p].created = {} /\ buf[p].deleted = {} /\ buf[p].issued = {}
        /\ buf[p].revoked = {} /\ buf[p].audit = {} /\ locks[p] = {}
    BY <2>1, CleanBefore DEF Holding
  <2>4. DoneAt(p)'
    BY <1>2, <2>1 DEF DoneAt, Wrote, Statement
  <2>5. OwnAt(p)' /\ AloneAt(p)'
    <3>1. CASE transactional
      <4>1. /\ buf'[p].created = {} /\ buf'[p].deleted = {}
            /\ buf'[p].issued = {} /\ buf'[p].revoked = {op[p].tail}
            /\ buf'[p].audit = {} /\ locks'[p] = {op[p].tail} /\ db' = db
        BY <2>1, <2>3, <3>1 DEF Statement
      <4>2. BufferedAt(p)' /\ RowAt(p)' /\ AloneAt(p)'
        BY <1>2, <2>1, <2>2, <3>1, <4>1 DEF BufferedAt, RowAt, AloneAt, Holding
      <4>3. QED
        BY <2>4, <4>2 DEF OwnAt
    <3>2. CASE ~transactional
      BY <1>2, <2>1, <2>4, <3>2, OwnAtOnce DEF Statement
    <3>3. QED
      BY <3>1, <3>2
  <2>6. {op[p].tail} \in SUBSET Tails
    BY <2>1
  <2>7. QED
    BY <1>1, <2>1, <2>5, <2>6, WorkStatement
<1>14. CASE DidAudit(p)
  <2>1. /\ pc[p] = "auditing" /\ pc'[p] = "committing" /\ op' = op
        /\ Statement(p, {}, {}, {}, {}, {Row(p)}, {})
    BY <1>14 DEF DidAudit
  <2>2. Row(p)' = Row(p)
    BY <2>1 DEF Row, Target
  <2>3. DoneAt(p)'
    BY <1>2, <1>3, <2>1 DEF DoneAt, Wrote, Statement, Past, Holding, AdminPlaces
  <2>4. OwnAt(p)' /\ AloneAt(p)'
    <3>1. CASE transactional
      <4>1. /\ buf'[p].created = buf[p].created /\ buf'[p].deleted = buf[p].deleted
            /\ buf'[p].issued = buf[p].issued /\ buf'[p].revoked = buf[p].revoked
            /\ buf'[p].audit = buf[p].audit \cup {Row(p)}
            /\ locks'[p] = locks[p] /\ db' = db
        BY <2>1, <3>1 DEF Statement
      <4>2. buf'[p].audit = {Row(p)}
        BY <1>3, <2>1, <4>1 DEF BufferedAt
      <4>3. BufferedAt(p)'
        BY <1>2, <1>3, <2>1, <2>2, <3>1, <4>1, <4>2 DEF BufferedAt, Holding, Past
      <4>4. RowAt(p)'
        BY <2>2, <4>2 DEF RowAt
      <4>5. AloneAt(p)'
        BY <1>3, <4>1 DEF AloneAt, Deleted
      <4>6. QED
        BY <2>3, <4>3, <4>4, <4>5 DEF OwnAt
    <3>2. CASE ~transactional
      BY <1>2, <2>1, <2>3, <3>2, OwnAtOnce DEF Statement
    <3>3. QED
      BY <3>1, <3>2
  <2>5. QED
    BY <1>1, <2>1, <2>4, WorkStatement
<1>15. QED
  BY <1>5, <1>6, <1>7, <1>8, <1>9, <1>10, <1>11, <1>12, <1>13, <1>14, AdminCases
     DEF AdminCase

\* The other routes leave the tables alone and write rows of their own kinds.
Foreign(p) ==
    /\ Elsewhere(p) /\ Shape' /\ OnlyAudit(OnboardKinds \cup {"cancel"})
    /\ UNCHANGED <<buf, locks>>
    /\ pc[p] \notin AdminPlaces /\ pc[p] \notin Over /\ pc'[p] \notin AdminPlaces

\* The other routes write nothing but audit rows of their own.
LEMMA Foreigners ==
    ASSUME Shape, NEW p \in Process, OnboardMove(p) \/ TenantMove(p)
    PROVE  Foreign(p)
<1>1. CASE OnboardMove(p)
  <2>1. /\ Elsewhere(p) /\ Shape' /\ OnlyAudit(OnboardKinds)
        /\ pc[p] \in {"idle"} \cup OnboardPlaces /\ pc'[p] \in OnboardPlaces \cup Over
        /\ UNCHANGED <<buf, locks>>
    BY <1>1, OnboardFrames DEF OnboardFrame
  <2>2. OnlyAudit(OnboardKinds \cup {"cancel"})
    BY <2>1 DEF OnlyAudit
  <2>3. QED
    BY <2>1, <2>2 DEF Foreign, OnboardPlaces, AdminPlaces, Over
<1>2. CASE TenantMove(p)
  <2>1. /\ Elsewhere(p) /\ Shape' /\ OnlyAudit({"cancel"})
        /\ pc[p] \in {"idle"} \cup TenantPlaces /\ pc'[p] \in TenantPlaces \cup Over
        /\ UNCHANGED <<buf, locks>>
    BY <1>2, TenantFrames DEF TenantFrame
  <2>2. OnlyAudit(OnboardKinds \cup {"cancel"})
    BY <2>1 DEF OnlyAudit
  <2>3. QED
    BY <2>1, <2>2 DEF Foreign, TenantPlaces, AdminPlaces, Over
<1>3. QED
  BY <1>1, <1>2

Still == UNCHANGED <<deployment, db, buf, locks, op, pc, overlap, barred, count,
                     held, claimed, burnt, onboarded, record, cancelled>>

\* A step is one of an admin route, one of another route, or leaves the handlers
\* alone.
LEMMA StepKinds ==
    ASSUME Shape, [Next]_vars
    PROVE  \/ \E p \in Process : AdminMove(p)
           \/ \E p \in Process : Foreign(p) /\ (OnboardMove(p) \/ TenantMove(p))
           \/ Still
BY NextCases, StillSame, Foreigners DEF Still

\* There is no unit of work at first.
LEMMA WorkInit == Init => WorkInv
<1> SUFFICES ASSUME Init PROVE WorkInv
  OBVIOUS
<1>1. \A p \in Process : buf[p] = Nothing /\ locks[p] = {} /\ pc[p] = "idle"
  BY DEF Init, AdminInit
<1>2. PICK ref \in Refs, tail \in Tails : db = Founded(ref, tail)
  BY FoundedAssumption DEF Init, AdminInit
<1>3. /\ db.created = {ref} /\ db.issued = {<<tail, ref, None>>}
      /\ db.deleted = {} /\ db.revoked = {}
  BY <1>2 DEF Founded, Nothing
<1>4. Tables
  BY <1>3 DEF Tables
<1>5. Disjoint
  BY <1>1 DEF Disjoint
<1>6. ASSUME NEW p \in Process PROVE OwnAt(p) /\ AloneAt(p)
  <2>1. /\ pc[p] \notin Holding /\ pc[p] \notin Past /\ pc[p] # "checking"
        /\ pc[p] # "revoking" /\ pc[p] # "committing" /\ pc[p] \notin AdminPlaces
    BY <1>1 DEF Holding, Past, AdminPlaces
  <2>2. /\ buf[p].created = {} /\ buf[p].deleted = {} /\ buf[p].issued = {}
        /\ buf[p].revoked = {} /\ buf[p].audit = {} /\ Clean(p)
    BY <1>1, NothingEmpty DEF Clean
  <2>3. QED
    BY <2>1, <2>2 DEF OwnAt, AloneAt, BufferedAt, RowAt, DoneAt, Wrote
<1>7. QED
  BY <1>4, <1>5, <1>6 DEF WorkInv

\* Every step keeps the units of work apart.
LEMMA WorkNext ==
    ASSUME Shape, WorkInv, [Next]_vars
    PROVE  WorkInv'
<1>1. ASSUME NEW p \in Process, Foreign(p) PROVE WorkInv'
  <2>1. /\ Elsewhere(p) /\ UNCHANGED <<buf, locks>>
        /\ pc[p] \notin AdminPlaces /\ pc'[p] \notin AdminPlaces
        /\ UNCHANGED <<db.created, db.deleted, db.issued, db.revoked>>
    BY <1>1 DEF Foreign, OnlyAudit
  <2>2. pc[p] \notin Holding
    BY <2>1 DEF Holding, AdminPlaces
  <2>3. buf'[p] = Nothing /\ locks'[p] = {} /\ locks'[p] \subseteq locks[p]
    BY <2>1, <2>2, CleanBefore
  <2>4. OwnAt(p)' /\ AloneAt(p)'
    BY <2>1, <2>3, OwnOutside
  <2>5. QED
    BY <2>1, <2>3, <2>4, WorkQuiet
<1>2. CASE Still
  BY <1>2 DEF Still, WorkInv, Tables, Disjoint, OwnAt, AloneAt, BufferedAt, RowAt, DoneAt,
     Wrote, Clean, Row, Target, Deleted, transactional
<1>3. QED
  BY <1>1, <1>2, StepKinds, WorkAdmin

\* Open transactions are apart in every behaviour.
LEMMA WorkInvariance == Spec => [](Shape /\ WorkInv)
<1>1. Init => Shape /\ WorkInv
  BY ShapeInit, WorkInit
<1>2. Shape /\ WorkInv /\ [Next]_vars => Shape' /\ WorkInv'
  BY ShapeNext, WorkNext
<1>3. QED
  BY <1>1, <1>2, PTL DEF Spec

-----------------------------------------------------------------------------
(* What a step adds to the tables. *)

\* Only the request that deletes, issues, creates or revokes adds to the table,
\* with its statement or, in a transaction, with its commit.
Adding(p, kind, to) ==
    /\ op[p].kind = kind
    /\ \/ transactional /\ Commit(p)
       \/ ~transactional /\ pc[p] = "mutating" /\ pc'[p] = to

\* A tenant becomes deleted by its own request: at once, or at its COMMIT.
LEMMA AddsDeleted ==
    ASSUME Shape, WorkInv, NEW p \in Process, AdminMove(p),
           NEW d \in db'.deleted \ db.deleted
    PROVE  d = <<op[p].ref, p>> /\ Adding(p, "delete", "revoking")
<1>1. BufferedAt(p) /\ OwnAt(p)
  BY DEF WorkInv, OwnAt
<1>2. CASE Commit(p)
  <2>1. d \in buf[p].deleted
    BY <1>2, CommitEffect
  <2>2. transactional
    BY <1>1, <2>1, NothingEmpty DEF BufferedAt, Clean
  <2>3. QED
    BY <1>1, <1>2, <2>1, <2>2 DEF BufferedAt, Adding
<1>3. CASE ~Commit(p)
  <2>1. db' # db /\ ~DidEnter(p) /\ ~DidCheck(p) /\ ~DidFail(p)
    BY DEF DidEnter, DidCheck, DidFail
  <2>2. CASE DidDelete(p)
    BY <2>1, <2>2 DEF DidDelete, Goes, Statement, Adding
  <2>3. CASE \/ DidCreate(p) \/ DidPatch(p) \/ DidRevokeAll(p) \/ DidIssue(p)
             \/ DidRevoke(p) \/ DidAudit(p)
    <3>1. PICK c, i, r, a, rows : Statement(p, c, {}, i, r, a, rows)
      BY <2>3 DEF DidCreate, DidPatch, DidRevokeAll, DidIssue, DidRevoke, DidAudit
    <3>2. QED
      BY <2>1, <3>1 DEF Statement
  <2>4. QED
    BY <1>3, <2>1, <2>2, <2>3, AdminCases DEF AdminCase
<1>4. QED
  BY <1>2, <1>3

\* A key becomes visible by its own request: at once, or at its COMMIT.
LEMMA AddsIssued ==
    ASSUME Shape, WorkInv, NEW p \in Process, AdminMove(p),
           NEW i \in db'.issued \ db.issued
    PROVE  /\ i[1] = op'[p].tail /\ i[2] = op[p].ref /\ i[3] = p
           /\ Adding(p, "issueKey", "auditing")
<1>1. BufferedAt(p) /\ OwnAt(p)
  BY DEF WorkInv, OwnAt
<1>2. CASE Commit(p)
  <2>1. i \in buf[p].issued /\ op' = op
    BY <1>2, CommitEffect
  <2>2. transactional
    BY <1>1, <2>1, NothingEmpty DEF BufferedAt, Clean
  <2>3. QED
    BY <1>1, <1>2, <2>1, <2>2 DEF BufferedAt, Adding
<1>3. CASE ~Commit(p)
  <2>1. db' # db /\ ~DidEnter(p) /\ ~DidCheck(p) /\ ~DidFail(p)
    BY DEF DidEnter, DidCheck, DidFail
  <2>2. CASE DidIssue(p)
    BY <2>1, <2>2 DEF DidIssue, Goes, Statement, Adding
  <2>3. CASE \/ DidCreate(p) \/ DidPatch(p) \/ DidRevokeAll(p) \/ DidDelete(p)
             \/ DidRevoke(p) \/ DidAudit(p)
    <3>1. PICK c, d, r, a, rows : Statement(p, c, d, {}, r, a, rows)
      BY <2>3 DEF DidCreate, DidPatch, DidRevokeAll, DidDelete, DidRevoke, DidAudit
    <3>2. QED
      BY <2>1, <3>1 DEF Statement
  <2>4. QED
    BY <1>3, <2>1, <2>2, <2>3, AdminCases DEF AdminCase
<1>4. QED
  BY <1>2, <1>3

\* A request stays what it is.
LEMMA KeepsRequest ==
    ASSUME Shape, NEW p \in Process, AdminMove(p), pc[p] \in AdminPlaces
    PROVE  /\ op'[p].kind = op[p].kind /\ op'[p].ref = op[p].ref
           /\ op[p].kind # "issueKey" => op'[p] = op[p]
           /\ overlap' = overlap
<1>1. ~DidEnter(p)
  BY DEF DidEnter, AdminPlaces
<1>2. CASE DidIssue(p)
  BY <1>2 DEF DidIssue, Goes
<1>3. CASE ~DidIssue(p)
  <2>1. op' = op /\ overlap' = overlap
    BY <1>1, <1>3, AdminCases, CommitEffect DEF AdminCase, DidCheck, DidFail, DidCreate,
       DidPatch, DidDelete, DidRevokeAll, DidRevoke, DidAudit, Goes
  <2>2. QED
    BY <2>1
<1>4. QED
  BY <1>2, <1>3

-----------------------------------------------------------------------------
(* Keys of deleted tenants. *)

\* Requests that run at one time overlap.
OverlapExact ==
    \A p, q \in Process : p # q /\ Running(p) /\ Running(q) => <<p, q>> \in overlap

\* A deletion is of the tenant that its request names.
DeletedBy ==
    \A d \in db.deleted :
        /\ op[d[2]].kind = "delete" /\ op[d[2]].ref = d[1]
        /\ pc[d[2]] \in Holding \cup Over

\* A request that issues a key has seen its tenant alive, and so overlaps with
\* every deletion of it.
IssueOverlaps(p) ==
    Wrote(p, "issueKey", Past \cup {"mutating"}) =>
        \A d \in db.deleted : d[1] = op[p].ref => <<p, d[2]>> \in overlap

\* A deletion that is past the revocation of the keys has them all, but for
\* those of requests it overlaps with.
Covered(p) ==
    Wrote(p, "delete", Past) =>
        \A i \in db.issued : i[2] = op[p].ref =>
            \/ i[1] \in db.revoked \cup buf[p].revoked
            \/ <<i[3], p>> \in overlap

OutliveInv ==
    /\ OverlapExact /\ DeletedBy /\ KeyOutlivesByOverlap
    /\ \A p \in Process : IssueOverlaps(p) /\ Covered(p)

\* A request that begins overlaps with those that are running.
LEMMA BeginOverlaps ==
    ASSUME Shape, NEW p \in Process, pc[p] = "idle",
           AdminMove(p) \/ OnboardMove(p) \/ TenantMove(p)
    PROVE  \A q \in Process : Running(q) => <<p, q>> \in overlap' /\ <<q, p>> \in overlap'
<1>1. ASSUME NEW request, NEW place, Begin(p, request, place)
      PROVE  \A q \in Process : Running(q) =>
               <<p, q>> \in overlap' /\ <<q, p>> \in overlap'
  BY <1>1, BeginEffect
<1>2. ~AdminStep(p) /\ ~QueryThrows(p)
  BY DEF AdminStep, create, patch, softDelete, revokeAllForTenant, checkTenant, issue,
     revoke, auditWrite, Commit, QueryThrows
<1>3. ~OnboardStep(p)
  BY DEF OnboardStep, Open, getTenant, Persist, RunThrows, commitIdempotency,
     releaseIdempotency
<1>4. ~TenantStep(p) /\ ~TenantThrows(p)
  BY DEF TenantStep, ReadKeys, verify, authTenant, loadInvoice, Ask, cancelInvoice,
     updateInvoiceStatus, auditCancelled, TenantThrows
<1>5. AdminRequest(p) \/ OnboardRequest(p) \/ TenantRequest(p)
  BY <1>2, <1>3, <1>4 DEF AdminMove, OnboardMove, TenantMove
<1>6. \E request, place : Begin(p, request, place)
  BY <1>5 DEF AdminRequest, OnboardRequest, TenantRequest
<1>7. QED
  BY <1>1, <1>6

\* Every step keeps running requests overlapping.
LEMMA OverlapNext ==
    ASSUME Shape, OverlapExact, NEW p \in Process, Elsewhere(p), pc[p] \notin Over,
           AdminMove(p) \/ OnboardMove(p) \/ TenantMove(p)
    PROVE  OverlapExact'
<1>1. /\ \A q \in Process \ {p} : pc'[q] = pc[q]
      /\ overlap \subseteq overlap'
  BY DEF Elsewhere
<1>2. \A q \in Process : q # p => (Running(q)' <=> Running(q))
  BY <1>1 DEF Running
<1>3. ASSUME NEW q \in Process, q # p, Running(q)
      PROVE  <<p, q>> \in overlap' /\ <<q, p>> \in overlap'
  <2>1. CASE pc[p] = "idle"
    BY <1>3, <2>1, BeginOverlaps
  <2>2. CASE pc[p] # "idle"
    <3>1. Running(p)
      BY <2>2 DEF Running, Ended, Over
    <3>2. QED
      BY <1>1, <1>3, <3>1 DEF OverlapExact
  <2>3. QED
    BY <2>1, <2>2
<1>4. ASSUME NEW q \in Process, NEW s \in Process, q # s, Running(q)', Running(s)'
      PROVE  <<q, s>> \in overlap'
  <2>1. CASE q = p
    BY <1>2, <1>3, <1>4, <2>1
  <2>2. CASE s = p
    BY <1>2, <1>3, <1>4, <2>2
  <2>3. CASE q # p /\ s # p
    BY <1>1, <1>2, <1>4, <2>3 DEF OverlapExact
  <2>4. QED
    BY <2>1, <2>2, <2>3
<1>5. QED
  BY <1>4 DEF OverlapExact

\* The other routes neither issue nor delete.
LEMMA OutliveForeign ==
    ASSUME Shape, WorkInv, OutliveInv, NEW p \in Process, Foreign(p),
           OnboardMove(p) \/ TenantMove(p)
    PROVE  OutliveInv'
<1>1. /\ Elsewhere(p) /\ buf' = buf /\ pc[p] \notin AdminPlaces /\ pc[p] \notin Over
      /\ pc'[p] \notin AdminPlaces
      /\ db'.deleted = db.deleted /\ db'.issued = db.issued /\ db'.revoked = db.revoked
  BY DEF Foreign, OnlyAudit
<1>2. /\ \A q \in Process \ {p} : pc'[q] = pc[q] /\ op'[q] = op[q]
      /\ overlap \subseteq overlap' /\ (transactional' <=> transactional)
  BY <1>1 DEF Elsewhere, transactional
<1>3. OverlapExact'
  BY <1>1, OverlapNext DEF OutliveInv
<1>4. ASSUME NEW d \in db.deleted
      PROVE  d[2] \in Process /\ d[2] # p /\ pc'[d[2]] = pc[d[2]] /\ op'[d[2]] = op[d[2]]
  <2>1. d[2] \in Process
    BY DEF WorkInv, Tables
  <2>2. pc[d[2]] \in Holding \cup Over
    BY DEF OutliveInv, DeletedBy
  <2>3. d[2] # p
    BY <1>1, <2>2 DEF Holding, AdminPlaces
  <2>4. QED
    BY <1>2, <2>1, <2>3
<1>5. DeletedBy'
  BY <1>1, <1>4 DEF OutliveInv, DeletedBy
<1>6. KeyOutlivesByOverlap'
  BY <1>1, <1>2, <1>4 DEF OutliveInv, KeyOutlivesByOverlap, Revoked
<1>7. ASSUME NEW q \in Process PROVE IssueOverlaps(q)' /\ Covered(q)'
  <2>1. CASE q = p
    <3>1. pc'[q] \notin Past \cup {"mutating"} /\ pc'[q] \notin Past
      BY <1>1, <2>1 DEF Past, AdminPlaces
    <3>2. QED
      BY <3>1 DEF IssueOverlaps, Covered, Wrote
  <2>2. CASE q # p
    <3>1. IssueOverlaps(q) /\ Covered(q)
      BY DEF OutliveInv
    <3>2. pc'[q] = pc[q] /\ op'[q] = op[q] /\ buf'[q] = buf[q]
      BY <1>1, <1>2, <2>2
    <3>3. QED
      BY <1>1, <1>2, <3>1, <3>2 DEF IssueOverlaps, Covered, Wrote
  <2>3. QED
    BY <2>1, <2>2
<1>8. QED
  BY <1>3, <1>5, <1>6, <1>7 DEF OutliveInv

\* The steps of the admin routes leave no key behind but by overlap.
LEMMA OutliveAdmin ==
    ASSUME Shape, WorkInv, OutliveInv, NEW p \in Process, AdminMove(p)
    PROVE  OutliveInv'
<1>1. /\ Elsewhere(p) /\ Shape' /\ pc[p] \in {"idle"} \cup AdminPlaces
      /\ pc'[p] \in AdminPlaces \cup Over
  BY AdminFrames DEF AdminFrame
<1>2. /\ \A q \in Process \ {p} : pc'[q] = pc[q] /\ op'[q] = op[q] /\ buf'[q] = buf[q]
      /\ overlap \subseteq overlap' /\ (transactional' <=> transactional)
      /\ deployment' = deployment
      /\ db.deleted \subseteq db'.deleted /\ db.issued \subseteq db'.issued
      /\ db.revoked \subseteq db'.revoked
  BY <1>1 DEF Elsewhere, Grows, transactional
<1>3. pc[p] \notin Over
  BY <1>1 DEF AdminPlaces, Over
<1>4. OverlapExact' /\ OverlapExact
  BY <1>1, <1>3, OverlapNext DEF OutliveInv
<1>5. ASSUME NEW kind, NEW to, Adding(p, kind, to)
      PROVE  /\ pc[p] \in AdminPlaces /\ op[p].kind = kind /\ Running(p)
             /\ op'[p].kind = op[p].kind /\ op'[p].ref = op[p].ref
             /\ transactional => pc[p] = "committing" /\ pc'[p] \in Over /\ Commit(p)
             /\ ~transactional => pc[p] = "mutating" /\ pc'[p] = to
             /\ overlap' = overlap
  <2>1. pc[p] \in {"mutating", "committing"} /\ op[p].kind = kind
        /\ (transactional => pc[p] = "committing" /\ pc'[p] \in Over /\ Commit(p))
        /\ (~transactional => pc[p] = "mutating" /\ pc'[p] = to)
    BY <1>5, CommitEffect DEF Adding
  <2>2. pc[p] \in AdminPlaces /\ Running(p)
    BY <2>1 DEF AdminPlaces, Running, Ended
  <2>3. QED
    BY <2>1, <2>2, KeepsRequest
<1>6. DeletedBy'
  <2>1. ASSUME NEW d \in db'.deleted
        PROVE  /\ op'[d[2]].kind = "delete" /\ op'[d[2]].ref = d[1]
               /\ pc'[d[2]] \in Holding \cup Over
    <3>1. CASE d \in db.deleted
      <4>1. d[2] \in Process /\ op[d[2]].kind = "delete" /\ op[d[2]].ref = d[1]
            /\ pc[d[2]] \in Holding \cup Over
        BY <3>1 DEF WorkInv, Tables, OutliveInv, DeletedBy
      <4>2. CASE d[2] = p
        <5>1. pc[p] \in Holding /\ pc[p] \in AdminPlaces
          BY <1>3, <4>1, <4>2 DEF Holding, AdminPlaces
        <5>2. op'[p].kind = op[p].kind /\ op'[p].ref = op[p].ref
          BY <5>1, KeepsRequest
        <5>3. pc'[p] \in Holding \cup Over
          BY <5>1, AdminCases, CommitEffect DEF AdminCase, DidEnter, DidCheck, DidFail,
             DidCreate, DidPatch, DidDelete, DidRevokeAll, DidIssue, DidRevoke, DidAudit,
             Goes, Holding, Over
        <5>4. QED
          BY <4>1, <4>2, <5>2, <5>3
      <4>3. CASE d[2] # p
        BY <1>2, <4>1, <4>3
      <4>4. QED
        BY <4>2, <4>3
    <3>2. CASE d \notin db.deleted
      <4>1. d = <<op[p].ref, p>> /\ Adding(p, "delete", "revoking")
        BY <3>2, AddsDeleted
      <4>2. d[1] = op[p].ref /\ d[2] = p
        BY <4>1
      <4>3. /\ op'[p].kind = "delete" /\ op'[p].ref = op[p].ref
            /\ pc'[p] \in Over \cup {"revoking"}
        BY <1>5, <4>1
      <4>4. QED
        BY <4>2, <4>3 DEF Holding
    <3>3. QED
      BY <3>1, <3>2
  <2>2. QED
    BY <2>1 DEF DeletedBy
<1>7. ASSUME NEW q \in Process PROVE IssueOverlaps(q)'
  <2> SUFFICES ASSUME Wrote(q, "issueKey", Past \cup {"mutating"})',
                      NEW d \in db'.deleted, d[1] = op'[q].ref
               PROVE  <<q, d[2]>> \in overlap'
    BY DEF IssueOverlaps
  <2>1. Running(q)' /\ op'[q].kind = "issueKey"
    BY DEF Wrote, Past, Running, Ended
  <2>2. CASE d \notin db.deleted
    <3>1. d = <<op[p].ref, p>> /\ Adding(p, "delete", "revoking")
      BY <2>2, AddsDeleted
    <3>2. d[2] = p /\ Running(p) /\ op'[p].kind = "delete" /\ overlap' = overlap
      BY <1>5, <3>1
    <3>3. q # p
      BY <2>1, <3>2
    <3>4. Running(q)
      BY <1>2, <2>1, <3>3 DEF Running
    <3>5. QED
      BY <1>4, <3>2, <3>3, <3>4 DEF OverlapExact
  <2>3. CASE d \in db.deleted /\ q # p
    <3>1. IssueOverlaps(q) /\ op'[q] = op[q] /\ pc'[q] = pc[q]
      BY <1>2, <2>3 DEF OutliveInv
    <3>2. QED
      BY <1>2, <2>3, <3>1 DEF IssueOverlaps, Wrote
  <2>4. CASE d \in db.deleted /\ q = p
    <3>1. pc'[p] \in Past \cup {"mutating"} /\ op'[p].kind = "issueKey"
      BY <2>4 DEF Wrote
    <3>2. ~DidEnter(p)
      BY <3>1 DEF DidEnter, Past
    <3>3. pc[p] \in AdminPlaces
      BY <1>1, <3>2, AdminCases, CommitEffect DEF AdminCase, DidCheck, DidFail,
         DidCreate, DidPatch, DidDelete, DidRevokeAll, DidIssue, DidRevoke, DidAudit,
         Goes, AdminPlaces
    <3>4. op[p].kind = "issueKey" /\ op[p].ref = op'[p].ref /\ overlap' = overlap
      BY <3>1, <3>3, KeepsRequest
    <3>5. CASE DidCheck(p)
      <4>1. pc'[p] # "failed"
        BY <3>1 DEF Past
      <4>2. ~Deleted(op[p].ref)
        BY <3>5, <4>1 DEF DidCheck
      <4>3. QED
        BY <2>4, <3>4, <4>2 DEF Deleted
    <3>6. CASE ~DidCheck(p)
      <4>1. DoneAt(p)
        BY DEF WorkInv, OwnAt
      <4>2. pc[p] \in Past \cup {"mutating"}
        BY <3>1, <3>2, <3>4, <3>6, <4>1, AdminCases, CommitEffect DEF AdminCase, DidFail,
           DidCreate, DidPatch, DidDelete, DidRevokeAll, DidIssue, DidRevoke, DidAudit,
           Goes, Past, DoneAt
      <4>3. QED
        BY <2>4, <3>4, <4>2 DEF OutliveInv, IssueOverlaps, Wrote
    <3>7. QED
      BY <3>5, <3>6
  <2>5. QED
    BY <2>2, <2>3, <2>4
<1>8. ASSUME NEW q \in Process PROVE Covered(q)'
  <2> SUFFICES ASSUME Wrote(q, "delete", Past)', NEW i \in db'.issued, i[2] = op'[q].ref,
                      i[1] \notin db'.revoked, i[1] \notin buf'[q].revoked
               PROVE  <<i[3], q>> \in overlap'
    BY DEF Covered
  <2>1. Running(q)' /\ op'[q].kind = "delete" /\ pc'[q] \in Past
    BY DEF Wrote, Past, Running, Ended
  <2>2. CASE i \notin db.issued
    <3>1. i[3] = p /\ Adding(p, "issueKey", "auditing")
      BY <2>2, AddsIssued
    <3>2. Running(p) /\ op'[p].kind = "issueKey" /\ overlap' = overlap
      BY <1>5, <3>1
    <3>3. q # p
      BY <2>1, <3>2
    <3>4. Running(q)
      BY <1>2, <2>1, <3>3 DEF Running
    <3>5. QED
      BY <1>4, <3>1, <3>2, <3>3, <3>4 DEF OverlapExact
  <2>3. CASE i \in db.issued /\ q # p
    <3>1. Covered(q) /\ op'[q] = op[q] /\ pc'[q] = pc[q] /\ buf'[q] = buf[q]
      BY <1>2, <2>3 DEF OutliveInv
    <3>2. i[1] \notin db.revoked \cup buf[q].revoked
      BY <1>2, <3>1
    <3>3. QED
      BY <1>2, <2>1, <2>3, <3>1, <3>2 DEF Covered, Wrote
  <2>4. CASE i \in db.issued /\ q = p
    <3>1. pc'[p] \in {"auditing", "committing"} /\ op'[p].kind = "delete"
      BY <2>1, <2>4 DEF Past
    <3>2. DidRevokeAll(p) \/ DidAudit(p)
      <4>1. pc'[p] \notin Over /\ pc'[p] \notin {"checking", "mutating", "failed"}
        BY <3>1 DEF Over
      <4>2. ~DidEnter(p) /\ ~DidCheck(p) /\ ~DidFail(p) /\ ~Commit(p) /\ ~DidDelete(p)
        BY <3>1, <4>1, CommitEffect DEF DidEnter, DidCheck, DidFail, DidDelete, Goes
      <4>3. ~DidCreate(p) /\ ~DidPatch(p) /\ ~DidIssue(p) /\ ~DidRevoke(p)
        BY <3>1 DEF DidCreate, DidPatch, DidIssue, DidRevoke, Goes
      <4>4. QED
        BY <4>2, <4>3, AdminCases DEF AdminCase
    <3>3. CASE DidRevokeAll(p)
      <4>1. op' = op /\ Statement(p, {}, {}, {}, LiveKeys(op[p].ref), {}, LiveKeys(op[p].ref))
        BY <3>3 DEF DidRevokeAll
      <4>2. i[1] \in Tails
        BY <2>4 DEF WorkInv, Tables
      <4>3. i[1] \in db.revoked \/ i[1] \in LiveKeys(op[p].ref)
        BY <2>4, <4>1, <4>2 DEF LiveKeys, Issued, Revoked
      <4>4. i[1] \in db'.revoked \/ i[1] \in buf'[p].revoked
        BY <1>2, <4>1, <4>3 DEF Statement
      <4>5. QED
        BY <2>4, <4>4
    <3>4. CASE DidAudit(p)
      <4>1. /\ op' = op /\ overlap' = overlap /\ pc[p] = "auditing"
            /\ Statement(p, {}, {}, {}, {}, {Row(p)}, {})
        BY <3>4 DEF DidAudit
      <4>2. buf'[p].revoked = buf[p].revoked
        BY <4>1 DEF Statement
      <4>3. i[1] \notin db.revoked \cup buf[p].revoked
        BY <1>2, <2>4, <4>2
      <4>4. Covered(p) /\ Wrote(p, "delete", Past)
        BY <3>1, <4>1 DEF OutliveInv, Wrote, Past
      <4>5. QED
        BY <2>4, <4>1, <4>3, <4>4 DEF Covered
    <3>5. QED
      BY <3>2, <3>3, <3>4
  <2>5. QED
    BY <2>2, <2>3, <2>4
<1>9. KeyOutlivesByOverlap'
  <2> SUFFICES ASSUME NEW i \in db'.issued, NEW d \in db'.deleted, i[2] = d[1],
                      i[1] \notin db'.revoked
               PROVE  \/ <<i[3], d[2]>> \in overlap'
                      \/ ~transactional /\ pc'[d[2]] \in {"revoking", "failed"}
    BY <1>2 DEF KeyOutlivesByOverlap, Revoked
  <2>1. i[1] \notin db.revoked
    BY <1>2
  <2>2. CASE d \notin db.deleted
    <3>1. d = <<op[p].ref, p>> /\ Adding(p, "delete", "revoking")
      BY <2>2, AddsDeleted
    <3>2. d[1] = op[p].ref /\ d[2] = p
      BY <3>1
    <3>3. /\ op[p].kind = "delete" /\ overlap' = overlap
          /\ transactional => pc[p] = "committing" /\ Commit(p)
          /\ ~transactional => pc'[p] = "revoking"
      BY <1>5, <3>1
    <3>4. CASE transactional
      <4>1. i \in db.issued
        <5>1. SUFFICES ASSUME i \notin db.issued PROVE FALSE
          OBVIOUS
        <5>2. Adding(p, "issueKey", "auditing")
          BY <5>1, AddsIssued
        <5>3. QED
          BY <3>3, <5>2 DEF Adding
      <4>2. db'.revoked = db.revoked \cup buf[p].revoked
        BY <3>3, <3>4, CommitEffect
      <4>3. Covered(p) /\ Wrote(p, "delete", Past)
        BY <3>3, <3>4 DEF OutliveInv, Wrote, Past
      <4>4. <<i[3], p>> \in overlap
        BY <3>2, <4>1, <4>2, <4>3 DEF Covered
      <4>5. QED
        BY <1>2, <3>2, <4>4
    <3>5. QED
      BY <3>2, <3>3, <3>4
  <2>3. CASE i \notin db.issued /\ d \in db.deleted
    <3>1. i[2] = op[p].ref /\ i[3] = p /\ Adding(p, "issueKey", "auditing")
      BY <2>3, AddsIssued
    <3>2. Wrote(p, "issueKey", Past \cup {"mutating"})
      BY <1>5, <3>1 DEF Wrote, Past
    <3>3. <<p, d[2]>> \in overlap
      BY <2>3, <3>1, <3>2 DEF OutliveInv, IssueOverlaps
    <3>4. QED
      BY <1>2, <3>1, <3>3
  <2>4. CASE i \in db.issued /\ d \in db.deleted
    <3>1. \/ <<i[3], d[2]>> \in overlap
          \/ ~transactional /\ pc[d[2]] \in {"revoking", "failed"}
      BY <2>1, <2>4 DEF OutliveInv, KeyOutlivesByOverlap, Revoked
    <3>2. d[2] \in Process /\ op[d[2]].ref = d[1] /\ op[d[2]].kind = "delete"
      BY <2>4 DEF WorkInv, Tables, OutliveInv, DeletedBy
    <3>3. CASE ~transactional /\ pc[d[2]] \in {"revoking", "failed"} /\ d[2] = p
      <4>1. pc[p] = "revoking"
        BY <1>3, <3>3 DEF Over
      <4>2. DidFail(p) \/ DidRevokeAll(p)
        BY <4>1, AdminCases DEF AdminCase, DidEnter, DidCheck, DidCreate, DidPatch,
           DidDelete, DidIssue, DidRevoke, DidAudit, Goes, Commit
      <4>3. CASE DidFail(p)
        BY <3>3, <4>3 DEF DidFail
      <4>4. CASE DidRevokeAll(p)
        <5>1. db'.revoked = db.revoked \cup LiveKeys(op[p].ref)
          BY <3>3, <4>4 DEF DidRevokeAll, Statement
        <5>2. i[1] \in Tails
          BY <2>4 DEF WorkInv, Tables
        <5>3. i[1] \in LiveKeys(op[p].ref)
          BY <2>1, <2>4, <3>2, <3>3, <5>2 DEF LiveKeys, Issued, Revoked
        <5>4. QED
          BY <5>1, <5>3
      <4>5. QED
        BY <4>2, <4>3, <4>4
    <3>4. CASE ~transactional /\ pc[d[2]] \in {"revoking", "failed"} /\ d[2] # p
      BY <1>2, <3>2, <3>4
    <3>5. QED
      BY <1>2, <3>1, <3>3, <3>4
  <2>5. QED
    BY <2>2, <2>3, <2>4
<1>10. QED
  BY <1>4, <1>6, <1>7, <1>8, <1>9 DEF OutliveInv

\* Keys outlive their tenants only by overlap, in every behaviour.
LEMMA OutliveInvariance == Spec => [](Shape /\ WorkInv /\ OutliveInv)
<1>1. Init => OutliveInv
  <2> SUFFICES ASSUME Init PROVE OutliveInv
    OBVIOUS
  <2>1. \A p \in Process : pc[p] = "idle"
    BY DEF Init, AdminInit
  <2>2. PICK ref, tail : db = Founded(ref, tail)
    BY DEF Init, AdminInit
  <2>3. db.deleted = {}
    BY <2>2 DEF Founded, Nothing
  <2>4. QED
    BY <2>1, <2>3 DEF OutliveInv, OverlapExact, Running, Ended, DeletedBy,
       KeyOutlivesByOverlap, IssueOverlaps, Covered, Wrote, Past
<1>2. ASSUME Shape, WorkInv, OutliveInv, [Next]_vars PROVE OutliveInv'
  <2>1. CASE Still
    BY <1>2, <2>1 DEF Still, OutliveInv, OverlapExact, Running, DeletedBy,
       KeyOutlivesByOverlap, IssueOverlaps, Covered, Wrote, Revoked, transactional
  <2>2. QED
    BY <1>2, <2>1, StepKinds, OutliveForeign, OutliveAdmin
<1>3. QED
  BY <1>1, <1>2, WorkInvariance, PTL DEF Spec

\* A key of a deleted tenant stays live only if the request that issued it ran
\* concurrently with the deletion or, without transactions, if the deletion
\* failed half-way: for any number of requests, tenants and keys.
THEOREM KeysOutliveByOverlapOnly == Spec => []KeyOutlivesByOverlap
<1>1. OutliveInv => KeyOutlivesByOverlap
  BY DEF OutliveInv
<1>2. QED
  BY <1>1, OutliveInvariance, PTL

-----------------------------------------------------------------------------
(* The audit log. *)

Once == {"create", "delete", "revokeKey"}

\* A request between what it did and its row, without a transaction.
Owing(p, kind) == ~transactional /\ Wrote(p, kind, {"auditing", "revoking"})

\* Rows are about what happened, and what happens once has one row at most: as
\* long as a request owes it, there is none and nobody else owes it.
RowTrue(r) ==
    /\ r[1] = "create" => r[2] \in db.created
    /\ r[1] = "delete" => Deleted(r[2])
    /\ r[1] = "revokeKey" => r[2] \in db.revoked

RowsOnce ==
    \A kind \in Once : \A r, s \in db.audit :
        r[1] = kind /\ s[1] = kind /\ r[2] = s[2] => r = s

OwesAlone ==
    \A p \in Process : \A kind \in Once : Owing(p, kind) =>
        /\ \A r \in db.audit : r[1] = kind => r[2] # Target(p)
        /\ \A q \in Process : Owing(q, kind) /\ Target(q) = Target(p) => q = p

\* With transactions, what happened has its row.
HasRow(kind, target) == \E r \in db.audit : r[1] = kind /\ r[2] = target

RowsComplete ==
    transactional =>
        /\ \A ref \in db.created : HasRow("create", ref)
        /\ \A d \in db.deleted : HasRow("delete", d[1])
        /\ \A i \in db.issued : HasRow("issueKey", i[1])
        /\ \A k \in db.revoked :
             \/ HasRow("revokeKey", k)
             \/ \E i \in db.issued : i[1] = k /\ Deleted(i[2])

AuditInv == (\A r \in db.audit : RowTrue(r)) /\ RowsOnce /\ OwesAlone /\ RowsComplete

\* The kind and the target of a request's audit row.
LEMMA RowFields ==
    ASSUME NEW p, NEW r, r = Row(p)
    PROVE  r[1] = op[p].kind /\ r[2] = Target(p)
BY DEF Row

\* An audit row appears in the step that writes it, or at the COMMIT.
LEMMA AddsRow ==
    ASSUME Shape, WorkInv, NEW p \in Process, AdminMove(p),
           NEW r \in db'.audit \ db.audit
    PROVE  /\ r = Row(p) /\ op[p].kind \in AdminKinds
           /\ IF transactional THEN Commit(p) ELSE DidAudit(p)
<1>1. BufferedAt(p)
  BY DEF WorkInv, OwnAt
<1>2. CASE Commit(p)
  <2>1. r \in buf[p].audit /\ pc[p] = "committing"
    BY <1>2, CommitEffect
  <2>2. transactional
    BY <1>1, <2>1, NothingEmpty DEF BufferedAt, Clean
  <2>3. op[p].kind \in AdminKinds
    BY <2>1 DEF Shape, Fits, AdminPlaces
  <2>4. QED
    BY <1>1, <1>2, <2>1, <2>2, <2>3 DEF BufferedAt
<1>3. CASE ~Commit(p)
  <2>1. db' # db /\ ~DidEnter(p) /\ ~DidCheck(p) /\ ~DidFail(p)
    BY DEF DidEnter, DidCheck, DidFail
  <2>2. CASE DidAudit(p)
    <3>1. Statement(p, {}, {}, {}, {}, {Row(p)}, {}) /\ op[p].kind \in AdminKinds
      BY <2>2 DEF DidAudit
    <3>2. ~transactional /\ r \in {Row(p)}
      BY <2>1, <3>1 DEF Statement
    <3>3. QED
      BY <2>2, <3>1, <3>2
  <2>3. CASE \/ DidCreate(p) \/ DidPatch(p) \/ DidRevokeAll(p) \/ DidIssue(p)
             \/ DidRevoke(p) \/ DidDelete(p)
    <3>1. PICK c, d, i, k, rows : Statement(p, c, d, i, k, {}, rows)
      BY <2>3 DEF DidCreate, DidPatch, DidRevokeAll, DidIssue, DidRevoke, DidDelete
    <3>2. QED
      BY <2>1, <3>1 DEF Statement
  <2>4. QED
    BY <1>3, <2>1, <2>2, <2>3, AdminCases DEF AdminCase
<1>4. QED
  BY <1>2, <1>3

\* The target of a request that creates, deletes or revokes.
LEMMA TargetIs ==
    ASSUME Shape, WorkInv, NEW p \in Process, pc[p] \in AdminPlaces
    PROVE  /\ op[p].kind \in {"create", "delete"} => Target(p) = op[p].ref
           /\ op[p].kind = "revokeKey" => Target(p) = op[p].tail
           /\ Wrote(p, "issueKey", Past) => Target(p) = op[p].tail
BY NoneAssumption DEF WorkInv, OwnAt, DoneAt, Target, Wrote

\* Rows stay true, as the tables grow.
LEMMA RowStaysTrue ==
    ASSUME NEW p, Elsewhere(p), NEW r, RowTrue(r)
    PROVE  RowTrue(r)'
BY DEF Elsewhere, Grows, RowTrue, Deleted

\* A request that is about to write its row, or has it in its transaction, has
\* done what the row says.
LEMMA RowComesTrue ==
    ASSUME Shape, WorkInv, NEW p \in Process, pc[p] \in Past,
           Elsewhere(p), transactional => Commit(p), NEW r, r = Row(p)
    PROVE  RowTrue(r)'
<1>1. DoneAt(p) /\ pc[p] \in AdminPlaces
  BY DEF WorkInv, OwnAt, Past, AdminPlaces
<1>2. r[1] = op[p].kind /\ r[2] = Target(p)
  BY RowFields
<1>4. /\ db.created \subseteq db'.created /\ db.deleted \subseteq db'.deleted
      /\ db.revoked \subseteq db'.revoked
  BY DEF Elsewhere, Grows
<1>5. transactional => /\ buf[p].created \subseteq db'.created
                       /\ buf[p].deleted \subseteq db'.deleted
                       /\ buf[p].revoked \subseteq db'.revoked
  BY CommitEffect
<1>6. ASSUME op[p].kind = "create" PROVE Target(p) \in db'.created
  BY <1>1, <1>4, <1>5, <1>6, TargetIs DEF DoneAt, Wrote
<1>7. ASSUME op[p].kind = "delete" PROVE \E d \in db'.deleted : d[1] = Target(p)
  <2>1. Target(p) = op[p].ref
    BY <1>1, <1>7, TargetIs
  <2>2. <<op[p].ref, p>> \in db'.deleted
    BY <1>1, <1>4, <1>5, <1>7 DEF DoneAt, Wrote, Past, Holding
  <2>3. QED
    BY <2>1, <2>2
<1>8. ASSUME op[p].kind = "revokeKey" PROVE Target(p) \in db'.revoked
  BY <1>1, <1>4, <1>5, <1>8, TargetIs DEF DoneAt, Wrote
<1>9. QED
  BY <1>2, <1>6, <1>7, <1>8 DEF RowTrue, Deleted

\* The other routes keep the rows of the admin routes true.
LEMMA AuditForeign ==
    ASSUME Shape, WorkInv, AuditInv, NEW p \in Process, Foreign(p)
    PROVE  AuditInv'
<1>1. /\ Elsewhere(p) /\ pc[p] \notin AdminPlaces /\ pc'[p] \notin AdminPlaces
      /\ db'.created = db.created /\ db'.deleted = db.deleted
      /\ db'.issued = db.issued /\ db'.revoked = db.revoked
      /\ db.audit \subseteq db'.audit
      /\ \A r \in db'.audit \ db.audit : r[1] \notin Once
  BY DEF Foreign, OnlyAudit, OnboardKinds, Once
<1>2. /\ \A q \in Process \ {p} : pc'[q] = pc[q] /\ op'[q] = op[q]
      /\ (transactional' <=> transactional)
  BY <1>1 DEF Elsewhere, transactional
<1>3. \A r \in db'.audit : RowTrue(r)'
  <2>1. ASSUME NEW r \in db'.audit, r \notin db.audit PROVE RowTrue(r)'
    BY <1>1, <2>1 DEF RowTrue, Once
  <2>2. QED
    BY <1>1, <2>1, RowStaysTrue DEF AuditInv
<1>4. RowsOnce'
  BY <1>1 DEF AuditInv, RowsOnce
<1>5. OwesAlone'
  <2>1. \A kind : ~Owing(p, kind)'
    BY <1>1 DEF Owing, Wrote, AdminPlaces
  <2>2. ASSUME NEW q \in Process, q # p
        PROVE  Target(q)' = Target(q) /\ \A kind : Owing(q, kind)' <=> Owing(q, kind)
    BY <1>2, <2>2 DEF Target, Owing, Wrote
  <2>3. QED
    BY <1>1, <2>1, <2>2 DEF AuditInv, OwesAlone
<1>6. RowsComplete'
  BY <1>1, <1>2 DEF AuditInv, RowsComplete, HasRow, Deleted
<1>7. QED
  BY <1>3, <1>4, <1>5, <1>6 DEF AuditInv

\* A commit brings what was done and its row together.
LEMMA AuditCommit ==
    ASSUME Shape, WorkInv, AuditInv, NEW p \in Process, Elsewhere(p), Commit(p),
           transactional
    PROVE  AuditInv'
<1>1. /\ pc[p] = "committing" /\ op' = op /\ transactional'
      /\ db'.created = db.created \cup buf[p].created
      /\ db'.deleted = db.deleted \cup buf[p].deleted
      /\ db'.issued = db.issued \cup buf[p].issued
      /\ db'.revoked = db.revoked \cup buf[p].revoked
      /\ db'.audit = db.audit \cup buf[p].audit
  BY CommitEffect DEF transactional
<1>2. BufferedAt(p) /\ RowAt(p) /\ DoneAt(p) /\ AloneAt(p)
  BY DEF WorkInv, OwnAt
<1>3. pc[p] \in Past /\ pc[p] \in AdminPlaces
  BY <1>1 DEF Past, AdminPlaces
<1>4. PICK row : row = Row(p)
  OBVIOUS
<1>5. row[1] = op[p].kind /\ row[2] = Target(p) /\ row \in buf[p].audit
  BY <1>1, <1>2, <1>4, RowFields DEF RowAt
<1>6. \A r \in buf[p].audit : r = row
  BY <1>2, <1>4 DEF BufferedAt
<1>7. row \in db'.audit /\ \A r \in db'.audit : r \in db.audit \/ r = row
  BY <1>1, <1>5, <1>6
<1>8. RowTrue(row)'
  BY <1>3, <1>4, RowComesTrue
<1>9. \A r \in db'.audit : RowTrue(r)'
  BY <1>7, <1>8, RowStaysTrue DEF AuditInv
<1>10. ASSUME NEW s \in db.audit, s[1] = row[1], s[2] = row[2], row[1] \in Once
       PROVE  FALSE
  <2>1. RowTrue(s)
    BY DEF AuditInv
  <2>2. CASE op[p].kind = "create"
    <3>1. Target(p) \in buf[p].created
      BY <1>1, <1>2, <1>3, <2>2, TargetIs DEF DoneAt, Wrote
    <3>2. QED
      BY <1>2, <1>5, <1>10, <2>1, <2>2, <3>1 DEF AloneAt, RowTrue
  <2>3. CASE op[p].kind = "delete"
    <3>1. <<op[p].ref, p>> \in buf[p].deleted /\ Target(p) = op[p].ref
      BY <1>1, <1>2, <1>3, <2>3, TargetIs DEF DoneAt, Wrote, Holding
    <3>2. \A d \in buf[p].deleted : ~Deleted(d[1])
      BY <1>2 DEF AloneAt
    <3>3. PICK d \in buf[p].deleted : d[1] = op[p].ref
      BY <3>1
    <3>4. ~Deleted(op[p].ref)
      BY <3>2, <3>3
    <3>5. QED
      BY <1>5, <1>10, <2>1, <2>3, <3>1, <3>4 DEF RowTrue
  <2>4. CASE op[p].kind = "revokeKey"
    <3>1. Target(p) \in buf[p].revoked
      BY <1>1, <1>2, <1>3, <2>4, TargetIs DEF DoneAt, Wrote
    <3>2. QED
      BY <1>2, <1>5, <1>10, <2>1, <2>4, <3>1 DEF AloneAt, RowTrue
  <2>5. QED
    BY <1>5, <1>10, <2>2, <2>3, <2>4 DEF Once
<1>11. RowsOnce'
  <2>1. ASSUME NEW kind \in Once, NEW r \in db'.audit, NEW s \in db'.audit,
               r[1] = kind, s[1] = kind, r[2] = s[2]
        PROVE  r = s
    <3>1. CASE r \in db.audit /\ s \in db.audit
      BY <2>1, <3>1 DEF AuditInv, RowsOnce
    <3>2. CASE r \notin db.audit \/ s \notin db.audit
      BY <1>7, <1>10, <2>1, <3>2
    <3>3. QED
      BY <3>1, <3>2
  <2>2. QED
    BY <2>1 DEF RowsOnce
<1>12. OwesAlone'
  BY <1>1 DEF OwesAlone, Owing
<1>13. RowsComplete'
  <2>1. ASSUME NEW ref \in db'.created PROVE HasRow("create", ref)'
    <3>1. CASE ref \in db.created
      BY <1>1, <3>1 DEF AuditInv, RowsComplete, HasRow
    <3>2. CASE ref \in buf[p].created
      <4>1. op[p].kind = "create" /\ Target(p) = ref
        BY <1>2, <1>3, <3>2, TargetIs DEF BufferedAt
      <4>2. QED
        BY <1>5, <1>7, <4>1 DEF HasRow
    <3>3. QED
      BY <1>1, <3>1, <3>2
  <2>2. ASSUME NEW d \in db'.deleted PROVE \E r \in db'.audit : r[1] = "delete" /\ r[2] = d[1]
    <3>1. CASE d \in db.deleted
      BY <1>1, <3>1 DEF AuditInv, RowsComplete, HasRow
    <3>2. CASE d \in buf[p].deleted
      <4>1. op[p].kind = "delete" /\ d = <<op[p].ref, p>>
        BY <1>2, <3>2 DEF BufferedAt
      <4>2. d[1] = op[p].ref /\ Target(p) = op[p].ref
        BY <1>3, <4>1, TargetIs
      <4>3. QED
        BY <1>5, <1>7, <4>1, <4>2
    <3>3. QED
      BY <1>1, <3>1, <3>2
  <2>3. ASSUME NEW i \in db'.issued PROVE \E r \in db'.audit : r[1] = "issueKey" /\ r[2] = i[1]
    <3>1. CASE i \in db.issued
      BY <1>1, <3>1 DEF AuditInv, RowsComplete, HasRow
    <3>2. CASE i \in buf[p].issued
      <4>1. op[p].kind = "issueKey" /\ i = <<op[p].tail, op[p].ref, p>>
        BY <1>2, <3>2 DEF BufferedAt
      <4>2. i[1] = op[p].tail /\ Target(p) = op[p].tail
        BY <1>3, <4>1, TargetIs DEF Wrote
      <4>3. QED
        BY <1>5, <1>7, <4>1, <4>2
    <3>3. QED
      BY <1>1, <3>1, <3>2
  <2>4. ASSUME NEW k \in db'.revoked
        PROVE  \/ HasRow("revokeKey", k)'
               \/ \E i \in db'.issued : i[1] = k /\ \E d \in db'.deleted : d[1] = i[2]
    <3>1. CASE k \in db.revoked
      BY <1>1, <3>1 DEF AuditInv, RowsComplete, HasRow, Deleted
    <3>2. CASE k \in buf[p].revoked /\ op[p].kind = "revokeKey"
      <4>1. Target(p) = k
        BY <1>2, <1>3, <3>2, TargetIs DEF BufferedAt
      <4>2. QED
        BY <1>5, <1>7, <3>2, <4>1 DEF HasRow
    <3>3. CASE k \in buf[p].revoked /\ op[p].kind = "delete"
      <4>1. PICK i \in db.issued : i[1] = k /\ i[2] = op[p].ref
        BY <1>2, <3>3 DEF BufferedAt
      <4>2. <<op[p].ref, p>> \in buf[p].deleted
        BY <1>1, <1>2, <3>3 DEF DoneAt, Wrote, Holding
      <4>3. \E d \in db'.deleted : d[1] = op[p].ref
        BY <1>1, <4>2
      <4>4. QED
        BY <1>1, <4>1, <4>3
    <3>4. QED
      BY <1>1, <1>2, <3>1, <3>2, <3>3 DEF BufferedAt
  <2>5. QED
    BY <2>1, <2>2, <2>3, <2>4 DEF RowsComplete, HasRow, Deleted
<1>14. QED
  BY <1>9, <1>11, <1>12, <1>13 DEF AuditInv

\* Without transactions: nobody owes or has a row for what is not there yet.
LEMMA NotOwed ==
    ASSUME Shape, WorkInv, AuditInv, ~transactional, NEW kind \in Once, NEW t,
           kind = "create" => t \notin db.created,
           kind = "delete" => ~Deleted(t),
           kind = "revokeKey" => t \notin db.revoked
    PROVE  /\ \A r \in db.audit : r[1] = kind => r[2] # t
           /\ \A q \in Process : Owing(q, kind) => Target(q) # t
<1>1. \A r \in db.audit : r[1] = kind => r[2] # t
  BY DEF AuditInv, RowTrue, Once
<1>2. ASSUME NEW q \in Process, Owing(q, kind), Target(q) = t PROVE FALSE
  <2>1. pc[q] \in {"auditing", "revoking"} /\ op[q].kind = kind /\ DoneAt(q)
    BY <1>2 DEF Owing, Wrote, WorkInv, OwnAt
  <2>2. pc[q] \in AdminPlaces
    BY <2>1 DEF AdminPlaces
  <2>3. CASE kind = "create"
    BY <1>2, <2>1, <2>2, <2>3, TargetIs DEF DoneAt, Wrote, Past
  <2>4. CASE kind = "delete"
    <3>1. <<op[q].ref, q>> \in db.deleted /\ t = op[q].ref
      BY <1>2, <2>1, <2>2, <2>4, TargetIs DEF DoneAt, Wrote, Holding
    <3>2. \E d \in db.deleted : d[1] = t
      BY <3>1
    <3>3. QED
      BY <2>4, <3>2 DEF Deleted
  <2>5. CASE kind = "revokeKey"
    BY <1>2, <2>1, <2>2, <2>5, TargetIs DEF DoneAt, Wrote, Past
  <2>6. QED
    BY <2>3, <2>4, <2>5 DEF Once
<1>3. QED
  BY <1>1, <1>2

\* A step that writes no row only has to say what its request owes now.
LEMMA AuditOwing ==
    ASSUME Shape, WorkInv, AuditInv, NEW p \in Process, Elsewhere(p), ~transactional,
           db'.audit = db.audit,
           \A kind \in Once : Owing(p, kind)' =>
               \/ Owing(p, kind) /\ Target(p)' = Target(p)
               \/ /\ \A r \in db.audit : r[1] = kind => r[2] # Target(p)'
                  /\ \A q \in Process : Owing(q, kind) => Target(q) # Target(p)'
    PROVE  AuditInv'
<1>1. /\ \A q \in Process \ {p} : pc'[q] = pc[q] /\ op'[q] = op[q]
      /\ ~transactional'
  BY DEF Elsewhere, transactional
<1>2. \A r \in db'.audit : RowTrue(r)'
  BY RowStaysTrue DEF AuditInv
<1>3. RowsOnce'
  BY DEF AuditInv, RowsOnce
<1>4. ASSUME NEW q \in Process, q # p
      PROVE  Target(q)' = Target(q) /\ \A kind : Owing(q, kind)' <=> Owing(q, kind)
  BY <1>1, <1>4 DEF Target, Owing, Wrote
<1>5. OwesAlone'
  <2>1. ASSUME NEW q \in Process, NEW kind \in Once, Owing(q, kind)'
        PROVE  \A r \in db'.audit : r[1] = kind => r[2] # Target(q)'
    BY <1>4, <2>1 DEF AuditInv, OwesAlone
  <2>2. ASSUME NEW q \in Process, NEW s \in Process, NEW kind \in Once,
               Owing(q, kind)', Owing(s, kind)', Target(s)' = Target(q)'
        PROVE  s = q
    <3>1. CASE q # p /\ s # p
      BY <1>4, <2>2, <3>1 DEF AuditInv, OwesAlone
    <3>2. CASE q = p /\ s # p
      BY <1>4, <2>2, <3>2 DEF AuditInv, OwesAlone
    <3>3. CASE q # p /\ s = p
      BY <1>4, <2>2, <3>3 DEF AuditInv, OwesAlone
    <3>4. QED
      BY <3>1, <3>2, <3>3
  <2>3. QED
    BY <2>1, <2>2 DEF OwesAlone
<1>6. RowsComplete'
  BY <1>1 DEF RowsComplete
<1>7. QED
  BY <1>2, <1>3, <1>5, <1>6 DEF AuditInv

\* The steps of the admin routes keep their audit rows true and complete.
LEMMA AuditAdmin ==
    ASSUME Shape, WorkInv, AuditInv, NEW p \in Process, AdminMove(p)
    PROVE  AuditInv'
<1>1. Elsewhere(p) /\ pc'[p] \in AdminPlaces \cup Over
  BY AdminFrames DEF AdminFrame
<1>2. /\ \A q \in Process \ {p} : pc'[q] = pc[q] /\ op'[q] = op[q]
      /\ (transactional' <=> transactional)
  BY <1>1 DEF Elsewhere, transactional
<1>3. CASE transactional /\ Commit(p)
  BY <1>1, <1>3, AuditCommit
<1>4. CASE transactional /\ ~Commit(p)
  <2>1. db' = db
    BY <1>4, AdminCases DEF AdminCase, DidEnter, DidCheck, DidFail, DidCreate, DidPatch,
       DidDelete, DidRevokeAll, DidIssue, DidRevoke, DidAudit, Statement
  <2>2. OwesAlone'
    BY <1>2, <1>4 DEF OwesAlone, Owing
  <2>3. QED
    BY <1>2, <2>1, <2>2 DEF AuditInv, RowTrue, RowsOnce, RowsComplete, HasRow, Deleted
<1>5. CASE ~transactional /\ ~DidAudit(p)
  <2>1. db'.audit = db.audit
    <3>1. \A r \in db'.audit : r \in db.audit
      BY <1>5, AddsRow
    <3>2. db.audit \subseteq db'.audit
      BY <1>1 DEF Elsewhere, Grows
    <3>3. QED
      BY <3>1, <3>2
  <2>2. ASSUME NEW kind \in Once, Owing(p, kind)'
        PROVE  \/ Owing(p, kind) /\ Target(p)' = Target(p)
               \/ /\ \A r \in db.audit : r[1] = kind => r[2] # Target(p)'
                  /\ \A q \in Process : Owing(q, kind) => Target(q) # Target(p)'
    <3>1. pc'[p] \in {"auditing", "revoking"} /\ op'[p].kind = kind
      BY <2>2 DEF Owing, Wrote
    <3>2. DidCreate(p) \/ DidDelete(p) \/ DidRevokeAll(p) \/ DidRevoke(p)
      <4>1. pc'[p] \notin Over
        BY <3>1 DEF Over
      <4>2. ~DidEnter(p) /\ ~DidCheck(p) /\ ~DidFail(p) /\ ~Commit(p)
        BY <3>1, <4>1, CommitEffect DEF DidEnter, DidCheck, DidFail
      <4>3. ~DidPatch(p) /\ ~DidIssue(p)
        BY <3>1 DEF DidPatch, DidIssue, Goes, Once
      <4>4. QED
        BY <1>5, <4>2, <4>3, AdminCases DEF AdminCase
    <3>3. op' = op
      BY <3>2 DEF DidCreate, DidDelete, DidRevokeAll, DidRevoke
    <3>4. Target(p)' = Target(p)
      BY <3>3 DEF Target
    <3>5. CASE DidRevokeAll(p)
      <4>1. pc[p] = "revoking"
        BY <3>5 DEF DidRevokeAll
      <4>2. Owing(p, kind)
        BY <1>5, <3>1, <3>3, <4>1 DEF Owing, Wrote
      <4>3. QED
        BY <3>4, <4>2
    <3>6. CASE DidCreate(p) \/ DidDelete(p) \/ DidRevoke(p)
      <4>1. pc[p] = "mutating" /\ op[p].kind = kind
        BY <3>1, <3>3, <3>6 DEF DidCreate, DidDelete, DidRevoke, Goes
      <4>2. pc[p] \in AdminPlaces
        BY <4>1 DEF AdminPlaces
      <4>3. /\ kind = "create" => Target(p) \notin db.created
            /\ kind = "delete" => ~Deleted(Target(p))
            /\ kind = "revokeKey" => Target(p) \notin db.revoked
        <5>1. /\ kind \in {"create", "delete"} => Target(p) = op[p].ref
              /\ kind = "revokeKey" => Target(p) = op[p].tail
          BY <4>1, <4>2, TargetIs
        <5>2. CASE DidCreate(p)
          BY <4>1, <5>1, <5>2 DEF DidCreate, Goes
        <5>3. CASE DidDelete(p)
          <6>1. kind = "delete" /\ ~Deleted(op[p].ref)
            BY <4>1, <5>3 DEF DidDelete, Goes
          <6>2. QED
            BY <5>1, <6>1
        <5>4. CASE DidRevoke(p)
          BY <4>1, <5>1, <5>4 DEF DidRevoke, Goes, LiveKeys, Revoked
        <5>5. QED
          BY <3>6, <5>2, <5>3, <5>4
      <4>4. /\ \A r \in db.audit : r[1] = kind => r[2] # Target(p)
            /\ \A q \in Process : Owing(q, kind) => Target(q) # Target(p)
        BY <1>5, <4>3, NotOwed
      <4>5. QED
        BY <3>4, <4>4
    <3>7. QED
      BY <3>2, <3>5, <3>6
  <2>3. QED
    BY <1>1, <1>5, <2>1, <2>2, AuditOwing
<1>6. CASE ~transactional /\ DidAudit(p)
  <2>1. /\ pc[p] = "auditing" /\ pc'[p] = "committing" /\ op' = op
        /\ db'.audit = db.audit \cup {Row(p)}
    BY <1>6 DEF DidAudit, Statement
  <2>2. PICK row : row = Row(p)
    OBVIOUS
  <2>3. row[1] = op[p].kind /\ row[2] = Target(p)
    BY <2>2, RowFields
  <2>4. row \in db'.audit /\ \A r \in db'.audit : r \in db.audit \/ r = row
    BY <2>1, <2>2
  <2>5. RowTrue(row)'
    BY <1>1, <1>6, <2>1, <2>2, RowComesTrue DEF Past
  <2>6. \A r \in db'.audit : RowTrue(r)'
    BY <1>1, <2>4, <2>5, RowStaysTrue DEF AuditInv
  <2>7. Owing(p, op[p].kind)
    BY <1>6, <2>1 DEF Owing, Wrote
  <2>8. ASSUME NEW s \in db.audit, s[1] = row[1], s[2] = row[2], row[1] \in Once
        PROVE  FALSE
    BY <2>3, <2>7, <2>8 DEF AuditInv, OwesAlone
  <2>9. RowsOnce'
    <3>1. ASSUME NEW kind \in Once, NEW r \in db'.audit, NEW s \in db'.audit,
                 r[1] = kind, s[1] = kind, r[2] = s[2]
          PROVE  r = s
      <4>1. CASE r \in db.audit /\ s \in db.audit
        BY <3>1, <4>1 DEF AuditInv, RowsOnce
      <4>2. CASE r \notin db.audit \/ s \notin db.audit
        BY <2>4, <2>8, <3>1, <4>2
      <4>3. QED
        BY <4>1, <4>2
    <3>2. QED
      BY <3>1 DEF RowsOnce
  <2>10. OwesAlone'
    <3>1. \A kind : ~Owing(p, kind)'
      BY <2>1 DEF Owing, Wrote
    <3>2. ASSUME NEW q \in Process, q # p
          PROVE  Target(q)' = Target(q) /\ \A kind : Owing(q, kind)' <=> Owing(q, kind)
      BY <1>2, <3>2 DEF Target, Owing, Wrote
    <3>3. ASSUME NEW q \in Process, NEW kind \in Once, Owing(q, kind)'
          PROVE  \A r \in db'.audit : r[1] = kind => r[2] # Target(q)'
      <4>1. q # p /\ Owing(q, kind) /\ Target(q)' = Target(q)
        BY <3>1, <3>2, <3>3
      <4>2. ~(row[1] = kind /\ row[2] = Target(q))
        BY <2>3, <2>7, <4>1 DEF AuditInv, OwesAlone
      <4>3. \A r \in db.audit : r[1] = kind => r[2] # Target(q)
        BY <4>1 DEF AuditInv, OwesAlone
      <4>4. QED
        BY <2>4, <4>1, <4>2, <4>3
    <3>4. ASSUME NEW q \in Process, NEW s \in Process, NEW kind \in Once,
                 Owing(q, kind)', Owing(s, kind)', Target(s)' = Target(q)'
          PROVE  s = q
      BY <3>1, <3>2, <3>4 DEF AuditInv, OwesAlone
    <3>5. QED
      BY <3>3, <3>4 DEF OwesAlone
  <2>11. RowsComplete'
    BY <1>2, <1>6 DEF RowsComplete
  <2>12. QED
    BY <2>6, <2>9, <2>10, <2>11 DEF AuditInv
<1>7. QED
  BY <1>3, <1>4, <1>5, <1>6

\* There is no row at first.
LEMMA AuditInit == Init => AuditInv
<1> SUFFICES ASSUME Init PROVE AuditInv
  OBVIOUS
<1>1. \A p \in Process : pc[p] = "idle"
  BY DEF Init, AdminInit
<1>2. PICK ref, tail : db = Founded(ref, tail)
  BY DEF Init, AdminInit
<1>3. PICK made, keyed : /\ made = <<"create", ref, None, None>>
                         /\ keyed = <<"issueKey", tail, None, None>>
  OBVIOUS
<1>4. /\ made[1] = "create" /\ made[2] = ref
      /\ keyed[1] = "issueKey" /\ keyed[2] = tail
  BY <1>3
<1>5. /\ db.created = {ref} /\ db.issued = {<<tail, ref, None>>}
      /\ db.deleted = {} /\ db.revoked = {} /\ db.audit = {made, keyed}
  BY <1>2, <1>3 DEF Founded, Nothing
<1>6. \A i \in db.issued : i[1] = tail
  BY <1>5
<1>7. \A r \in db.audit : RowTrue(r)
  BY <1>4, <1>5 DEF RowTrue
<1>8. RowsOnce
  BY <1>4, <1>5 DEF RowsOnce, Once
<1>9. OwesAlone
  BY <1>1 DEF OwesAlone, Owing, Wrote
<1>10. RowsComplete
  BY <1>4, <1>5, <1>6 DEF RowsComplete, HasRow
<1>11. QED
  BY <1>7, <1>8, <1>9, <1>10 DEF AuditInv

\* The audit log is true in every behaviour.
LEMMA AuditInvariance == Spec => [](Shape /\ WorkInv /\ AuditInv)
<1>1. ASSUME Shape, WorkInv, AuditInv, [Next]_vars PROVE AuditInv'
  <2>1. CASE Still
    BY <1>1, <2>1 DEF Still, AuditInv, RowTrue, RowsOnce, OwesAlone, Owing, Wrote, Target,
       RowsComplete, HasRow, Deleted, transactional
  <2>2. QED
    BY <1>1, <2>1, StepKinds, AuditForeign, AuditAdmin
<1>2. QED
  BY <1>1, AuditInit, WorkInvariance, PTL DEF Spec

\* No audit row is written for what did not happen, nor twice for what happened
\* once; and with transactions whatever happened has its row.
THEOREM AuditIsTrue == Spec => []AuditMatches
<1>1. Shape /\ WorkInv /\ AuditInv => AuditMatches
  <2> SUFFICES ASSUME Shape, WorkInv, AuditInv PROVE AuditMatches
    OBVIOUS
  <2>1. ASSUME NEW kind \in Once, NEW t PROVE Cardinality(Rows(kind, t)) <= 1
    <3>1. CASE Rows(kind, t) = {}
      BY <3>1, FS_EmptySet
    <3>2. CASE Rows(kind, t) # {}
      <4>1. PICK r : r \in Rows(kind, t)
        BY <3>2
      <4>2. \A s \in Rows(kind, t) : s = r
        BY <4>1 DEF Rows, AuditInv, RowsOnce
      <4>3. Rows(kind, t) = {r}
        BY <4>1, <4>2
      <4>4. Cardinality({r}) = 1
        BY FS_Singleton
      <4>5. QED
        BY <4>3, <4>4
    <3>3. QED
      BY <3>1, <3>2
  <2>2. \A kind, t : Rows(kind, t) # {} <=> HasRow(kind, t)
    BY DEF Rows, HasRow
  <2>3. \A ref \in Refs : IsLive(ref) <=> ref \in db.created /\ ~Deleted(ref)
    BY DEF IsLive, Deleted
  <2>4. ASSUME NEW ref \in Refs
        PROVE  /\ Rows("create", ref) # {} => ref \in db.created
               /\ Rows("delete", ref) # {} => ~IsLive(ref)
               /\ Cardinality(Rows("create", ref)) <= 1
               /\ Cardinality(Rows("delete", ref)) <= 1
               /\ transactional =>
                    /\ ref \in db.created => Rows("create", ref) # {}
                    /\ ref \in db.created /\ ~IsLive(ref) => Rows("delete", ref) # {}
    <3>1. /\ HasRow("create", ref) => ref \in db.created
          /\ HasRow("delete", ref) => Deleted(ref)
      BY DEF AuditInv, HasRow, RowTrue
    <3>2. transactional => /\ ref \in db.created => HasRow("create", ref)
                           /\ Deleted(ref) => HasRow("delete", ref)
      BY DEF AuditInv, RowsComplete, Deleted
    <3>3. /\ Cardinality(Rows("create", ref)) <= 1
          /\ Cardinality(Rows("delete", ref)) <= 1
      BY <2>1 DEF Once
    <3>4. QED
      BY <2>2, <2>3, <3>1, <3>2, <3>3
  <2>5. ASSUME NEW k \in Tails
        PROVE  /\ Rows("revokeKey", k) # {} => k \in Revoked
               /\ Cardinality(Rows("revokeKey", k)) <= 1
               /\ transactional =>
                    /\ \A i \in db.issued : i[1] = k => Rows("issueKey", k) # {}
                    /\ k \in Revoked => \/ Rows("revokeKey", k) # {}
                                        \/ \E i \in db.issued : i[1] = k /\ ~IsLive(i[2])
    <3>1. HasRow("revokeKey", k) => k \in Revoked
      BY DEF AuditInv, HasRow, RowTrue, Revoked
    <3>2. ASSUME transactional
          PROVE  /\ \A i \in db.issued : i[1] = k => HasRow("issueKey", k)
                 /\ k \in Revoked => \/ HasRow("revokeKey", k)
                                     \/ \E i \in db.issued : i[1] = k /\ Deleted(i[2])
      BY <3>2 DEF AuditInv, RowsComplete, Revoked
    <3>3. \A i \in db.issued : Deleted(i[2]) => ~IsLive(i[2])
      BY DEF IsLive, Deleted
    <3>4. Cardinality(Rows("revokeKey", k)) <= 1
      BY <2>1 DEF Once
    <3>5. QED
      BY <2>2, <3>1, <3>2, <3>3, <3>4
  <2>6. QED
    BY <2>4, <2>5 DEF AuditMatches
<1>2. QED
  BY <1>1, AuditInvariance, PTL

-----------------------------------------------------------------------------
(* Type correctness. *)

Typed ==
    /\ \A p \in Process : locks[p] \subseteq Refs \cup Tails
    /\ cancelled \subseteq Refs \cup {None}

\* The admin routes lock the rows of tenants and keys.
LEMMA TypedAdmin ==
    ASSUME Shape, WorkInv, Typed, NEW p \in Process, AdminMove(p)
    PROVE  Typed'
<1>1. /\ Elsewhere(p) /\ cancelled' = cancelled
  BY AdminFrames DEF AdminFrame
<1>2. \A q \in Process \ {p} : locks'[q] = locks[q]
  BY <1>1 DEF Elsewhere
<1>3. ASSUME NEW rows \in SUBSET (Refs \cup Tails), NEW c, NEW d, NEW i, NEW r, NEW a,
             Statement(p, c, d, i, r, a, rows)
      PROVE  locks'[p] \subseteq Refs \cup Tails
  BY <1>3 DEF Statement, Typed
<1>4. pc[p] \in AdminPlaces => op[p].ref \in Refs
  BY DEF Shape, Fits, AdminOp
<1>5. locks'[p] \subseteq Refs \cup Tails
  <2>1. CASE DidEnter(p) \/ DidCheck(p)
    BY <2>1 DEF DidEnter, DidCheck, Typed
  <2>2. CASE DidFail(p)
    BY <2>2 DEF DidFail
  <2>3. CASE Commit(p)
    BY <2>3, CommitEffect
  <2>4. CASE DidCreate(p)
    <3>1. {op[p].ref} \in SUBSET (Refs \cup Tails)
      BY <1>4, <2>4 DEF DidCreate, Goes, AdminPlaces
    <3>2. QED
      BY <1>3, <2>4, <3>1 DEF DidCreate
  <2>5. CASE DidPatch(p)
    <3>1. {op[p].ref} \in SUBSET (Refs \cup Tails)
      BY <1>4, <2>5 DEF DidPatch, Goes, AdminPlaces
    <3>2. QED
      BY <1>3, <2>5, <3>1 DEF DidPatch
  <2>6. CASE DidDelete(p)
    <3>1. {op[p].ref} \in SUBSET (Refs \cup Tails)
      BY <1>4, <2>6 DEF DidDelete, Goes, AdminPlaces
    <3>2. QED
      BY <1>3, <2>6, <3>1 DEF DidDelete
  <2>7. CASE DidRevokeAll(p)
    <3>1. LiveKeys(op[p].ref) \in SUBSET (Refs \cup Tails)
      BY DEF LiveKeys, Issued
    <3>2. QED
      BY <1>3, <2>7, <3>1 DEF DidRevokeAll
  <2>8. CASE DidIssue(p)
    <3>1. {op'[p].tail} \in SUBSET (Refs \cup Tails)
      BY <2>8 DEF DidIssue
    <3>2. QED
      BY <1>3, <2>8, <3>1 DEF DidIssue
  <2>9. CASE DidRevoke(p)
    <3>1. {op[p].tail} \in SUBSET (Refs \cup Tails)
      BY <2>9 DEF DidRevoke, LiveKeys, Issued
    <3>2. QED
      BY <1>3, <2>9, <3>1 DEF DidRevoke
  <2>10. CASE DidAudit(p)
    BY <1>3, <2>10 DEF DidAudit
  <2>11. QED
    BY <2>1, <2>2, <2>3, <2>4, <2>5, <2>6, <2>7, <2>8, <2>9, <2>10, AdminCases
       DEF AdminCase
<1>6. QED
  BY <1>1, <1>2, <1>5 DEF Typed

\* The other routes lock nothing and cancel what a request may name.
LEMMA TypedForeign ==
    ASSUME Shape, Typed, NEW p \in Process, Foreign(p), OnboardMove(p) \/ TenantMove(p)
    PROVE  Typed'
<1>1. locks' = locks
  BY DEF Foreign
<1>2. cancelled' \subseteq Refs \cup {None}
  <2>1. CASE OnboardMove(p)
    BY <2>1 DEF OnboardMove, Typed
  <2>2. CASE cancelInvoice(p)
    <3>1. op[p].ref \in Refs
      BY <2>2 DEF cancelInvoice, Shape, Fits, TenantKinds, TenantOp
    <3>2. QED
      BY <2>2, <3>1 DEF cancelInvoice, Typed
  <2>3. CASE TenantMove(p) /\ ~cancelInvoice(p)
    <3>1. cancelled' = cancelled
      BY <2>3 DEF TenantMove, TenantStep, TenantRequest, ReadKeys, verify, authTenant,
         loadInvoice, Ask, updateInvoiceStatus, auditCancelled, TenantThrows, Same
    <3>2. QED
      BY <3>1 DEF Typed
  <2>4. QED
    BY <2>1, <2>2, <2>3
<1>3. QED
  BY <1>1, <1>2 DEF Typed

\* The tables hold what they are for, and a unit of work that ended, by commit,
\* rollback or a lost answer, keeps neither writes nor locked rows.
THEOREM TypeCorrect == Spec => []TypeOK
<1>1. Init => Typed
  BY DEF Init, AdminInit, Typed
<1>2. ASSUME Shape, WorkInv, Typed, [Next]_vars PROVE Typed'
  <2>1. CASE Still
    BY <1>2, <2>1 DEF Still, Typed
  <2>2. QED
    BY <1>2, <2>1, StepKinds, TypedForeign, TypedAdmin
<1>3. ASSUME Shape, WorkInv, CancelInv, Typed PROVE TypeOK
  <2>1. db.created \subseteq Refs /\ db.revoked \subseteq Tails
    BY <1>3 DEF WorkInv, Tables
  <2>2. ASSUME NEW p \in Process, ~transactional \/ ~Running(p)
        PROVE  buf[p] = Nothing /\ locks[p] = {}
    <3>1. ~(transactional /\ pc[p] \in Holding)
      BY <2>2 DEF Running, Ended, Holding
    <3>2. QED
      BY <1>3, <3>1 DEF WorkInv, OwnAt, BufferedAt, Clean
  <2>3. ASSUME NEW p \in Process, Running(p)
        PROVE  op[p].kind \in AdminKinds \cup OnboardKinds \cup TenantKinds
    <3>1. Fits(p) /\ pc[p] # "idle" /\ pc[p] \notin Over
      BY <1>3, <2>3 DEF Shape, Running, Ended, Over
    <3>2. QED
      BY <3>1 DEF Fits, Places
  <2>4. /\ record \in [Refs -> {None, "accepted", "cancelled"}]
    BY <1>3 DEF CancelInv
  <2>5. QED
    BY <1>3, <2>1, <2>2, <2>3, <2>4 DEF TypeOK, Typed
<1>4. QED
  BY <1>1, <1>2, <1>3, WorkInvariance, CancelInvariance, PTL DEF Spec

=============================================================================
