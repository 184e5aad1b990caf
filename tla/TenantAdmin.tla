---------------------------- MODULE TenantAdmin ----------------------------
(***************************************************************************)
(* The admin routes that manage tenants and their API keys, and the unit   *)
(* of work they run in, statement by statement.                            *)
(*                                                                         *)
(* What the registry holds only grows: a tenant is created and deleted     *)
(* once, a key is issued and revoked once, an audit row is never removed.  *)
(* The database is therefore a record of sets, and so are the writes of an *)
(* open transaction, which nobody else sees (READ COMMITTED) but whose     *)
(* rows nobody else can write.  Without transactions (the memory and plain *)
(* Mongo backends) every write is visible at once and stays.               *)
(*                                                                         *)
(* Each process handles one request; a client's retry is another one.      *)
(***************************************************************************)
EXTENDS Integers, FiniteSets

CONSTANTS Process,    \* requests
          Refs,       \* tenantRefs
          Tails,      \* the random part, and id, of an API key
          AdminKeys,  \* ZATCA_SERVER_ADMIN_KEYS, a sequence of [label, key]
          Presented,  \* what admins may present in the Authorization header
          Deployments,\* [transactional, capacity]: whether withUnitOfWork opens
                      \* a transaction, and the cap on onboarding requests
          None        \* no header, no key, no label

VARIABLES deployment,      \* one of Deployments
          db,              \* what is committed
          buf,             \* process -> the writes of its open transaction
          locks,           \* process -> the rows its transaction has written
          op,              \* process -> the request it handles
          pc,              \* process -> where its handler is
          overlap,         \* history: pairs of requests that ran concurrently
          barred           \* history: requests that came after the revocation
                           \* of their key or the deletion of their tenant

adminVars == <<deployment, db, buf, locks, op, pc, overlap, barred>>

transactional == deployment.transactional

Nothing == [created |-> {}, deleted |-> {}, issued |-> {}, revoked |-> {},
            audit |-> {}]

Ended == {"idle", "done", "failed"}
Running(p) == pc[p] \notin Ended

IsLive(ref)     == ref \in db.created /\ ~ \E d \in db.deleted : d[1] = ref
Issued(ref)     == {k \in Tails : \E i \in db.issued : i[1] = k /\ i[2] = ref}
Revoked         == db.revoked
LiveKeys(ref)   == Issued(ref) \ Revoked

\* The rows another transaction has written wait for its end.
Free(p, rows) == \A q \in Process \ {p} : locks[q] \cap rows = {}

-----------------------------------------------------------------------------
(***************************************************************************)
(* The admin keys: parsed once, and refused as a whole if one of them is   *)
(* too short or a label is repeated.  All entries are compared; the last   *)
(* match gives the label.                                                  *)
(***************************************************************************)
MinKeyLength == 32

ASSUME NoneAssumption == None \notin Tails

\* There is a tenant with a key to start from.
ASSUME FoundedAssumption == Refs # {} /\ Tails # {}

parseAdminKeys(entries) ==
    IF \/ entries = << >>
       \/ \E i \in DOMAIN entries : \/ entries[i].label = None
                                    \/ entries[i].key = None
                                    \/ entries[i].key.length < MinKeyLength
       \/ \E i, j \in DOMAIN entries :
            i # j /\ entries[i].label = entries[j].label
    THEN None
    ELSE entries

ASSUME AdminKeysAssumption == parseAdminKeys(AdminKeys) # None

\* extractBearer: the scheme is required.
extractBearer(header) == IF header.scheme = "Bearer" THEN header.key ELSE None

verifyHeader(header) ==
    LET match == {i \in DOMAIN AdminKeys :
                    /\ header # None
                    /\ extractBearer(header) = AdminKeys[i].key}
    IN  IF match = {} THEN None
        ELSE AdminKeys[CHOOSE i \in match : \A j \in match : j <= i].label

-----------------------------------------------------------------------------
Union(a, b) == [f \in DOMAIN Nothing |-> a[f] \cup b[f]]

\* A statement of the unit of work, on the rows it writes.
Write(p, writes, rows) ==
    IF transactional
    THEN /\ Free(p, rows)
         /\ buf' = [buf EXCEPT ![p] = Union(@, writes)]
         /\ locks' = [locks EXCEPT ![p] = @ \cup rows]
         /\ UNCHANGED db
    ELSE /\ db' = Union(db, writes)
         /\ UNCHANGED <<buf, locks>>

GoTo(p, place) == pc' = [pc EXCEPT ![p] = place]

Rest == UNCHANGED <<deployment, op, overlap, barred>>

\* Whatever is thrown inside the callback rolls the transaction back.
Rollback_Leaks(p) == UNCHANGED <<db, buf, locks>>

Rollback(p) ==
    /\ buf' = [buf EXCEPT ![p] = Nothing]
    /\ locks' = [locks EXCEPT ![p] = {}]
    /\ UNCHANGED db

Throw(p) == Rollback(p) /\ GoTo(p, "failed") /\ Rest

\* The request arrives; those that are running overlap with it.
Begin(p, request, place) ==
    /\ pc[p] = "idle"
    /\ op' = [op EXCEPT ![p] = request]
    /\ GoTo(p, place)
    /\ overlap' = overlap \cup
         UNION {{<<p, q>>, <<q, p>>} : q \in {r \in Process : Running(r)}}
    /\ UNCHANGED <<deployment, db, buf, locks>>

AdminKinds == {"create", "patch", "delete", "issueKey", "revokeKey"}

AdminRequests(label) ==
    [kind : {"create", "patch", "delete", "issueKey"}, ref : Refs, tail : {None},
     label : {label}]
      \cup [kind : {"revokeKey"}, ref : Refs, tail : Tails, label : {label}]

\* Bound: Tails has a fresh key for every request that issues one.
KeysLeft == Cardinality({p \in Process : op[p].kind = "issueKey"})
              < Cardinality(Tails) - 1

\* adminFor throws before anything is done, or yields the actor's label.
AdminRequest(p) ==
    /\ \E header \in Presented :
         IF verifyHeader(header) = None THEN Begin(p, op[p], "failed")
         ELSE \E request \in AdminRequests(verifyHeader(header)) :
                /\ request.kind = "issueKey" => KeysLeft
                /\ Begin(p, request, IF request.kind = "issueKey" THEN "checking"
                                     ELSE "mutating")
    /\ UNCHANGED barred

(***************************************************************************)
(* The first statement of each unit of work.                               *)
(***************************************************************************)
create(p) ==
    /\ pc[p] = "mutating" /\ op[p].kind = "create"
    /\ \/ /\ op[p].ref \notin db.created
          /\ Write(p, [Nothing EXCEPT !.created = {op[p].ref}], {op[p].ref})
          /\ GoTo(p, "auditing") /\ Rest
       \/ op[p].ref \in db.created /\ Throw(p)

patch(p) ==
    /\ pc[p] = "mutating" /\ op[p].kind = "patch"
    /\ \/ /\ IsLive(op[p].ref)
          /\ Write(p, Nothing, {op[p].ref})
          /\ GoTo(p, "auditing") /\ Rest
       \/ ~IsLive(op[p].ref) /\ Free(p, {op[p].ref}) /\ Throw(p)

softDelete(p) ==
    /\ pc[p] = "mutating" /\ op[p].kind = "delete"
    /\ \/ /\ IsLive(op[p].ref)
          /\ Write(p, [Nothing EXCEPT !.deleted = {<<op[p].ref, p>>}],
                   {op[p].ref})
          /\ GoTo(p, "revoking") /\ Rest
       \/ ~IsLive(op[p].ref) /\ Free(p, {op[p].ref}) /\ Throw(p)

\* Faulty variant: the deletion leaves the tenant's keys alone.
revokeAllForTenant_Skipped(p) ==
    /\ pc[p] = "revoking"
    /\ GoTo(p, "auditing") /\ Rest /\ UNCHANGED <<db, buf, locks>>

\* The keys that are committed and not revoked when the statement runs.
revokeAllForTenant(p) ==
    /\ pc[p] = "revoking"
    /\ Write(p, [Nothing EXCEPT !.revoked = LiveKeys(op[p].ref)],
             LiveKeys(op[p].ref))
    /\ GoTo(p, "auditing") /\ Rest

\* tenants.get, outside the unit of work that follows.
checkTenant(p) ==
    /\ pc[p] = "checking"
    /\ GoTo(p, IF IsLive(op[p].ref) THEN "mutating" ELSE "failed")
    /\ Rest /\ UNCHANGED <<db, buf, locks>>

Fresh == {k \in Tails : /\ \A i \in db.issued : i[1] # k
                        /\ \A q \in Process : \A i \in buf[q].issued : i[1] # k}

issue(p) ==
    /\ pc[p] = "mutating" /\ op[p].kind = "issueKey"
    /\ \E k \in Fresh :
         /\ Write(p, [Nothing EXCEPT !.issued = {<<k, op[p].ref, p>>}], {k})
         /\ op' = [op EXCEPT ![p].tail = k]
    /\ GoTo(p, "auditing")
    /\ UNCHANGED <<deployment, overlap, barred>>

\* Faulty variant: a key that is already revoked counts as revoked again.
revoke_Again(p) ==
    /\ pc[p] = "mutating" /\ op[p].kind = "revokeKey"
    /\ \/ /\ op[p].tail \in Issued(op[p].ref)
          /\ Write(p, [Nothing EXCEPT !.revoked = {op[p].tail}], {op[p].tail})
          /\ GoTo(p, "auditing") /\ Rest
       \/ /\ op[p].tail \notin Issued(op[p].ref)
          /\ Throw(p)

revoke(p) ==
    /\ pc[p] = "mutating" /\ op[p].kind = "revokeKey"
    /\ \/ /\ op[p].tail \in LiveKeys(op[p].ref)
          /\ Write(p, [Nothing EXCEPT !.revoked = {op[p].tail}], {op[p].tail})
          /\ GoTo(p, "auditing") /\ Rest
       \/ /\ op[p].tail \notin LiveKeys(op[p].ref) /\ Free(p, {op[p].tail})
          /\ Throw(p)

\* auditLog.write: the last statement of every unit of work.
Target(p) == IF op[p].tail # None THEN op[p].tail ELSE op[p].ref

auditWrite(p) ==
    /\ pc[p] = "auditing" /\ op[p].kind \in AdminKinds
    /\ Write(p, [Nothing EXCEPT !.audit =
                   {<<op[p].kind, Target(p), op[p].label, p>>}], {})
    /\ GoTo(p, "committing") /\ Rest

\* COMMIT, whose answer may be lost, or the end of the pass-through.
Commit(p) ==
    /\ pc[p] = "committing"
    /\ db' = Union(db, buf[p])
    /\ buf' = [buf EXCEPT ![p] = Nothing]
    /\ locks' = [locks EXCEPT ![p] = {}]
    /\ \/ GoTo(p, "done")
       \/ transactional /\ GoTo(p, "failed")
    /\ Rest

\* A query of the unit of work, or the check before it, fails.
QueryThrows(p) ==
    /\ op[p].kind \in AdminKinds
    /\ \/ pc[p] \in {"checking", "mutating", "revoking", "auditing"}
       \/ pc[p] = "committing" /\ transactional
    /\ Throw(p)

AdminStep(p) ==
    \/ create(p) \/ patch(p) \/ softDelete(p) \/ revokeAllForTenant(p)
    \/ checkTenant(p) \/ issue(p) \/ revoke(p) \/ auditWrite(p)
    \/ Commit(p)

\* A tenant with an issued key.
Founded(ref, tail) ==
    [Nothing EXCEPT !.created = {ref}, !.issued = {<<tail, ref, None>>},
                    !.audit = {<<"create", ref, None, None>>,
                               <<"issueKey", tail, None, None>>}]

AdminInit ==
    /\ deployment \in Deployments
    /\ db = Founded(CHOOSE ref \in Refs : TRUE, CHOOSE tail \in Tails : TRUE)
    /\ buf = [p \in Process |-> Nothing]
    /\ locks = [p \in Process |-> {}]
    /\ op = [p \in Process |-> [kind |-> "none"]]
    /\ pc = [p \in Process |-> "idle"]
    /\ overlap = {}
    /\ barred = {}

-----------------------------------------------------------------------------
(***************************************************************************)
(* Properties of the admin routes.                                         *)
(***************************************************************************)

\* A key of a deleted tenant is live only if the request that issued it and
\* the deletion ran concurrently (tenants.get is outside the unit of work), or
\* if, without transactions, the deletion failed half-way.
KeyOutlivesByOverlap ==
    \A i \in db.issued, d \in db.deleted :
        i[2] = d[1] /\ i[1] \notin Revoked =>
            \/ <<i[3], d[2]>> \in overlap
            \/ ~transactional /\ pc[d[2]] \in {"revoking", "failed"}

Rows(kind, target) ==
    {r \in db.audit : r[1] = kind /\ r[2] = target}

\* An audit row is never written for what did not happen, nor twice for what
\* happened once; and where the unit of work is a transaction, whatever
\* happened has its row.
AuditMatches ==
    /\ \A ref \in Refs :
         /\ Rows("create", ref) # {} => ref \in db.created
         /\ Rows("delete", ref) # {} => ~IsLive(ref)
         /\ Cardinality(Rows("create", ref)) <= 1
         /\ Cardinality(Rows("delete", ref)) <= 1
         /\ transactional =>
              /\ ref \in db.created => Rows("create", ref) # {}
              /\ ref \in db.created /\ ~IsLive(ref) => Rows("delete", ref) # {}
    /\ \A k \in Tails :
         /\ Rows("revokeKey", k) # {} => k \in Revoked
         /\ Cardinality(Rows("revokeKey", k)) <= 1
         /\ transactional =>
              /\ \A i \in db.issued : i[1] = k => Rows("issueKey", k) # {}
              /\ k \in Revoked => \/ Rows("revokeKey", k) # {}
                                  \/ \E i \in db.issued : i[1] = k /\ ~IsLive(i[2])

=============================================================================
