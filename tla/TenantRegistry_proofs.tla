----------------------- MODULE TenantRegistry_proofs -----------------------
(***************************************************************************)
(* Proofs about the registries (module TenantRegistry): deletion is final, *)
(* a token opens exactly its tenant while its key lives, and the vault     *)
(* returns the last material put or throws.                                *)
(***************************************************************************)
EXTENDS TenantRegistry, TLAPS

-----------------------------------------------------------------------------
(***************************************************************************)
(* Deletion.  Every UPDATE of registry-postgres.ts carries deleted_at IS   *)
(* NULL in its WHERE clause, and the primary key covers deleted rows.      *)
(***************************************************************************)

\* What stays of a deleted row under the table T2 that a call leaves.
KeepsDeleted(T, T2) ==
    \A ref \in DOMAIN T : T[ref].deletedAt # Null => T2[ref] = T[ref]

\* Setting the row of a live tenant, or of an unknown one, leaves every
\* deleted row as it was.
LEMMA WithKeepsDeleted ==
  ASSUME NEW T, NEW ref, NEW row, ref \notin DOMAIN T \/ T[ref].deletedAt = Null
  PROVE  KeepsDeleted(T, Pg!With(T, ref, row))
BY DEF KeepsDeleted, Pg!With, Pg!Spread

\* The common UPDATE of the tenant table leaves deleted rows alone.
LEMMA UpdateKeepsDeleted ==
  ASSUME NEW T, NEW ref, NEW changes
  PROVE  KeepsDeleted(T, Pg!Update(T, ref, changes).db)
<1>1. CASE Pg!IsLive(T, ref)
  <2>1. Pg!Update(T, ref, changes).db
          = Pg!With(T, ref, Pg!Spread(T[ref], changes))
    BY <1>1 DEF Pg!Update, Pg!Returns
  <2> QED BY <1>1, <2>1, WithKeepsDeleted DEF Pg!IsLive
<1>2. CASE ~Pg!IsLive(T, ref)
  BY <1>2 DEF Pg!Update, Pg!Throws, KeepsDeleted
<1> QED BY <1>1, <1>2

\* So does every call of the Postgres TenantStore.
LEMMA CallsKeepDeleted ==
  ASSUME TenantCall PROVE KeepsDeleted(pg, pg')
<1>1. CASE Create
  <2> PICK ref \in Refs, input \in Inputs : pg' = Pg!create(pg, ref, input, now).db
    BY <1>1 DEF Create, Lockstep
  <2> QED BY WithKeepsDeleted
          DEF Pg!create, Pg!Returns, Pg!Throws, KeepsDeleted
<1>2. CASE Patch
  BY <1>2, UpdateKeepsDeleted DEF Patch, Lockstep, Pg!patch
<1>3. CASE SetState
  <2> PICK ref \in Refs, next \in TenantState, o \in Options :
         pg' = Pg!setState(pg, ref, next, o, now).db
    BY <1>3 DEF SetState, Lockstep
  <2> QED BY UpdateKeepsDeleted DEF Pg!setState, Pg!Throws, KeepsDeleted
<1>4. CASE RecordProgress
  <2> PICK ref \in Refs, passed \in BOOLEAN :
         pg' = Pg!recordOnboardingProgress(pg, ref, "s", passed).db
    BY <1>4 DEF RecordProgress, Lockstep
  <2> QED BY UpdateKeepsDeleted
          DEF Pg!recordOnboardingProgress, Pg!Update, Pg!Returns, Pg!Throws,
              KeepsDeleted
<1>5. CASE SetExpiry
  <2> PICK ref \in Refs :
         pg' = Pg!setProductionExpiry(pg, ref, now + 1).db
    BY <1>5 DEF SetExpiry, Lockstep
  <2> QED BY UpdateKeepsDeleted
          DEF Pg!setProductionExpiry, Pg!Update, Pg!Returns, Pg!Throws
<1>6. CASE SoftDelete
  <2> PICK ref \in Refs : pg' = Pg!softDelete(pg, ref, now).db
    BY <1>6 DEF SoftDelete, Lockstep
  <2> QED BY WithKeepsDeleted
          DEF Pg!softDelete, Pg!IsLive, Pg!Returns, Pg!Throws, KeepsDeleted
<1> QED BY <1>1, <1>2, <1>3, <1>4, <1>5, <1>6 DEF TenantCall

\* No later call of the Postgres TenantStore changes a deleted tenant's row
\* (every update of registry-postgres.ts filters on deleted_at IS NULL), for
\* every set of tenants and every number of calls.
THEOREM DeletedForGood == Spec => DeletionIsFinal
<1>1. ASSUME Next, store = "tenants" PROVE KeepsDeleted(pg, pg')
  BY <1>1, CallsKeepDeleted
     DEF Next, Put, Delete, Redeploy, Issue, Resolve, Revoke, RevokeAll, Tick,
         KeepsDeleted
<1>2. [Next]_vars =>
        [\A ref \in DOMAIN pg : store = "tenants" /\ pg[ref].deletedAt # Null =>
           pg'[ref] = pg[ref]]_vars
  BY <1>1 DEF KeepsDeleted, vars
<1> QED BY <1>2, PTL DEF Spec, DeletionIsFinal

-----------------------------------------------------------------------------
(***************************************************************************)
(* API keys.  A token names its tenant and its key, so that what a token   *)
(* may open is decided by the row of its tail alone: the inductive         *)
(* invariant is that a row's hash is that of the token for the row's own   *)
(* tenant and tail, and that the rows not revoked are the keys alive.      *)
(***************************************************************************)
Times == Nat \cup {Null}

KeyRows == [tenantRef : Refs, hash : Tokens \ {Null}, createdAt : Nat,
            lastUsedAt : Times, revokedAt : Times]

KeysInv ==
    /\ now \in Nat
    /\ store = "apiKeys" =>
         /\ DOMAIN mem = DOMAIN pg
         /\ pg \in [DOMAIN pg -> KeyRows]
         /\ \A k \in DOMAIN pg : pg[k].hash = tokenFor(Env, pg[k].tenantRef, k)
         /\ \A ref, tail : <<ref, tail>> \in alive <=>
              /\ tail \in DOMAIN pg
              /\ pg[tail].tenantRef = ref
              /\ pg[tail].revokedAt = Null
         /\ \A a \in alive : a = <<a[1], a[2]>>

\* The initial registries hold no key.
LEMMA KeysInit == Init => KeysInv
BY StartAssumption DEF Init, KeysInv

\* A key is issued with the hash of its own token.
LEMMA IssueKeys == KeysInv /\ Issue => KeysInv'
<1> SUFFICES ASSUME KeysInv, Issue PROVE KeysInv'
  OBVIOUS
<1>1. store = "apiKeys" /\ store' = store /\ now' = now
  BY DEF Issue
<1>2. PICK ref \in Refs, tail \in Tails \ DOMAIN mem :
        /\ pg' = Pg!issue(pg, Env, ref, tail, now).db
        /\ mem' = Mm!issue(mem, Env, ref, tail, now).db
        /\ alive' = alive \cup {<<ref, tail>>}
  BY DEF Issue, Lockstep
<1> DEFINE row == [tenantRef |-> ref, hash |-> tokenFor(Env, ref, tail),
                   createdAt |-> now, lastUsedAt |-> Null, revokedAt |-> Null]
<1>3. pg' = [k \in DOMAIN pg \cup {tail} |-> IF k = tail THEN row ELSE pg[k]]
  BY <1>2 DEF Pg!issue, Pg!Returns, Pg!With, Pg!Spread, Pg!tokenFor, tokenFor
<1>4. DOMAIN mem' = DOMAIN mem \cup {tail}
  BY <1>2 DEF Mm!issue, Mm!Returns, Mm!With, Mm!Spread
<1>5. row \in KeyRows
  BY NullAssumption DEF KeyRows, Times, Tokens, tokenFor, Env, KeysInv
<1>6. pg' \in [DOMAIN pg' -> KeyRows] /\ DOMAIN mem' = DOMAIN pg'
  BY <1>1, <1>3, <1>4, <1>5 DEF KeysInv
<1>7. \A k \in DOMAIN pg' : pg'[k].hash = tokenFor(Env, pg'[k].tenantRef, k)
  BY <1>1, <1>3 DEF KeysInv
<1>8. tail \notin DOMAIN pg
  BY <1>1, <1>2 DEF KeysInv
<1>9. \A r, t : <<r, t>> \in alive' <=>
         /\ t \in DOMAIN pg'
         /\ pg'[t].tenantRef = r
         /\ pg'[t].revokedAt = Null
  <2> TAKE r, t
  <2>1. <<r, t>> \in alive <=> /\ t \in DOMAIN pg
                              /\ pg[t].tenantRef = r
                              /\ pg[t].revokedAt = Null
    BY <1>1 DEF KeysInv
  <2>2. CASE t = tail
    BY <1>2, <1>3, <1>8, <2>1, <2>2
  <2>3. CASE t # tail
    BY <1>2, <1>3, <2>1, <2>3
  <2> QED BY <2>2, <2>3
<1>10. \A a \in alive' : a = <<a[1], a[2]>>
  BY <1>1, <1>2 DEF KeysInv
<1> QED BY <1>1, <1>6, <1>7, <1>9, <1>10 DEF KeysInv

\* Resolving a token writes lastUsedAt and nothing else.
LEMMA ResolveKeys == KeysInv /\ Resolve => KeysInv'
<1> SUFFICES ASSUME KeysInv, Resolve PROVE KeysInv'
  OBVIOUS
<1>1. store = "apiKeys" /\ UNCHANGED <<store, now, alive>>
  BY DEF Resolve
<1>2. PICK token \in Tokens :
        /\ pg' = Pg!resolve(pg, pgWrittenAt, Debounce, Env, token, now).out.db
        /\ mem' = Mm!resolve(mem, Env, token, now).db
  BY DEF Resolve, Lockstep
<1>3. \/ pg' = pg
      \/ \E k \in DOMAIN pg : pg' = [pg EXCEPT ![k].lastUsedAt = now]
  BY <1>2 DEF Pg!resolve, Pg!Candidates, Pg!Returns
<1>4. DOMAIN mem' = DOMAIN mem
  BY <1>2 DEF Mm!resolve, Mm!Returns, Mm!With, Mm!Spread
<1>5. pg \in [DOMAIN pg -> KeyRows] /\ now \in Nat
  BY <1>1 DEF KeysInv
<1>6. /\ pg' \in [DOMAIN pg -> KeyRows]
      /\ DOMAIN pg' = DOMAIN pg
      /\ \A k \in DOMAIN pg : /\ pg'[k].tenantRef = pg[k].tenantRef
                              /\ pg'[k].hash = pg[k].hash
                              /\ pg'[k].revokedAt = pg[k].revokedAt
  BY <1>3, <1>5 DEF KeyRows, Times
<1> QED BY <1>1, <1>4, <1>6 DEF KeysInv

\* A key is revoked through its own tenant only, and is then not alive.
LEMMA RevokeKeys == KeysInv /\ Revoke => KeysInv'
<1> SUFFICES ASSUME KeysInv, Revoke PROVE KeysInv'
  OBVIOUS
<1>1. store = "apiKeys" /\ UNCHANGED <<store, now>>
  BY DEF Revoke
<1>2. PICK ref \in Refs, tail \in Tails :
        /\ pg' = Pg!revoke(pg, ref, tail, now).db
        /\ mem' = Mm!revoke(mem, ref, tail, now).db
        /\ alive' = alive \ {<<ref, tail>>}
  BY DEF Revoke, Lockstep
<1>3. DOMAIN mem' = DOMAIN mem
  BY <1>2 DEF Mm!revoke, Mm!Returns, Mm!With, Mm!Spread
<1>4. pg \in [DOMAIN pg -> KeyRows] /\ now \in Nat /\ now # Null
  BY <1>1, NullAssumption DEF KeysInv
<1>5. pg' = [k \in DOMAIN pg |->
              IF k = tail /\ pg[k].tenantRef = ref /\ pg[k].revokedAt = Null
              THEN [pg[k] EXCEPT !.revokedAt = now] ELSE pg[k]]
  BY <1>2, <1>4 DEF Pg!revoke, Pg!Returns
<1>6. /\ pg' \in [DOMAIN pg -> KeyRows]
      /\ DOMAIN pg' = DOMAIN pg
      /\ \A k \in DOMAIN pg : /\ pg'[k].tenantRef = pg[k].tenantRef
                              /\ pg'[k].hash = pg[k].hash
                              /\ pg'[k].revokedAt = Null <=>
                                   pg[k].revokedAt = Null
                                     /\ ~(k = tail /\ pg[k].tenantRef = ref)
  BY <1>4, <1>5 DEF KeyRows, Times
<1>7. \A r, t : <<r, t>> \in alive' <=>
         /\ t \in DOMAIN pg'
         /\ pg'[t].tenantRef = r
         /\ pg'[t].revokedAt = Null
  <2> TAKE r, t
  <2>1. <<r, t>> \in alive <=> /\ t \in DOMAIN pg
                              /\ pg[t].tenantRef = r
                              /\ pg[t].revokedAt = Null
    BY <1>1 DEF KeysInv
  <2>2. <<r, t>> \in alive' <=> <<r, t>> \in alive /\ ~(r = ref /\ t = tail)
    BY <1>2
  <2> QED BY <1>6, <2>1, <2>2
<1> QED BY <1>1, <1>2, <1>3, <1>6, <1>7 DEF KeysInv

\* Revoking all of a tenant's keys takes exactly that tenant's from the
\* living.
LEMMA RevokeAllKeys == KeysInv /\ RevokeAll => KeysInv'
<1> SUFFICES ASSUME KeysInv, RevokeAll PROVE KeysInv'
  OBVIOUS
<1>1. store = "apiKeys" /\ UNCHANGED <<store, now>>
  BY DEF RevokeAll
<1>2. PICK ref \in Refs :
        /\ pg' = Pg!revokeAllForTenant(pg, ref, now).db
        /\ mem' = Mm!revokeAllForTenant(mem, ref, now).db
        /\ alive' = {k \in alive : k[1] # ref}
  BY DEF RevokeAll, Lockstep
<1>3. DOMAIN mem' = DOMAIN mem
  BY <1>2 DEF Mm!revokeAllForTenant, Mm!Returns
<1>4. pg \in [DOMAIN pg -> KeyRows] /\ now \in Nat /\ now # Null
  BY <1>1, NullAssumption DEF KeysInv
<1>5. pg' = [k \in DOMAIN pg |->
              IF pg[k].tenantRef = ref /\ pg[k].revokedAt = Null
              THEN [pg[k] EXCEPT !.revokedAt = now] ELSE pg[k]]
  BY <1>2 DEF Pg!revokeAllForTenant, Pg!Returns
<1>6. /\ pg' \in [DOMAIN pg -> KeyRows]
      /\ DOMAIN pg' = DOMAIN pg
      /\ \A k \in DOMAIN pg : /\ pg'[k].tenantRef = pg[k].tenantRef
                              /\ pg'[k].hash = pg[k].hash
                              /\ pg'[k].revokedAt = Null <=>
                                   pg[k].revokedAt = Null
                                     /\ pg[k].tenantRef # ref
  BY <1>4, <1>5 DEF KeyRows, Times
<1>7. \A r, t : <<r, t>> \in alive' <=>
         /\ t \in DOMAIN pg'
         /\ pg'[t].tenantRef = r
         /\ pg'[t].revokedAt = Null
  <2> TAKE r, t
  <2>1. <<r, t>> \in alive <=> /\ t \in DOMAIN pg
                              /\ pg[t].tenantRef = r
                              /\ pg[t].revokedAt = Null
    BY <1>1 DEF KeysInv
  <2>2. <<r, t>> \in alive' <=> <<r, t>> \in alive /\ r # ref
    BY <1>2
  <2> QED BY <1>6, <2>1, <2>2
<1> QED BY <1>1, <1>2, <1>3, <1>6, <1>7 DEF KeysInv

\* The calls of the other two interfaces do not run in such a behaviour.
LEMMA KeysStep == KeysInv /\ [Next]_vars => KeysInv'
<1> SUFFICES ASSUME KeysInv, [Next]_vars PROVE KeysInv'
  OBVIOUS
<1>1. CASE TenantCall \/ Put \/ Delete \/ Redeploy
  BY <1>1 DEF TenantCall, Others, Put, Delete, Redeploy, KeysInv
<1>2. CASE Tick \/ UNCHANGED vars
  BY <1>2 DEF Tick, vars, KeysInv
<1> QED BY <1>1, <1>2, IssueKeys, ResolveKeys, RevokeKeys, RevokeAllKeys DEF Next

\* The invariant decides what a token resolves to.
LEMMA KeysScopedByInv == KeysInv => KeysScoped
<1> SUFFICES ASSUME KeysInv, store = "apiKeys", NEW token \in Tokens \ {Null}
             PROVE  LET hit == Pg!resolve(pg, pgWrittenAt, Debounce, Env, token,
                                          now).out.value
                    IN  IF token.env = Env /\ <<token.tenantRef, token.tail>> \in alive
                        THEN hit = [tenantRef |-> token.tenantRef,
                                    tokenId |-> token.tail]
                        ELSE hit = Null
  BY DEF KeysScoped
<1> DEFINE C == Pg!Candidates(pg, Env, token)
           hit == Pg!resolve(pg, pgWrittenAt, Debounce, Env, token, now).out.value
<1>1. token = tokenFor(token.env, token.tenantRef, token.tail)
  BY DEF Tokens, tokenFor
<1>2. \A k \in C : /\ k \in DOMAIN pg
                   /\ pg[k].tenantRef = token.tenantRef
                   /\ pg[k].revokedAt = Null
                   /\ token.env = Env
                   /\ k = token.tail
  <2> TAKE k \in C
  <2>1. /\ k \in DOMAIN pg
        /\ pg[k].tenantRef = token.tenantRef
        /\ pg[k].revokedAt = Null
        /\ token.env = Env
        /\ pg[k].hash = token
    BY DEF Pg!Candidates, Pg!Parses
  <2>2. tokenFor(Env, pg[k].tenantRef, k) = token
    BY <2>1 DEF KeysInv
  <2>3. k = token.tail
    BY <2>2 DEF tokenFor
  <2> QED BY <2>1, <2>3
<1>3. CASE token.env = Env /\ <<token.tenantRef, token.tail>> \in alive
  <2>1. /\ token.tail \in DOMAIN pg
        /\ pg[token.tail].tenantRef = token.tenantRef
        /\ pg[token.tail].revokedAt = Null
        /\ pg[token.tail].hash = token
    BY <1>1, <1>3 DEF KeysInv
  <2>2. token.tail \in C
    BY <1>3, <2>1 DEF Pg!Candidates, Pg!Parses
  <2>3. (CHOOSE c \in C : TRUE) = token.tail
    BY <1>2, <2>2
  <2>4. hit = [tenantRef |-> pg[token.tail].tenantRef, tokenId |-> token.tail]
    BY <2>2, <2>3 DEF Pg!resolve, Pg!Returns
  <2> QED BY <1>3, <2>1, <2>4
<1>4. CASE ~(token.env = Env /\ <<token.tenantRef, token.tail>> \in alive)
  <2>1. C = {}
    BY <1>2, <1>4 DEF KeysInv
  <2>2. hit = Null
    BY <2>1 DEF Pg!resolve, Pg!Returns
  <2> QED BY <1>4, <2>2
<1> QED BY <1>3, <1>4

\* A presented token opens exactly the tenant it names, while its key is not
\* revoked (resolve, revoke and revokeAllForTenant of registry-postgres.ts):
\* for any tenants, keys and history of calls.
THEOREM TokensStayScoped == Spec => []KeysScoped
<1> QED BY KeysInit, KeysStep, KeysScopedByInv, PTL DEF Spec

-----------------------------------------------------------------------------
(***************************************************************************)
(* The vault.  A document holds one envelope per field of the material     *)
(* last put, all under the key and algorithm active at that time; so they  *)
(* open together or not at all.                                            *)
(***************************************************************************)
Sealed(w) == [f \in DOMAIN w.material |->
                 [kid |-> w.kid, alg |-> w.alg, ct |-> w.material[f]]]

Putable(given) ==
    /\ given = [f \in DOMAIN given |-> given[f]]
    /\ DOMAIN given \subseteq {"production", "compliance"}
    /\ "production" \in DOMAIN given

VaultInv ==
    store = "vault" =>
       /\ DOMAIN mongo = DOMAIN written
       /\ \A ref \in DOMAIN written : /\ mongo[ref] = Sealed(written[ref])
                                      /\ Putable(written[ref].material)

\* The fields of a material that are given include the certificate.
LEMMA GivenIsPutable ==
  ASSUME NEW material \in Materials
  PROVE  /\ Putable(Defined(material))
         /\ Mg!Defined(material) = Defined(material)
BY MaterialsAssumption DEF Putable, Defined, Restrict, Mg!Defined, Mg!Restrict

\* put leaves an envelope for every field given and for no other: the fields
\* of an earlier material that the new one lacks are unset.
LEMMA PutSeals ==
  ASSUME NEW V, NEW ref, NEW material \in Materials, NEW c,
         ref \in DOMAIN V => DOMAIN V[ref] \subseteq DOMAIN material
  PROVE  Mg!put(V, c, ref, material).db =
           Mg!With(V, ref, Sealed([material |-> Defined(material),
                                   kid |-> c.activeKid, alg |-> c.alg]))
<1> DEFINE given == Mg!Defined(material)
           set   == [f \in DOMAIN given |-> Mg!encrypt(c, given[f])]
           old   == IF ref \in DOMAIN V THEN V[ref] ELSE << >>
<1>1. DOMAIN old \subseteq DOMAIN material
  OBVIOUS
<1>2. DOMAIN given \subseteq DOMAIN material
  BY DEF Mg!Defined, Mg!Restrict
<1>3. Mg!Spread(Mg!Without(old, DOMAIN material \ DOMAIN given), set) = set
  BY <1>1, <1>2 DEF Mg!Spread, Mg!Without, Mg!Restrict
<1>4. set = Sealed([material |-> Defined(material), kid |-> c.activeKid,
                    alg |-> c.alg])
  BY GivenIsPutable DEF Sealed, Mg!encrypt
<1>5. Mg!put(V, c, ref, material).db =
        Mg!With(V, ref, Mg!Spread(Mg!Without(old, DOMAIN material \ DOMAIN given),
                                  set))
  BY DEF Mg!put, Mg!Returns
<1> QED BY <1>3, <1>4, <1>5

\* A step of the vault keeps documents and the material last put together.
LEMMA VaultStep == VaultInv /\ [Next]_vars => VaultInv'
<1> SUFFICES ASSUME VaultInv, [Next]_vars PROVE VaultInv'
  OBVIOUS
<1>1. CASE Put
  <2>1. store = "vault" /\ store' = store
    BY <1>1 DEF Put
  <2>2. PICK ref \in Refs, material \in Materials :
          /\ mongo' = Mg!put(mongo, cipher, ref, material).db
          /\ written' = With(written, ref,
               [material |-> Defined(material), kid |-> cipher.activeKid,
                alg |-> cipher.alg])
    BY <1>1 DEF Put, Lockstep
  <2> DEFINE w == [material |-> Defined(material), kid |-> cipher.activeKid,
                   alg |-> cipher.alg]
  <2>3. ref \in DOMAIN mongo => DOMAIN mongo[ref] \subseteq DOMAIN material
    BY <2>1, MaterialsAssumption DEF VaultInv, Sealed, Putable
  <2>4. mongo' = Mg!With(mongo, ref, Sealed(w))
    BY <2>2, <2>3, PutSeals
  <2>5. DOMAIN mongo' = DOMAIN written'
    BY <2>1, <2>2, <2>4 DEF VaultInv, With, Spread, Mg!With, Mg!Spread
  <2>6. /\ mongo'[ref] = Sealed(w) /\ written'[ref] = w
        /\ \A r \in DOMAIN written' \ {ref} :
             /\ r \in DOMAIN written
             /\ mongo'[r] = mongo[r] /\ written'[r] = written[r]
    BY <2>1, <2>2, <2>4 DEF VaultInv, With, Spread, Mg!With, Mg!Spread
  <2>7. Putable(w.material)
    BY GivenIsPutable
  <2>8. ASSUME NEW r \in DOMAIN written'
        PROVE  mongo'[r] = Sealed(written'[r]) /\ Putable(written'[r].material)
    BY <2>1, <2>6, <2>7 DEF VaultInv
  <2> HIDE DEF w
  <2> QED BY <2>5, <2>8 DEF VaultInv
<1>2. CASE Delete
  <2>1. store = "vault" /\ store' = store
    BY <1>2 DEF Delete
  <2>2. PICK ref \in Refs : /\ mongo' = Mg!deleteMaterial(mongo, ref).db
                            /\ written' = Without(written, {ref})
    BY <1>2 DEF Delete, Lockstep
  <2>3. /\ mongo' = [r \in DOMAIN mongo \ {ref} |-> mongo[r]]
        /\ written' = [r \in DOMAIN written \ {ref} |-> written[r]]
    BY <2>2 DEF Mg!deleteMaterial, Mg!Returns, Mg!Without, Mg!Restrict,
                Without, Restrict
  <2> QED BY <2>1, <2>3 DEF VaultInv
<1>3. CASE TenantCall \/ Issue \/ Resolve \/ Revoke \/ RevokeAll
  BY <1>3 DEF TenantCall, Others, Issue, Resolve, Revoke, RevokeAll, VaultInv
<1>4. CASE Redeploy \/ Tick \/ UNCHANGED vars
  BY <1>4 DEF Redeploy, Tick, vars, VaultInv
<1> QED BY <1>1, <1>2, <1>3, <1>4 DEF Next

\* What a sealed document answers under a cipher.
LEMMA SealedAnswers == VaultInv => VaultFaithful
<1> SUFFICES ASSUME VaultInv, store = "vault", NEW ref \in Refs
             PROVE  Answer(Mg!getMaterial(mongo, cipher, ref)) =
               IF ref \notin DOMAIN written THEN [value |-> Null, error |-> Null]
               ELSE IF written[ref].kid \in cipher.kids
                         /\ written[ref].alg = cipher.alg
               THEN [value |-> written[ref].material, error |-> Null]
               ELSE [value |-> Null, error |-> "cipher"]
  BY DEF VaultFaithful
<1>1. CASE ref \notin DOMAIN written
  BY <1>1 DEF VaultInv, Mg!getMaterial, Mg!Returns, Answer
<1>2. CASE ref \in DOMAIN written
  <2> DEFINE w == written[ref]
             d == mongo[ref]
             opens == w.kid \in cipher.kids /\ w.alg = cipher.alg
  <2>1. ref \in DOMAIN mongo /\ d = Sealed(w) /\ Putable(w.material)
    BY <1>2 DEF VaultInv
  <2>2. /\ DOMAIN d = DOMAIN w.material
        /\ \A f \in DOMAIN d : /\ Mg!decrypt(d[f]) = w.material[f]
                               /\ Mg!CanDecrypt(cipher, d[f]) <=> opens
    BY <2>1 DEF Sealed, Mg!decrypt, Mg!CanDecrypt
  <2>3. CASE opens
    <3>1. [f \in DOMAIN d |-> Mg!decrypt(d[f])] = w.material
      BY <2>1, <2>2 DEF Putable
    <3>2. ~ \E f \in DOMAIN d : ~Mg!CanDecrypt(cipher, d[f])
      BY <2>2, <2>3
    <3>3. Mg!getMaterial(mongo, cipher, ref) = Mg!Returns(mongo, w.material)
      BY <2>1, <3>1, <3>2 DEF Mg!getMaterial
    <3> QED BY <1>2, <2>3, <3>3 DEF Mg!Returns, Answer
  <2>4. CASE ~opens
    <3>1. \E f \in DOMAIN d : ~Mg!CanDecrypt(cipher, d[f])
      BY <2>1, <2>2, <2>4 DEF Putable
    <3>2. Mg!getMaterial(mongo, cipher, ref) = Mg!Throws(mongo, "cipher")
      BY <2>1, <3>1 DEF Mg!getMaterial
    <3> QED BY <1>2, <2>4, <3>2 DEF Mg!Throws, Answer
  <2> QED BY <2>3, <2>4
<1> QED BY <1>1, <1>2

\* The Mongo vault returns the whole of the last material put, nothing of an
\* earlier one, or throws (put and get of registry-mongo.ts), whatever rings
\* the server is redeployed with.
THEOREM VaultReturnsLastPut == Spec => []VaultFaithful
<1>1. Init => VaultInv
  BY DEF Init, VaultInv
<1> QED BY <1>1, VaultStep, SealedAnswers, PTL DEF Spec

-----------------------------------------------------------------------------
(***************************************************************************)
(* Agreement.  The inductive invariant is a simulation: a Mongo document   *)
(* and an object in memory are the Postgres row without its NULL columns.  *)
(* For keys the object in memory alone has the true lastUsedAt, and the    *)
(* processes of the two databases remember what they last wrote.           *)
(***************************************************************************)
Docs(T) == [id \in DOMAIN T |-> Defined(T[id])]

TenantRows == [tenantRef : Refs, vatName : Texts, label : Texts \cup {Null},
               state : TenantState, progress : Progress,
               certExpiresAt : Times, claimedBy : Texts \cup {Null},
               claimExpiresAt : Times, createdAt : Nat, deletedAt : Times]

TenantTable(T) == T \in [DOMAIN T -> TenantRows]

TenantsAlike ==
    store = "tenants" => /\ TenantTable(pg)
                         /\ mongo = Docs(pg)
                         /\ mem = mongo

Envelopes == {encrypt(c, m) : c \in Ciphers \ {Null}, m \in UNION
                {{material[f] : f \in DOMAIN material} : material \in Materials}}

VaultRows == [production : Envelopes, compliance : Envelopes \cup {Null}]

VaultsAlike ==
    /\ cipher \in Ciphers \ {Null}
    /\ store = "vault" => /\ pg \in [DOMAIN pg -> VaultRows]
                          /\ mongo = Docs(pg)
                          /\ mem = mongo

Used(K) == {k \in DOMAIN K : K[k].lastUsedAt # Null}

LastUsed(K) == [k \in Used(K) |-> K[k].lastUsedAt]

\* The object in memory of a key row: its lastUsedAt is the true one.
KeyAlike(row, object) ==
    /\ object = [f \in DOMAIN object |-> object[f]]
    /\ DOMAIN object = DOMAIN Defined(row)
    /\ \A f \in DOMAIN object \ {"lastUsedAt"} : object[f] = row[f]
    /\ row.lastUsedAt # Null => /\ object.lastUsedAt \in Nat
                                /\ object.lastUsedAt - row.lastUsedAt < Debounce

KeysAlike ==
    store = "apiKeys" =>
       /\ mongo = Docs(pg)
       /\ \A k \in DOMAIN pg : KeyAlike(pg[k], mem[k])
       /\ mem = [k \in DOMAIN pg |-> mem[k]]
       /\ pgWrittenAt = LastUsed(pg) /\ mongoWrittenAt = LastUsed(pg)

AgreeInv ==
    /\ agreed
    /\ now >= Start
    /\ KeysInv
    /\ TenantsAlike
    /\ VaultsAlike
    /\ KeysAlike

\* The three modules use the vocabulary of RegistryTypes.
LEMMA SharedObjects ==
  ASSUME NEW a, NEW b, NEW c
  PROVE  /\ Pg!Spread(a, b) = Spread(a, b)
         /\ Mg!Spread(a, b) = Spread(a, b)
         /\ Mm!Spread(a, b) = Spread(a, b)
         /\ Pg!With(a, b, c) = With(a, b, c)
         /\ Mg!With(a, b, c) = With(a, b, c)
         /\ Mm!With(a, b, c) = With(a, b, c)
         /\ Pg!Without(a, b) = Without(a, b)
         /\ Mg!Without(a, b) = Without(a, b)
         /\ Mm!Without(a, b) = Without(a, b)
         /\ Pg!Defined(a) = Defined(a)
         /\ Mg!Defined(a) = Defined(a)
         /\ Mm!Defined(a) = Defined(a)
BY DEF Pg!Spread, Mg!Spread, Mm!Spread, Spread, Pg!With, Mg!With, Mm!With, With,
       Pg!Without, Mg!Without, Mm!Without, Without, Pg!Defined, Mg!Defined,
       Mm!Defined, Defined, Pg!Restrict, Mg!Restrict, Mm!Restrict, Restrict

\* They build their outcomes alike.
LEMMA SharedOutcomes ==
  ASSUME NEW a, NEW b
  PROVE  /\ Pg!Returns(a, b) = Returns(a, b)
         /\ Mg!Returns(a, b) = Returns(a, b)
         /\ Mm!Returns(a, b) = Returns(a, b)
         /\ Pg!Throws(a, b) = Throws(a, b)
         /\ Mg!Throws(a, b) = Throws(a, b)
         /\ Mm!Throws(a, b) = Throws(a, b)
BY DEF Pg!Returns, Mg!Returns, Mm!Returns, Returns, Pg!Throws, Mg!Throws,
       Mm!Throws, Throws

\* They rewrite the progress alike.
LEMMA SharedProgress ==
  ASSUME NEW a, NEW b, NEW c
  PROVE  /\ Pg!emptyProgress = emptyProgress
         /\ Mg!emptyProgress = emptyProgress
         /\ Mm!emptyProgress = emptyProgress
         /\ Pg!Noting(a, b) = Noting(a, b)
         /\ Mg!Noting(a, b) = Noting(a, b)
         /\ Mm!Noting(a, b) = Noting(a, b)
         /\ Pg!WithScenario(a, b, c) = WithScenario(a, b, c)
         /\ Mg!WithScenario(a, b, c) = WithScenario(a, b, c)
         /\ Mm!WithScenario(a, b, c) = WithScenario(a, b, c)
<1>1. /\ Pg!emptyProgress = emptyProgress
      /\ Mg!emptyProgress = emptyProgress
      /\ Mm!emptyProgress = emptyProgress
  BY DEF Pg!emptyProgress, Mg!emptyProgress, Mm!emptyProgress, emptyProgress
<1>2. /\ Pg!Noting(a, b) = Noting(a, b)
      /\ Mg!Noting(a, b) = Noting(a, b)
      /\ Mm!Noting(a, b) = Noting(a, b)
  BY SharedObjects DEF Pg!Noting, Mg!Noting, Mm!Noting, Noting, Pg!WithError,
     Mg!WithError, Mm!WithError, WithError
<1>3. /\ Pg!WithScenario(a, b, c) = WithScenario(a, b, c)
      /\ Mg!WithScenario(a, b, c) = WithScenario(a, b, c)
      /\ Mm!WithScenario(a, b, c) = WithScenario(a, b, c)
  BY SharedObjects DEF Pg!WithScenario, Mg!WithScenario, Mm!WithScenario,
     WithScenario
<1> QED BY <1>1, <1>2, <1>3

\* Setting a row sets the document that the row stands for.
LEMMA DocsOfWith ==
  ASSUME NEW T, NEW id, NEW row
  PROVE  /\ Docs(With(T, id, row)) = With(Docs(T), id, Defined(row))
         /\ DOMAIN With(T, id, row) = DOMAIN T \cup {id}
         /\ With(T, id, row)[id] = row
BY DEF Docs, With, Spread

\* The document of a tenant's row: which fields it has, and that it is what
\* the Mongo registry answers with.
LEMMA DocOfRow ==
  ASSUME NEW row \in TenantRows
  PROVE  /\ DOMAIN Defined(row) = {f \in TenantFields : row[f] # Null}
         /\ DOMAIN row = TenantFields
         /\ \A f \in DOMAIN Defined(row) : Defined(row)[f] = row[f]
         /\ {"tenantRef", "vatName", "state", "progress", "createdAt"}
              \subseteq DOMAIN Defined(row)
         /\ Mg!docToTenant(Defined(row)) = Defined(row)
<1>1. DOMAIN row = TenantFields
  BY DEF TenantRows, TenantFields
<1>2. Defined(row) = [f \in {g \in TenantFields : row[g] # Null} |-> row[f]]
  BY <1>1 DEF Defined, Restrict
<1>3. /\ row.tenantRef # Null /\ row.vatName # Null /\ row.state # Null
      /\ row.progress # Null /\ row.createdAt # Null
  <2>1. /\ row.tenantRef \in Refs /\ row.vatName \in Texts
        /\ row.state \in TenantState /\ row.progress \in Progress
        /\ row.createdAt \in Nat
    BY DEF TenantRows
  <2> QED BY <2>1, NullAssumption
<1>4. {"tenantRef", "vatName", "state", "progress", "createdAt"}
         \subseteq DOMAIN Defined(row)
  BY <1>2, <1>3 DEF TenantFields
<1>5. Mg!docToTenant(Defined(row)) = Defined(row)
  BY <1>2 DEF Mg!docToTenant, Mg!Restrict, Mg!TenantFields, TenantFields
<1> QED BY <1>1, <1>2, <1>4, <1>5

-----------------------------------------------------------------------------
\* The outcomes of a call of TenantStore that keep the registries alike.
Alike(P, M, W) ==
    /\ TenantTable(P.db)
    /\ M.db = Docs(P.db)
    /\ W.db = M.db
    /\ Answer(P) = Answer(M) /\ Answer(M) = Answer(W)

\* A call that sets one row alike, and answers alike, keeps them alike.
LEMMA RowSetAlike ==
  ASSUME NEW T, TenantTable(T), NEW ref, NEW row \in TenantRows,
         NEW value
  PROVE  Alike(Returns(With(T, ref, row), value),
               Returns(With(Docs(T), ref, Defined(row)), value),
               Returns(With(Docs(T), ref, Defined(row)), value))
<1>1. With(T, ref, row) \in [DOMAIN T \cup {ref} -> TenantRows]
  BY DEF With, Spread, TenantTable
<1>2. Docs(With(T, ref, row)) = With(Docs(T), ref, Defined(row))
  BY DocsOfWith
<1> QED BY <1>1, <1>2 DEF Alike, Returns, Answer, TenantTable

\* So does a call that throws the same code everywhere.
LEMMA ThrowAlike ==
  ASSUME NEW T, TenantTable(T), NEW code
  PROVE  Alike(Throws(T, code), Throws(Docs(T), code), Throws(Docs(T), code))
BY DEF Alike, Throws, Answer

\* The same tenants are live in all three.
LEMMA LiveAlike ==
  ASSUME NEW T, TenantTable(T), NEW ref
  PROVE  /\ Mg!IsLive(Docs(T), ref) = Pg!IsLive(T, ref)
         /\ Pg!IsLive(T, ref) \in BOOLEAN
         /\ Mm!requireRecord(Docs(T), ref) <=> Pg!IsLive(T, ref)
         /\ DOMAIN Docs(T) = DOMAIN T
         /\ ref \in DOMAIN T => Docs(T)[ref] = Defined(T[ref])
<1>1. DOMAIN Docs(T) = DOMAIN T
  BY DEF Docs
<1>2. ASSUME ref \in DOMAIN T
      PROVE  /\ Docs(T)[ref] = Defined(T[ref])
             /\ "deletedAt" \in DOMAIN Docs(T)[ref] <=> T[ref].deletedAt # Null
  <2>1. T[ref] \in TenantRows /\ Docs(T)[ref] = Defined(T[ref])
    BY <1>2 DEF Docs, TenantTable
  <2> QED BY <2>1, DocOfRow DEF TenantFields
<1> QED BY <1>1, <1>2 DEF Mg!IsLive, Mg!Exists, Pg!IsLive, Mm!requireRecord, Mm!Has

\* create inserts, in all three, the document of the row that it inserts in
\* Postgres, or finds the ref taken in all three.
LEMMA CreateAlike ==
  ASSUME NEW T, TenantTable(T), NEW ref \in Refs,
         NEW input \in Inputs, NEW t \in Nat
  PROVE  Alike(Pg!create(T, ref, input, t), Mg!create(Docs(T), ref, input, t),
               Mm!create(Docs(T), ref, input, t))
<1>1. CASE ref \in DOMAIN T
  BY <1>1, LiveAlike, ThrowAlike, SharedOutcomes
     DEF Pg!create, Mg!create, Mm!create
<1>2. CASE ref \notin DOMAIN T
  <2> DEFINE row == [tenantRef |-> ref, vatName |-> input.vatName,
                     label |-> input.label, state |-> "created",
                     progress |-> emptyProgress, certExpiresAt |-> Null,
                     claimedBy |-> Null, claimExpiresAt |-> Null,
                     createdAt |-> t, deletedAt |-> Null]
             doc == [tenantRef |-> ref, vatName |-> input.vatName,
                     label |-> input.label, state |-> "created",
                     progress |-> emptyProgress, createdAt |-> t]
             must == [tenantRef |-> ref, vatName |-> input.vatName,
                      state |-> "created", progress |-> emptyProgress,
                      createdAt |-> t]
             given == [label |-> input.label]
  <2>1. emptyProgress \in Progress
    <3>1. << >> \in [{} -> {"passed", "failed"}] /\ {} \in SUBSET {"s"}
      OBVIOUS
    <3> QED BY <3>1 DEF emptyProgress, Progress
  <2>2. row \in TenantRows
    BY <2>1 DEF TenantRows, Times, TenantState, Inputs, Texts
  <2>3. /\ ref # Null /\ input.vatName # Null /\ "created" # Null
        /\ emptyProgress # Null /\ t # Null
    BY <2>1, NullAssumption DEF Inputs, Texts, TenantState
  <2>4. Defined(doc) = Defined(row)
    BY DEF Defined, Restrict
  <2>5. Spread(must, Defined(given)) = Defined(row)
    <3>1. CASE input.label = Null
      BY <2>3, <3>1 DEF Spread, Defined, Restrict
    <3>2. CASE input.label # Null
      BY <2>3, <3>2 DEF Spread, Defined, Restrict
    <3> QED BY <3>1, <3>2
  <2> HIDE DEF row, doc, must, given
  <2>6. Pg!create(T, ref, input, t) = Returns(With(T, ref, row), Defined(row))
    BY <1>2, SharedObjects, SharedOutcomes, SharedProgress
       DEF Pg!create, Pg!rowToTenant, row
  <2>7. Mg!create(Docs(T), ref, input, t)
          = Returns(With(Docs(T), ref, Defined(row)), Defined(row))
    <3>1. Mg!create(Docs(T), ref, input, t)
            = Returns(With(Docs(T), ref, Defined(doc)),
                      Mg!docToTenant(Defined(doc)))
      BY <1>2, SharedObjects, SharedOutcomes, SharedProgress, LiveAlike
         DEF Mg!create, doc
    <3> QED BY <2>2, <2>4, <3>1, DocOfRow
  <2>8. Mm!create(Docs(T), ref, input, t)
          = Returns(With(Docs(T), ref, Defined(row)), Defined(row))
    <3>1. Mm!create(Docs(T), ref, input, t)
            = Returns(With(Docs(T), ref, Spread(must, Defined(given))),
                      Spread(must, Defined(given)))
      BY <1>2, SharedObjects, SharedOutcomes, SharedProgress, LiveAlike
         DEF Mm!create, must, given
    <3> QED BY <2>5, <3>1
  <2> QED BY <2>2, <2>6, <2>7, <2>8, RowSetAlike
<1> QED BY <1>1, <1>2

\* No field of the object is undefined.
AllGiven(object) == \A f \in DOMAIN object : object[f] # Null

\* Values that are there change the row and its document alike.
LEMMA DefinedOfSpread ==
  ASSUME NEW row, NEW ch, AllGiven(ch)
  PROVE  Defined(Spread(row, ch)) = Spread(Defined(row), ch)
BY DEF Defined, Restrict, Spread, AllGiven

\* $unset of nothing.
LEMMA WithoutNothing ==
  ASSUME NEW d, NEW row, d = Defined(row)
  PROVE  Without(d, {}) = d
BY DEF Without, Defined, Restrict

\* What an update that applies makes of the three tables.
LEMMA UpdateMakes ==
  ASSUME NEW T, TenantTable(T), NEW ref, NEW ch,
         Pg!IsLive(T, ref), AllGiven(ch),
         NEW row \in TenantRows, row = Spread(T[ref], ch)
  PROVE  LET u == Mg!UpdateOne(Docs(T), ref, Mg!IsLive(Docs(T), ref), ch, {}) IN
         /\ Pg!Update(T, ref, ch) = Returns(With(T, ref, row), Defined(row))
         /\ u.matched
         /\ u.db = With(Docs(T), ref, Defined(row))
         /\ Mg!Updated(Docs(T), ref, u) =
              Returns(With(Docs(T), ref, Defined(row)), Defined(row))
         /\ Spread(Docs(T)[ref], ch) = Defined(row)
<1> DEFINE u == Mg!UpdateOne(Docs(T), ref, Mg!IsLive(Docs(T), ref), ch, {})
           D == With(Docs(T), ref, Defined(row))
<1>1. ref \in DOMAIN T /\ Docs(T)[ref] = Defined(T[ref])
  BY LiveAlike DEF Pg!IsLive
<1>2. Spread(Docs(T)[ref], ch) = Defined(row)
  BY <1>1, DefinedOfSpread
<1>3. Without(Docs(T)[ref], {}) = Docs(T)[ref]
  BY <1>1, WithoutNothing
<1>4. Pg!Update(T, ref, ch) = Returns(With(T, ref, row), Defined(row))
  BY SharedObjects, SharedOutcomes DEF Pg!Update, Pg!rowToTenant
<1>5. u.matched /\ u.db = D
  <2>1. Mg!IsLive(Docs(T), ref)
    BY LiveAlike
  <2>2. /\ u.matched
        /\ u.db = Mg!With(Docs(T), ref,
                         Mg!Spread(Mg!Without(Docs(T)[ref], {}), ch))
    BY <2>1 DEF Mg!UpdateOne
  <2>3. Mg!Spread(Mg!Without(Docs(T)[ref], {}), ch) = Defined(row)
    BY <1>2, <1>3, SharedObjects
  <2>4. Mg!With(Docs(T), ref, Defined(row)) = With(Docs(T), ref, Defined(row))
    BY SharedObjects
  <2> QED BY <2>2, <2>3, <2>4
<1>6. Mg!docToTenant(D[ref]) = Defined(row)
  <2>1. D[ref] = Defined(row)
    BY DEF With, Spread
  <2>2. Mg!docToTenant(Defined(row)) = Defined(row)
    BY DocOfRow
  <2> QED BY <2>1, <2>2
<1> HIDE DEF u, D
<1>7. Mg!Updated(Docs(T), ref, u) = Returns(D, Defined(row))
  BY <1>5, <1>6, SharedOutcomes DEF Mg!Updated
<1> QED BY <1>2, <1>4, <1>5, <1>7 DEF u, D

\* The calls that change some fields of a live tenant, or say there is none.
LEMMA PatchAlike ==
  ASSUME NEW T, TenantTable(T), NEW ref,
         NEW fields \in [vatName : {Null, "m"}, label : {Null, "l"}]
  PROVE  Alike(Pg!patch(T, ref, fields), Mg!patch(Docs(T), ref, fields),
               Mm!patch(Docs(T), ref, fields))
<1> DEFINE ch == Defined(fields)
           row == Spread(T[ref], ch)
<1>1. CASE Pg!IsLive(T, ref)
  <2>1. AllGiven(ch)
    BY DEF Defined, Restrict, AllGiven
  <2>2. T[ref] \in TenantRows
    BY <1>1 DEF Pg!IsLive, TenantTable
  <2>3. /\ DOMAIN ch \subseteq {"vatName", "label"}
        /\ \A f \in DOMAIN ch : ch[f] \in Texts
    BY DEF Defined, Restrict, Texts
  <2>4. row = [T[ref] EXCEPT
                 !.vatName = IF "vatName" \in DOMAIN ch THEN ch.vatName ELSE @,
                 !.label = IF "label" \in DOMAIN ch THEN ch.label ELSE @]
    BY <2>2, <2>3 DEF Spread, TenantRows
  <2>5. row \in TenantRows
    BY <2>2, <2>3, <2>4 DEF TenantRows
  <2> HIDE DEF ch, row
  <2>6. /\ Pg!Update(T, ref, ch) = Returns(With(T, ref, row), Defined(row))
        /\ Mg!Updated(Docs(T), ref,
             Mg!UpdateOne(Docs(T), ref, Mg!IsLive(Docs(T), ref), ch, {})) =
             Returns(With(Docs(T), ref, Defined(row)), Defined(row))
        /\ Spread(Docs(T)[ref], ch) = Defined(row)
    <3>1. row = Spread(T[ref], ch)
      BY DEF row
    <3> QED BY <1>1, <2>1, <2>5, <3>1, UpdateMakes
  <2>7. Pg!patch(T, ref, fields) = Returns(With(T, ref, row), Defined(row))
    BY <2>6, SharedObjects DEF Pg!patch, ch
  <2>8. Mg!patch(Docs(T), ref, fields)
          = Returns(With(Docs(T), ref, Defined(row)), Defined(row))
    <3>1. Mg!patch(Docs(T), ref, fields)
            = Mg!Updated(Docs(T), ref,
                Mg!UpdateOne(Docs(T), ref, Mg!IsLive(Docs(T), ref), ch, {}))
      BY SharedObjects DEF Mg!patch, ch
    <3> QED BY <2>6, <3>1
  <2>9. Mm!patch(Docs(T), ref, fields)
          = Returns(With(Docs(T), ref, Defined(row)), Defined(row))
    <3>1. Mm!patch(Docs(T), ref, fields)
            = Mm!Replace(Docs(T), ref, Spread(Docs(T)[ref], ch))
      BY <1>1, LiveAlike, SharedObjects DEF Mm!patch, ch
    <3> QED BY <2>6, <3>1, SharedObjects, SharedOutcomes DEF Mm!Replace
  <2> QED BY <2>5, <2>7, <2>8, <2>9, RowSetAlike
<1>2. CASE ~Pg!IsLive(T, ref)
  <2>1. Pg!patch(T, ref, fields) = Throws(T, "not_found")
    BY <1>2, SharedOutcomes DEF Pg!patch, Pg!Update
  <2>2. Mg!patch(Docs(T), ref, fields) = Throws(Docs(T), "not_found")
    BY <1>2, SharedOutcomes, LiveAlike DEF Mg!patch, Mg!Updated, Mg!UpdateOne
  <2>3. Mm!patch(Docs(T), ref, fields) = Throws(Docs(T), "not_found")
    BY <1>2, SharedOutcomes, LiveAlike DEF Mm!patch
  <2> QED BY <2>1, <2>2, <2>3, ThrowAlike
<1> QED BY <1>1, <1>2

\* A scenario's result, or an error, makes a progress of a progress.
LEMMA ProgressStays ==
  ASSUME NEW p \in Progress, NEW passed \in BOOLEAN
  PROVE  /\ WithScenario(p, "s", passed) \in Progress
         /\ WithError(p, "e") \in Progress
<1> DEFINE Results == UNION {[ran -> {"passed", "failed"}] : ran \in SUBSET {"s"}}
<1>1. p.scenarios \in Results
  BY DEF Progress
<1>2. PICK ran \in SUBSET {"s"} : p.scenarios \in [ran -> {"passed", "failed"}]
  BY <1>1
<1> DEFINE r == With(p.scenarios, "s", IF passed THEN "passed" ELSE "failed")
<1>3. r \in [{"s"} -> {"passed", "failed"}]
  BY <1>2 DEF With, Spread
<1>4. r \in Results
  BY <1>3
<1>5. WithScenario(p, "s", passed) = Spread(p, [scenarios |-> r])
  BY DEF WithScenario
<1> HIDE DEF r
<1>6. CASE p \in [scenarios : Results]
  <2>1. /\ Spread(p, [scenarios |-> r]) = [scenarios |-> r]
        /\ WithError(p, "e") = [scenarios |-> p.scenarios, lastError |-> "e"]
    BY <1>6 DEF Spread, WithError
  <2> QED BY <1>1, <1>4, <1>5, <2>1 DEF Progress
<1>7. CASE p \in [scenarios : Results, lastError : {"e"}]
  <2>1. /\ Spread(p, [scenarios |-> r]) = [scenarios |-> r, lastError |-> "e"]
        /\ WithError(p, "e") = [scenarios |-> p.scenarios, lastError |-> "e"]
    BY <1>7 DEF Spread, WithError
  <2> QED BY <1>1, <1>4, <1>5, <2>1 DEF Progress
<1> QED BY <1>6, <1>7 DEF Progress

\* The progress of a scenario is written to a live tenant, or it is unknown.
LEMMA ProgressAlike ==
  ASSUME NEW T, TenantTable(T), NEW ref, NEW passed \in BOOLEAN
  PROVE  Alike(Pg!recordOnboardingProgress(T, ref, "s", passed),
               Mg!recordOnboardingProgress(Docs(T), ref, "s", passed),
               Mm!recordOnboardingProgress(Docs(T), ref, "s", passed))
<1>1. CASE Pg!IsLive(T, ref)
  <2> DEFINE p == WithScenario(T[ref].progress, "s", passed)
             ch == [progress |-> p]
             row == Spread(T[ref], ch)
             u == Mg!UpdateOne(Docs(T), ref, Mg!IsLive(Docs(T), ref), ch, {})
  <2>1. T[ref] \in TenantRows /\ T[ref].progress \in Progress
    BY <1>1 DEF Pg!IsLive, TenantTable, TenantRows
  <2>2. p \in Progress /\ p # Null
    BY <2>1, ProgressStays, NullAssumption
  <2> HIDE DEF p
  <2>3. AllGiven(ch)
    BY <2>2 DEF AllGiven
  <2>4. row = [T[ref] EXCEPT !.progress = p]
    BY <2>1 DEF Spread, TenantRows
  <2>5. row \in TenantRows
    BY <2>1, <2>2, <2>4 DEF TenantRows
  <2>6. Docs(T)[ref].progress = T[ref].progress
    <3>1. Docs(T)[ref] = Defined(T[ref])
      BY <1>1, LiveAlike DEF Pg!IsLive
    <3>2. "progress" \in DOMAIN Defined(T[ref])
      BY <2>1, DocOfRow
    <3> QED BY <2>1, <3>1, <3>2, DocOfRow
  <2> HIDE DEF ch, row
  <2>7. /\ Pg!Update(T, ref, ch) = Returns(With(T, ref, row), Defined(row))
        /\ u.matched
        /\ u.db = With(Docs(T), ref, Defined(row))
        /\ Spread(Docs(T)[ref], ch) = Defined(row)
    <3>1. row = Spread(T[ref], ch)
      BY DEF row
    <3> QED BY <1>1, <2>3, <2>5, <3>1, UpdateMakes
  <2>8. Pg!recordOnboardingProgress(T, ref, "s", passed)
          = Returns(With(T, ref, row), Null)
    <3>1. Pg!recordOnboardingProgress(T, ref, "s", passed)
            = [Pg!Update(T, ref, ch) EXCEPT !.value = Null]
      BY <1>1, SharedProgress DEF Pg!recordOnboardingProgress, ch, p
    <3> QED BY <2>7, <3>1 DEF Returns
  <2>9. Mg!recordOnboardingProgress(Docs(T), ref, "s", passed)
          = Returns(With(Docs(T), ref, Defined(row)), Null)
    <3>1. Mg!IsLive(Docs(T), ref) = TRUE
      BY <1>1, LiveAlike
    <3>2. Mg!WithScenario(Docs(T)[ref].progress, "s", passed) = p
      BY <2>6, SharedProgress DEF p
    <3>3. Mg!recordOnboardingProgress(Docs(T), ref, "s", passed)
            = Mg!Returns(Mg!UpdateOne(Docs(T), ref, TRUE, ch, {}).db, Null)
      BY <3>1, <3>2 DEF Mg!recordOnboardingProgress, ch
    <3>4. Mg!UpdateOne(Docs(T), ref, TRUE, ch, {}).db = u.db
      BY <3>1
    <3> QED BY <2>7, <3>3, <3>4, SharedOutcomes
  <2>10. Mm!recordOnboardingProgress(Docs(T), ref, "s", passed)
          = Returns(With(Docs(T), ref, Defined(row)), Null)
    <3>1. Mm!WithScenario(Docs(T)[ref].progress, "s", passed) = p
      BY <2>6, SharedProgress DEF p
    <3>2. Mm!recordOnboardingProgress(Docs(T), ref, "s", passed)
            = Returns(With(Docs(T), ref, Spread(Docs(T)[ref], ch)), Null)
      BY <1>1, <3>1, LiveAlike, SharedObjects, SharedOutcomes
         DEF Mm!recordOnboardingProgress, ch
    <3> QED BY <2>7, <3>2
  <2> QED BY <2>5, <2>8, <2>9, <2>10, RowSetAlike
<1>2. CASE ~Pg!IsLive(T, ref)
  BY <1>2, LiveAlike, ThrowAlike, SharedOutcomes
     DEF Pg!recordOnboardingProgress, Mg!recordOnboardingProgress,
         Mm!recordOnboardingProgress
<1> QED BY <1>1, <1>2

\* The expiry of the certificate is written to a live tenant, or it is
\* unknown.
LEMMA ExpiryAlike ==
  ASSUME NEW T, TenantTable(T), NEW ref, NEW t \in Nat
  PROVE  Alike(Pg!setProductionExpiry(T, ref, t),
               Mg!setProductionExpiry(Docs(T), ref, t),
               Mm!setProductionExpiry(Docs(T), ref, t))
<1> DEFINE ch == [certExpiresAt |-> t]
           row == Spread(T[ref], ch)
           u == Mg!UpdateOne(Docs(T), ref, Mg!IsLive(Docs(T), ref), ch, {})
<1>0. /\ Pg!setProductionExpiry(T, ref, t)
           = [Pg!Update(T, ref, ch) EXCEPT !.value = Null]
      /\ Mg!setProductionExpiry(Docs(T), ref, t) =
           IF u.matched THEN Mg!Returns(u.db, Null)
           ELSE Mg!Throws(Docs(T), "not_found")
  BY DEF Pg!setProductionExpiry, Mg!setProductionExpiry
<1>1. CASE Pg!IsLive(T, ref)
  <2>1. T[ref] \in TenantRows
    BY <1>1 DEF Pg!IsLive, TenantTable
  <2>2. AllGiven(ch)
    BY NullAssumption DEF AllGiven
  <2>3. row = [T[ref] EXCEPT !.certExpiresAt = t]
    BY <2>1 DEF Spread, TenantRows
  <2>4. row \in TenantRows
    BY <2>1, <2>3 DEF TenantRows, Times
  <2>5. Mm!setProductionExpiry(Docs(T), ref, t)
          = Returns(With(Docs(T), ref, Spread(Docs(T)[ref], ch)), Null)
    BY <1>1, LiveAlike, SharedObjects, SharedOutcomes
       DEF Mm!setProductionExpiry
  <2> HIDE DEF ch, row
  <2>6. /\ Pg!Update(T, ref, ch) = Returns(With(T, ref, row), Defined(row))
        /\ u.matched
        /\ u.db = With(Docs(T), ref, Defined(row))
        /\ Spread(Docs(T)[ref], ch) = Defined(row)
    <3>1. row = Spread(T[ref], ch)
      BY DEF row
    <3> QED BY <1>1, <2>2, <2>4, <3>1, UpdateMakes
  <2> HIDE DEF u
  <2>7. Pg!setProductionExpiry(T, ref, t) = Returns(With(T, ref, row), Null)
    BY <1>0, <2>6 DEF Returns
  <2>8. Mg!setProductionExpiry(Docs(T), ref, t)
          = Returns(With(Docs(T), ref, Defined(row)), Null)
    BY <1>0, <2>6, SharedOutcomes
  <2>9. Mm!setProductionExpiry(Docs(T), ref, t)
          = Returns(With(Docs(T), ref, Defined(row)), Null)
    BY <2>5, <2>6
  <2> QED BY <2>4, <2>7, <2>8, <2>9, RowSetAlike
<1>2. CASE ~Pg!IsLive(T, ref)
  <2>1. ~u.matched
    BY <1>2, LiveAlike DEF Mg!UpdateOne
  <2>2. Pg!setProductionExpiry(T, ref, t) = Throws(T, "not_found")
    BY <1>0, <1>2, SharedOutcomes DEF Pg!Update, Throws
  <2>3. Mm!setProductionExpiry(Docs(T), ref, t) = Throws(Docs(T), "not_found")
    BY <1>2, LiveAlike, SharedOutcomes DEF Mm!setProductionExpiry
  <2> QED BY <1>0, <2>1, <2>2, <2>3, ThrowAlike, SharedOutcomes
<1> QED BY <1>1, <1>2

\* A deletion marks a live tenant; a second one, and one of an unknown
\* tenant, are told apart in the same way.
LEMMA DeleteAlike ==
  ASSUME NEW T, TenantTable(T), NEW ref, NEW t \in Nat
  PROVE  Alike(Pg!softDelete(T, ref, t), Mg!softDelete(Docs(T), ref, t),
               Mm!softDelete(Docs(T), ref, t))
<1> DEFINE ch == [state |-> "revoked", deletedAt |-> t]
           row == Spread(T[ref], ch)
           u == Mg!UpdateOne(Docs(T), ref, Mg!IsLive(Docs(T), ref), ch, {})
           code == IF ref \in DOMAIN T THEN "conflict" ELSE "not_found"
<1>0. Mg!softDelete(Docs(T), ref, t) =
         IF u.matched THEN Mg!Returns(u.db, Null) ELSE Mg!Throws(Docs(T), code)
  BY LiveAlike DEF Mg!softDelete
<1>1. CASE Pg!IsLive(T, ref)
  <2>1. T[ref] \in TenantRows
    BY <1>1 DEF Pg!IsLive, TenantTable
  <2>2. AllGiven(ch)
    BY NullAssumption DEF AllGiven, TenantState
  <2>3. row = [T[ref] EXCEPT !.state = "revoked", !.deletedAt = t]
    <3>1. DOMAIN T[ref] \cup {"state", "deletedAt"} = DOMAIN T[ref]
      BY <2>1 DEF TenantRows
    <3>2. DOMAIN ch = {"state", "deletedAt"}
      OBVIOUS
    <3>3. row = [f \in DOMAIN T[ref] |->
                   IF f \in {"state", "deletedAt"} THEN ch[f] ELSE T[ref][f]]
      BY <3>1, <3>2 DEF Spread
    <3> QED BY <3>3
  <2>4. row \in TenantRows
    BY <2>1, <2>3 DEF TenantRows, Times, TenantState
  <2>5. Pg!softDelete(T, ref, t) = Returns(With(T, ref, row), Null)
    BY <1>1, SharedObjects, SharedOutcomes DEF Pg!softDelete
  <2>6. Mm!softDelete(Docs(T), ref, t)
          = Returns(With(Docs(T), ref, Spread(Docs(T)[ref], ch)), Null)
    BY <1>1, LiveAlike, SharedObjects, SharedOutcomes
       DEF Mm!softDelete, Mm!requireRecord
  <2> HIDE DEF ch, row
  <2>7. /\ u.matched
        /\ u.db = With(Docs(T), ref, Defined(row))
        /\ Spread(Docs(T)[ref], ch) = Defined(row)
    <3>1. row = Spread(T[ref], ch)
      BY DEF row
    <3> QED BY <1>1, <2>2, <2>4, <3>1, UpdateMakes
  <2> HIDE DEF u, code
  <2>8. Mg!softDelete(Docs(T), ref, t)
          = Returns(With(Docs(T), ref, Defined(row)), Null)
    BY <1>0, <2>7, SharedOutcomes
  <2>9. Mm!softDelete(Docs(T), ref, t)
          = Returns(With(Docs(T), ref, Defined(row)), Null)
    BY <2>6, <2>7
  <2> QED BY <2>4, <2>5, <2>8, <2>9, RowSetAlike
<1>2. CASE ~Pg!IsLive(T, ref)
  <2>1. ~u.matched
    BY <1>2, LiveAlike DEF Mg!UpdateOne
  <2>2. Pg!softDelete(T, ref, t) = Throws(T, code)
    BY <1>2, SharedOutcomes DEF Pg!softDelete
  <2>3. Mm!softDelete(Docs(T), ref, t) = Throws(Docs(T), code)
    BY <1>2, LiveAlike, SharedOutcomes DEF Mm!softDelete, Mm!requireRecord
  <2> HIDE DEF code, u
  <2> QED BY <1>0, <2>1, <2>2, <2>3, ThrowAlike, SharedOutcomes
<1> QED BY <1>1, <1>2

\* A change that clears some columns, in Mongo and in memory: the fields that
\* are cleared are taken out of the document, the others set.
LEMMA DefinedOfClearing ==
  ASSUME NEW row, NEW ch, NEW unset, unset \subseteq DOMAIN ch,
         \A f \in DOMAIN ch : ch[f] = Null => f \in unset
  PROVE  Spread(Without(Defined(row), unset), Defined(ch))
           = Defined(Spread(row, ch))
BY DEF Defined, Restrict, Spread, Without

\* What setState changes: the state, both claim columns, and the progress if
\* there is an error to note.
Change(next, o, progress) ==
    Spread([state |-> next, claimedBy |-> o.claimedBy,
            claimExpiresAt |-> o.claimExpiresAt],
           Noting(progress, o.lastError))

StateOption(o) ==
    /\ o.claimedBy \in Texts \cup {Null}
    /\ o.claimExpiresAt \in Times
    /\ o.lastError \in {Null, "e"}

\* The changed row is a row, and the three registries write its document.
LEMMA ChangeMakes ==
  ASSUME NEW R \in TenantRows, NEW next \in TenantState, NEW o, StateOption(o)
  PROVE  LET ch == Change(next, o, R.progress)
             claims == {"claimedBy", "claimExpiresAt"}
             claim == Defined([claimedBy |-> o.claimedBy,
                               claimExpiresAt |-> o.claimExpiresAt])
             N == Noting(R.progress, o.lastError)
         IN  /\ Spread(R, ch) \in TenantRows
             /\ Spread(Without(Defined(R), claims \ DOMAIN claim),
                       Spread(Spread(claim, [state |-> next]), N))
                  = Defined(Spread(R, ch))
             /\ Spread(Without(Defined(R), claims),
                       Spread(Defined([state |-> next, claimedBy |-> o.claimedBy,
                                claimExpiresAt |-> o.claimExpiresAt]), N))
                  = Defined(Spread(R, ch))
<1> DEFINE base == [state |-> next, claimedBy |-> o.claimedBy,
                    claimExpiresAt |-> o.claimExpiresAt]
           claims == {"claimedBy", "claimExpiresAt"}
           claim == Defined([claimedBy |-> o.claimedBy,
                             claimExpiresAt |-> o.claimExpiresAt])
           N == Noting(R.progress, o.lastError)
           ch == Spread(base, N)
           p == IF o.lastError = Null THEN R.progress
                ELSE WithError(R.progress, "e")
<1>1. R.progress \in Progress
  BY DEF TenantRows
<1>2. p \in Progress /\ p # Null /\ next # Null
  BY <1>1, ProgressStays, NullAssumption
<1>3. /\ N = IF o.lastError = Null THEN << >> ELSE [progress |-> p]
      /\ AllGiven(N) /\ DOMAIN N \subseteq {"progress"}
  BY <1>2 DEF Noting, StateOption, AllGiven
<1>4. /\ DOMAIN ch = {"state", "claimedBy", "claimExpiresAt"} \cup DOMAIN N
      /\ ch.state = next /\ ch.claimedBy = o.claimedBy
      /\ ch.claimExpiresAt = o.claimExpiresAt
      /\ "progress" \in DOMAIN N => ch.progress = p
      /\ o.lastError = Null => "progress" \notin DOMAIN N
      /\ o.lastError # Null => "progress" \in DOMAIN N
  <2> HIDE DEF p, N
  <2>1. CASE o.lastError = Null
    BY <1>3, <2>1 DEF Spread
  <2>2. CASE o.lastError # Null
    BY <1>3, <2>2 DEF Spread
  <2> QED BY <2>1, <2>2
<1>5. Spread(base, N) = ch /\ ch = Change(next, o, R.progress)
  BY DEF Change
<1>6. Spread(Defined(base), N) = Defined(ch)
  BY <1>3, DefinedOfSpread
<1>7. Spread(claim, [state |-> next]) = Defined(base)
  BY <1>2 DEF Spread, Defined, Restrict
<1>8. DOMAIN claim = {f \in claims : base[f] # Null}
  BY DEF Defined, Restrict
<1> HIDE DEF p, N, ch, claim
<1>9. Spread(R, ch) = [R EXCEPT !.state = next, !.claimedBy = o.claimedBy,
                                !.claimExpiresAt = o.claimExpiresAt,
                                !.progress = p]
  <2>1. DOMAIN R \cup DOMAIN ch = DOMAIN R
    BY <1>3, <1>4 DEF TenantRows
  <2>2. R = [f \in DOMAIN R |-> R[f]]
    BY DEF TenantRows
  <2>3. o.lastError = Null => p = R.progress
    BY DEF p
  <2>4. Spread(R, ch) = [f \in DOMAIN R |-> IF f \in DOMAIN ch THEN ch[f] ELSE R[f]]
    BY <2>1 DEF Spread
  <2>5. {"state", "claimedBy", "claimExpiresAt", "progress"} \subseteq DOMAIN R
    BY DEF TenantRows
  <2> DEFINE X == [R EXCEPT !.state = next, !.claimedBy = o.claimedBy,
                            !.claimExpiresAt = o.claimExpiresAt, !.progress = p]
  <2>6. X = [f \in DOMAIN R |-> X[f]]
    BY <2>2
  <2>7. ASSUME NEW f \in DOMAIN R
        PROVE  (IF f \in DOMAIN ch THEN ch[f] ELSE R[f]) = X[f]
    <3>1. CASE f \in DOMAIN ch
      BY <1>3, <1>4, <2>5, <2>7, <3>1
    <3>2. CASE f \notin DOMAIN ch
      BY <1>3, <1>4, <2>3, <2>5, <2>7, <3>2
    <3> QED BY <3>1, <3>2
  <2> HIDE DEF X
  <2>8. Spread(R, ch) = X
    BY <2>4, <2>6, <2>7
  <2> QED BY <2>8 DEF X
<1>10. Spread(R, ch) \in TenantRows
  BY <1>2, <1>9 DEF TenantRows, StateOption
<1>11. \A f \in DOMAIN ch : ch[f] = Null => f \in claims
  BY <1>2, <1>3, <1>4
<1>12. \A f \in DOMAIN ch : ch[f] = Null => f \in claims \ DOMAIN claim
  BY <1>4, <1>8, <1>11
<1>13. claims \subseteq DOMAIN ch
  BY <1>4
<1>14. Spread(Without(Defined(R), claims), Defined(ch)) = Defined(Spread(R, ch))
  BY <1>11, <1>13, DefinedOfClearing
<1>15. Spread(Without(Defined(R), claims \ DOMAIN claim), Defined(ch))
         = Defined(Spread(R, ch))
  BY <1>12, <1>13, DefinedOfClearing
<1>16. Change(next, o, R.progress) = ch
  BY <1>5
<1> QED BY <1>6, <1>7, <1>10, <1>14, <1>15, <1>16 DEF N, claim

\* Whether a live tenant is in the expected state, its claim expired if it is
\* being onboarded, is decided alike on the row and on its document.
LEMMA ExpectedAlike ==
  ASSUME NEW R \in TenantRows, NEW from, NEW t
  PROVE  /\ Mg!StateFilter(Defined(R), from, t) <=> Pg!StateMatches(R, from, t)
         /\ (Mm!fromExactMatch(Defined(R), from) \/ Mm!lockNotHeld(Defined(R), t))
              <=> Pg!StateMatches(R, from, t)
<1>1. Defined(R).state = R.state
  BY DocOfRow
<1>2. "claimExpiresAt" \in DOMAIN Defined(R) <=> R.claimExpiresAt # Null
  BY DocOfRow DEF TenantFields
<1>3. "claimExpiresAt" \in DOMAIN Defined(R) =>
        Defined(R).claimExpiresAt = R.claimExpiresAt
  BY DocOfRow
<1> QED BY <1>1, <1>2, <1>3
    DEF Mg!StateFilter, Mg!Exists, Pg!StateMatches, Mm!fromExactMatch,
        Mm!lockNotHeld, Mm!Has

\* setState moves a live tenant in the expected state, its claim and its last
\* error; elsewhere it is a conflict, or the tenant is unknown.
LEMMA SetStateAlike ==
  ASSUME NEW T, TenantTable(T), NEW ref, NEW next \in TenantState, NEW o,
         StateOption(o), NEW t
  PROVE  Alike(Pg!setState(T, ref, next, o, t),
               Mg!setState(Docs(T), ref, next, o, t),
               Mm!setState(Docs(T), ref, next, o, t))
<1> DEFINE R == T[ref]
           d == Docs(T)[ref]
           ch == Change(next, o, R.progress)
           row == Spread(R, ch)
           claims == {"claimedBy", "claimExpiresAt"}
           claim == Defined([claimedBy |-> o.claimedBy,
                             claimExpiresAt |-> o.claimExpiresAt])
           N == Noting(R.progress, o.lastError)
           set == Spread(Spread(claim, [state |-> next]), N)
           base == [state |-> next, claimedBy |-> o.claimedBy,
                    claimExpiresAt |-> o.claimExpiresAt]
           expected == o.expectedFrom # Null =>
                         Pg!StateMatches(R, o.expectedFrom, t)
           matches == /\ Mg!IsLive(Docs(T), ref)
                      /\ o.expectedFrom # Null =>
                           Mg!StateFilter(d, o.expectedFrom, t)
           u == Mg!UpdateOne(Docs(T), ref, matches, set, claims \ DOMAIN claim)
<1>1. CASE Pg!IsLive(T, ref)
  <2>1. R \in TenantRows /\ d = Defined(R) /\ ref \in DOMAIN T
    BY <1>1, LiveAlike DEF Pg!IsLive, TenantTable
  <2>2. d.progress = R.progress
    BY <2>1, DocOfRow
  <2>3. /\ matches <=> expected
        /\ (o.expectedFrom # Null => \/ Mm!fromExactMatch(d, o.expectedFrom)
                                     \/ Mm!lockNotHeld(d, t)) <=> expected
    BY <1>1, <2>1, ExpectedAlike, LiveAlike
  <2>4. /\ row \in TenantRows
        /\ Spread(Without(d, claims \ DOMAIN claim), set) = Defined(row)
        /\ Spread(Without(d, claims), Spread(Defined(base), N)) = Defined(row)
    BY <2>1, ChangeMakes
  <2>5. Pg!setState(T, ref, next, o, t) =
          IF expected THEN Pg!Update(T, ref, ch) ELSE Throws(T, "conflict")
    BY <1>1, SharedObjects, SharedOutcomes, SharedProgress
       DEF Pg!setState, Change
  <2>6. Mg!setState(Docs(T), ref, next, o, t) =
          IF ~u.matched /\ Mg!IsLive(Docs(T), ref)
          THEN Throws(Docs(T), "conflict") ELSE Mg!Updated(Docs(T), ref, u)
    <3>1. ref \in DOMAIN Docs(T)
      BY <2>1, LiveAlike
    <3> QED BY <2>2, <3>1, SharedObjects, SharedOutcomes, SharedProgress
            DEF Mg!setState
  <2>7. Mm!setState(Docs(T), ref, next, o, t) =
          IF expected
          THEN Mm!Replace(Docs(T), ref,
                 Spread(Without(d, claims), Spread(Defined(base), N)))
          ELSE Throws(Docs(T), "conflict")
    <3>1. Mm!requireRecord(Docs(T), ref)
      BY <1>1, LiveAlike
    <3> QED BY <2>2, <2>3, <3>1, SharedObjects, SharedOutcomes, SharedProgress
            DEF Mm!setState
  <2> HIDE DEF ch, row, set, N, claim, base, expected, matches
  <2>8. CASE expected
    <3> DEFINE D == With(Docs(T), ref, Defined(row))
    <3>1. Pg!setState(T, ref, next, o, t) = Returns(With(T, ref, row), Defined(row))
      BY <1>1, <2>5, <2>8, SharedObjects, SharedOutcomes
         DEF Pg!Update, Pg!rowToTenant, row
    <3>2. u.matched /\ u.db = D
      <4>1. /\ u.matched
            /\ u.db = Mg!With(Docs(T), ref,
                        Mg!Spread(Mg!Without(d, claims \ DOMAIN claim), set))
        BY <2>3, <2>8 DEF Mg!UpdateOne
      <4> QED BY <2>4, <4>1, SharedObjects
    <3>3. D[ref] = Defined(row)
      BY DEF With, Spread
    <3>4. Mg!docToTenant(Defined(row)) = Defined(row)
      BY <2>4, DocOfRow
    <3> HIDE DEF u, D
    <3>5. Mg!setState(Docs(T), ref, next, o, t) = Returns(D, Defined(row))
      BY <2>6, <3>2, <3>3, <3>4, SharedOutcomes DEF Mg!Updated
    <3>6. Mm!setState(Docs(T), ref, next, o, t) = Returns(D, Defined(row))
      BY <2>4, <2>7, <2>8, SharedObjects, SharedOutcomes DEF Mm!Replace, D
    <3> QED BY <2>4, <3>1, <3>5, <3>6, RowSetAlike DEF D
  <2>9. CASE ~expected
    <3>1. ~u.matched
      BY <2>3, <2>9 DEF Mg!UpdateOne
    <3>2. Mg!IsLive(Docs(T), ref)
      BY <1>1, LiveAlike
    <3> HIDE DEF u
    <3> QED BY <2>5, <2>6, <2>7, <2>9, <3>1, <3>2, ThrowAlike
  <2> QED BY <2>8, <2>9
<1>2. CASE ~Pg!IsLive(T, ref)
  <2>1. ~Mg!IsLive(Docs(T), ref) /\ ~Mm!requireRecord(Docs(T), ref)
    BY <1>2, LiveAlike
  <2>2. Pg!setState(T, ref, next, o, t) = Throws(T, "not_found")
    BY <1>2, SharedOutcomes DEF Pg!setState, Pg!Update
  <2>3. Mg!setState(Docs(T), ref, next, o, t) = Throws(Docs(T), "not_found")
    BY <2>1, SharedOutcomes DEF Mg!setState, Mg!Updated, Mg!UpdateOne
  <2>4. Mm!setState(Docs(T), ref, next, o, t) = Throws(Docs(T), "not_found")
    BY <2>1, SharedOutcomes DEF Mm!setState
  <2> QED BY <2>2, <2>3, <2>4, ThrowAlike
<1> QED BY <1>1, <1>2

\* Every call of TenantStore keeps the three registries alike and is answered
\* alike.
LEMMA TenantCallAlike ==
  ASSUME now \in Nat, TenantsAlike, TenantCall
  PROVE  TenantsAlike' /\ agreed'
<1>1. /\ store = "tenants" /\ store' = store
      /\ TenantTable(pg) /\ mongo = Docs(pg) /\ mem = Docs(pg)
  BY DEF TenantCall, Others, TenantsAlike
<1>2. ASSUME NEW P, NEW M, NEW W, Lockstep(P, M, W), Alike(P, M, W)
      PROVE  TenantsAlike' /\ agreed'
  BY <1>2 DEF Lockstep, Alike, TenantsAlike
<1>3. CASE Create
  <2> PICK ref \in Refs, input \in Inputs :
         Lockstep(Pg!create(pg, ref, input, now),
                  Mg!create(Docs(pg), ref, input, now),
                  Mm!create(Docs(pg), ref, input, now))
    BY <1>1, <1>3 DEF Create
  <2> QED BY <1>1, <1>2, CreateAlike
<1>4. CASE Patch
  <2> PICK ref \in Refs,
           fields \in [vatName : {Null, "m"}, label : {Null, "l"}] :
         Lockstep(Pg!patch(pg, ref, fields), Mg!patch(Docs(pg), ref, fields),
                  Mm!patch(Docs(pg), ref, fields))
    BY <1>1, <1>4 DEF Patch
  <2> QED BY <1>1, <1>2, PatchAlike
<1>5. CASE SetState
  <2>1. PICK ref \in Refs, next \in TenantState, o \in Options :
         Lockstep(Pg!setState(pg, ref, next, o, now),
                  Mg!setState(Docs(pg), ref, next, o, now),
                  Mm!setState(Docs(pg), ref, next, o, now))
    BY <1>1, <1>5 DEF SetState
  <2>2. StateOption(o)
    <3>1. PICK c \in Claims, from \in {Null, "created", "onboarding"},
               e \in {Null, "e"} :
             o = Spread(c, [expectedFrom |-> from, lastError |-> e])
      BY DEF Options
    <3>2. /\ DOMAIN c = {"claimedBy", "claimExpiresAt"}
          /\ c.claimedBy \in {Null, "i"} /\ c.claimExpiresAt \in {Null, now + 1}
      BY DEF Claims
    <3>3. /\ o.claimedBy = c.claimedBy /\ o.claimExpiresAt = c.claimExpiresAt
          /\ o.lastError = e
      BY <3>1, <3>2 DEF Spread
    <3> QED BY <3>2, <3>3 DEF StateOption, Texts, Times
  <2> QED BY <1>1, <1>2, <2>1, <2>2, SetStateAlike
<1>6. CASE RecordProgress
  <2> PICK ref \in Refs, passed \in BOOLEAN :
         Lockstep(Pg!recordOnboardingProgress(pg, ref, "s", passed),
                  Mg!recordOnboardingProgress(Docs(pg), ref, "s", passed),
                  Mm!recordOnboardingProgress(Docs(pg), ref, "s", passed))
    BY <1>1, <1>6 DEF RecordProgress
  <2> QED BY <1>1, <1>2, ProgressAlike
<1>7. CASE SetExpiry
  <2>1. PICK ref \in Refs :
         Lockstep(Pg!setProductionExpiry(pg, ref, now + 1),
                  Mg!setProductionExpiry(Docs(pg), ref, now + 1),
                  Mm!setProductionExpiry(Docs(pg), ref, now + 1))
    BY <1>1, <1>7 DEF SetExpiry
  <2>2. now + 1 \in Nat
    OBVIOUS
  <2> QED BY <1>1, <1>2, <2>1, <2>2, ExpiryAlike
<1>8. CASE SoftDelete
  <2> PICK ref \in Refs :
         Lockstep(Pg!softDelete(pg, ref, now), Mg!softDelete(Docs(pg), ref, now),
                  Mm!softDelete(Docs(pg), ref, now))
    BY <1>1, <1>8 DEF SoftDelete
  <2> QED BY <1>1, <1>2, DeleteAlike
<1> QED BY <1>3, <1>4, <1>5, <1>6, <1>7, <1>8 DEF TenantCall

\* The listings select the same tenants, and order them by the same rule.
LEMMA TenantsReadAlike ==
  ASSUME NEW T, TenantTable(T), NEW t \in Nat
  PROVE  /\ \A ref \in Refs : /\ Pg!get(T, ref) = Mg!get(Docs(T), ref)
                              /\ Mg!get(Docs(T), ref) = Mm!get(Docs(T), ref)
         /\ \A f \in Filters : /\ Pg!list(T, f, t) = Mg!list(Docs(T), f, t)
                               /\ Mg!list(Docs(T), f, t) = Mm!list(Docs(T), f, t)
<1>1. \A q \in DOMAIN T : /\ T[q] \in TenantRows
                          /\ Docs(T)[q] = Defined(T[q])
                          /\ Mg!docToTenant(Defined(T[q])) = Defined(T[q])
  <2> TAKE q \in DOMAIN T
  <2>1. T[q] \in TenantRows
    BY DEF TenantTable
  <2>2. Docs(T)[q] = Defined(T[q])
    BY LiveAlike
  <2> QED BY <2>1, <2>2, DocOfRow
<1>2. \A ref \in Refs : /\ Pg!get(T, ref) = Mg!get(Docs(T), ref)
                        /\ Mg!get(Docs(T), ref) = Mm!get(Docs(T), ref)
  <2> TAKE ref \in Refs
  <2>1. CASE Pg!IsLive(T, ref)
    <3>1. ref \in DOMAIN T
      BY <2>1 DEF Pg!IsLive
    <3> QED BY <1>1, <2>1, <3>1, LiveAlike, SharedObjects
            DEF Pg!get, Mg!get, Mm!get, Pg!rowToTenant
  <2>2. CASE ~Pg!IsLive(T, ref)
    BY <2>2, LiveAlike DEF Pg!get, Mg!get, Mm!get
  <2> QED BY <2>1, <2>2
<1>3. ASSUME NEW S
      PROVE  Pg!Listed(S) = Mg!Listed(S) /\ Mg!Listed(S) = Mm!Listed(S)
  <2>1. /\ Pg!Cardinality(S) = Mg!Cardinality(S)
        /\ Mg!Cardinality(S) = Mm!Cardinality(S)
    BY DEF Pg!Cardinality, Mg!Cardinality, Mm!Cardinality
  <2> QED BY <2>1 DEF Pg!Listed, Mg!Listed, Mm!Listed, Pg!Before, Mg!Before,
                      Mm!Before
<1>4. ASSUME NEW f \in Filters
      PROVE  /\ Pg!list(T, f, t) = Mg!list(Docs(T), f, t)
             /\ Mg!list(Docs(T), f, t) = Mm!list(Docs(T), f, t)
  <2> DEFINE sel(q) ==
               /\ f.includeDeleted \/ T[q].deletedAt = Null
               /\ f.state # Null => T[q].state = f.state
               /\ f.expiringWithin # Null =>
                    /\ T[q].certExpiresAt # Null
                    /\ T[q].certExpiresAt <= t + f.expiringWithin
             A == {Defined(T[q]) : q \in {r \in DOMAIN T : sel(r)}}
  <2>1. /\ f.includeDeleted \in BOOLEAN
        /\ f.expiringWithin \in {Null, 0}
    BY DEF Filters
  <2>2. ASSUME NEW q \in DOMAIN T
        PROVE  LET d == Docs(T)[q] IN
          /\ "deletedAt" \in DOMAIN d <=> T[q].deletedAt # Null
          /\ "certExpiresAt" \in DOMAIN d <=> T[q].certExpiresAt # Null
          /\ d.state = T[q].state
          /\ "certExpiresAt" \in DOMAIN d => d.certExpiresAt = T[q].certExpiresAt
          /\ T[q].certExpiresAt \in Times
    <3>1. T[q] \in TenantRows /\ Docs(T)[q] = Defined(T[q])
      BY <1>1
    <3>2. T[q].certExpiresAt \in Times
      BY <3>1 DEF TenantRows
    <3> QED BY <3>1, <3>2, DocOfRow DEF TenantFields
  <2>3. Pg!list(T, f, t) = Pg!Listed(A)
    <3>1. \A x : Pg!rowToTenant(x) = Defined(x)
      BY SharedObjects DEF Pg!rowToTenant
    <3> QED BY <3>1 DEF Pg!list
  <2>4. Mg!list(Docs(T), f, t) = Mg!Listed(A)
    <3> DEFINE D == Docs(T)
               B == {Mg!docToTenant(D[r]) : r \in {q \in DOMAIN D :
                       /\ f.includeDeleted \/ ~Mg!Exists(D[q], "deletedAt")
                       /\ f.state # Null => D[q].state = f.state
                       /\ f.expiringWithin # Null =>
                            /\ Mg!Exists(D[q], "certExpiresAt")
                            /\ D[q].certExpiresAt <= t + f.expiringWithin}}
    <3>1. {q \in DOMAIN D :
             /\ f.includeDeleted \/ ~Mg!Exists(D[q], "deletedAt")
             /\ f.state # Null => D[q].state = f.state
             /\ f.expiringWithin # Null =>
                  /\ Mg!Exists(D[q], "certExpiresAt")
                  /\ D[q].certExpiresAt <= t + f.expiringWithin}
            = {r \in DOMAIN T : sel(r)}
      BY <2>1, <2>2, LiveAlike DEF Mg!Exists
    <3>2. B = A
      BY <1>1, <3>1
    <3> QED BY <3>2 DEF Mg!list
  <2>5. Mm!list(Docs(T), f, t) = Mm!Listed(A)
    <3> DEFINE D == Docs(T)
               skips(r) ==
                 \/ Mm!Has(r, "deletedAt") /\ ~f.includeDeleted
                 \/ f.state # Null /\ r.state # f.state
                 \/ f.expiringWithin # Null /\ ~Mm!Has(r, "certExpiresAt")
                 \/ f.expiringWithin # Null
                      /\ r.certExpiresAt > t + f.expiringWithin
               B == {r \in {D[q] : q \in DOMAIN D} : ~skips(r)}
    <3>1. \A q \in DOMAIN T : ~skips(D[q]) <=> sel(q)
      <4> TAKE q \in DOMAIN T
      <4>1. CASE f.expiringWithin = Null
        BY <2>1, <2>2, <4>1 DEF Mm!Has
      <4>2. CASE f.expiringWithin = 0 /\ f.expiringWithin # Null
        BY <2>1, <2>2, <4>2 DEF Mm!Has, Times
      <4> QED BY <2>1, <4>1, <4>2
    <3>2. DOMAIN D = DOMAIN T /\ \A q \in DOMAIN T : D[q] = Defined(T[q])
      BY <1>1, LiveAlike
    <3> HIDE DEF skips, sel, D
    <3>3. B = A
      BY <3>1, <3>2
    <3> QED BY <3>3 DEF Mm!list, skips, D
  <2> HIDE DEF A
  <2> QED BY <1>3, <2>3, <2>4, <2>5
<1> QED BY <1>2, <1>4

-----------------------------------------------------------------------------
\* An envelope of a stored value is a value.
LEMMA EnvelopesAreValues == Null \notin Envelopes
<1> SUFFICES ASSUME NEW c \in Ciphers \ {Null}, NEW material \in Materials,
                    NEW f \in DOMAIN material
             PROVE  encrypt(c, material[f]) # Null
  BY DEF Envelopes
<1> QED BY NullAssumption

\* put writes, in all three, an envelope for each field that is given.
LEMMA PutAlike ==
  ASSUME VaultsAlike, Put
  PROVE  VaultsAlike' /\ agreed'
<1>1. /\ store = "vault" /\ store' = store /\ cipher' = cipher
      /\ pg \in [DOMAIN pg -> VaultRows] /\ mongo = Docs(pg) /\ mem = Docs(pg)
      /\ cipher \in Ciphers \ {Null}
  BY DEF Put, VaultsAlike
<1>2. PICK ref \in Refs, material \in Materials :
        Lockstep(Pg!put(pg, cipher, ref, material),
                 Mg!put(Docs(pg), cipher, ref, material),
                 Mm!put(Docs(pg), cipher, ref, material))
  BY <1>1 DEF Put
<1> DEFINE row == [production |-> encrypt(cipher, material.production),
                   compliance |-> IF material.compliance = Null THEN Null
                                  ELSE encrypt(cipher, material.compliance)]
           given == Defined(material)
           doc == [f \in DOMAIN given |-> encrypt(cipher, given[f])]
<1>3. /\ DOMAIN material = {"production", "compliance"}
      /\ material.production # Null
  BY MaterialsAssumption
<1>4. \A f \in DOMAIN material : encrypt(cipher, material[f]) \in Envelopes
  BY <1>1 DEF Envelopes
<1>5. row \in VaultRows
  BY <1>3, <1>4 DEF VaultRows
<1>6. Defined(row) = doc
  <2>1. \A f \in DOMAIN material : encrypt(cipher, material[f]) # Null
    BY <1>4, EnvelopesAreValues
  <2> QED BY <1>3, <2>1 DEF Defined, Restrict
<1>7. Pg!put(pg, cipher, ref, material) = Returns(With(pg, ref, row), Null)
  <2>1. ASSUME NEW v PROVE Pg!encrypt(cipher, v) = encrypt(cipher, v)
    BY DEF Pg!encrypt, encrypt
  <2> QED BY <2>1, SharedObjects, SharedOutcomes DEF Pg!put, Pg!encryptOptional
<1>8. Mg!put(Docs(pg), cipher, ref, material).db = With(Docs(pg), ref, doc)
  <2>1. ref \in DOMAIN Docs(pg) => DOMAIN Docs(pg)[ref] \subseteq DOMAIN material
    BY <1>1, <1>3 DEF Docs, Defined, Restrict, VaultRows
  <2>2. Sealed([material |-> Defined(material), kid |-> cipher.activeKid,
                alg |-> cipher.alg]) = doc
    BY DEF Sealed, encrypt
  <2> HIDE DEF doc
  <2>3. Mg!put(Docs(pg), cipher, ref, material).db =
          Mg!With(Docs(pg), ref,
                  Sealed([material |-> Defined(material),
                          kid |-> cipher.activeKid, alg |-> cipher.alg]))
    BY <2>1, PutSeals
  <2>4. Mg!With(Docs(pg), ref, doc) = With(Docs(pg), ref, doc)
    BY SharedObjects
  <2> QED BY <2>2, <2>3, <2>4
<1>9. Answer(Mg!put(Docs(pg), cipher, ref, material))
        = [value |-> Null, error |-> Null]
  BY DEF Mg!put, Mg!Returns, Answer
<1>10. Mm!put(Docs(pg), cipher, ref, material)
         = Returns(With(Docs(pg), ref, doc), Null)
  <2>1. ASSUME NEW v PROVE Mm!encrypt(cipher, v) = encrypt(cipher, v)
    BY DEF Mm!encrypt, encrypt
  <2> QED BY <2>1, SharedObjects, SharedOutcomes DEF Mm!put
<1> HIDE DEF row, doc
<1>11. agreed'
  <2>1. /\ Answer(Pg!put(pg, cipher, ref, material))
             = [value |-> Null, error |-> Null]
        /\ Answer(Mm!put(Docs(pg), cipher, ref, material))
             = [value |-> Null, error |-> Null]
    BY <1>7, <1>10 DEF Answer, Returns
  <2> QED BY <1>2, <1>9, <2>1 DEF Lockstep
<1>12. /\ pg' = With(pg, ref, row)
       /\ mongo' = With(Docs(pg), ref, doc) /\ mem' = With(Docs(pg), ref, doc)
  BY <1>2, <1>7, <1>8, <1>10 DEF Lockstep, Returns
<1>13. pg' \in [DOMAIN pg' -> VaultRows]
  BY <1>1, <1>5, <1>12 DEF With, Spread
<1>14. mongo' = Docs(pg') /\ mem' = mongo'
  BY <1>6, <1>12, DocsOfWith
<1> QED BY <1>1, <1>11, <1>13, <1>14 DEF VaultsAlike

\* A deletion takes the row out of all three.
LEMMA DeleteMaterialAlike ==
  ASSUME VaultsAlike, Delete
  PROVE  VaultsAlike' /\ agreed'
<1>1. /\ store = "vault" /\ store' = store /\ cipher' = cipher
      /\ pg \in [DOMAIN pg -> VaultRows] /\ mongo = Docs(pg) /\ mem = Docs(pg)
      /\ cipher \in Ciphers \ {Null}
  BY DEF Delete, VaultsAlike
<1>2. PICK ref \in Refs :
        Lockstep(Pg!deleteMaterial(pg, ref), Mg!deleteMaterial(Docs(pg), ref),
                 Mm!deleteMaterial(Docs(pg), ref))
  BY <1>1 DEF Delete
<1>3. /\ Pg!deleteMaterial(pg, ref) = Returns(Without(pg, {ref}), Null)
      /\ Mg!deleteMaterial(Docs(pg), ref) = Returns(Without(Docs(pg), {ref}), Null)
      /\ Mm!deleteMaterial(Docs(pg), ref) = Returns(Without(Docs(pg), {ref}), Null)
  BY SharedObjects, SharedOutcomes
     DEF Pg!deleteMaterial, Mg!deleteMaterial, Mm!deleteMaterial
<1>4. /\ agreed'
      /\ pg' = Without(pg, {ref})
      /\ mongo' = Without(Docs(pg), {ref}) /\ mem' = mongo'
  <2>1. /\ Answer(Pg!deleteMaterial(pg, ref)) = [value |-> Null, error |-> Null]
        /\ Answer(Mg!deleteMaterial(Docs(pg), ref))
             = [value |-> Null, error |-> Null]
        /\ Answer(Mm!deleteMaterial(Docs(pg), ref))
             = [value |-> Null, error |-> Null]
    BY <1>3 DEF Answer, Returns
  <2>2. agreed'
    BY <1>2, <2>1 DEF Lockstep
  <2> QED BY <1>2, <1>3, <2>2 DEF Lockstep, Returns
<1>5. pg' \in [DOMAIN pg' -> VaultRows]
  BY <1>1, <1>4 DEF Without, Restrict
<1>6. mongo' = Docs(pg')
  BY <1>4 DEF Without, Restrict, Docs
<1> QED BY <1>1, <1>4, <1>5, <1>6 DEF VaultsAlike

\* A document is opened, or refused, as the row without its NULL columns is.
LEMMA VaultReadsAlike ==
  ASSUME NEW V, NEW c, NEW ref
  PROVE  LET p == Answer(Pg!getMaterial(V, c, ref))
         IN  /\ p = Answer(Mg!getMaterial(Docs(V), c, ref))
             /\ p = Answer(Mm!getMaterial(Docs(V), c, ref))
<1>1. DOMAIN Docs(V) = DOMAIN V /\ (ref \in DOMAIN V => Docs(V)[ref] = Defined(V[ref]))
  BY DEF Docs
<1>2. CASE ref \notin DOMAIN V
  BY <1>1, <1>2 DEF Pg!getMaterial, Mg!getMaterial, Mm!getMaterial, Answer,
     Pg!Returns, Mg!Returns, Mm!Returns
<1>3. CASE ref \in DOMAIN V
  <2> DEFINE d == Defined(V[ref])
             opens == \A f \in DOMAIN d : CanDecrypt(c, d[f])
             opened == [f \in DOMAIN d |-> decrypt(d[f])]
  <2>1. Docs(V)[ref] = d /\ Pg!Defined(V[ref]) = d
    BY <1>1, <1>3, SharedObjects
  <2>2. ASSUME NEW e
        PROVE  /\ Pg!CanDecrypt(c, e) <=> CanDecrypt(c, e)
               /\ Mg!CanDecrypt(c, e) <=> CanDecrypt(c, e)
               /\ Mm!CanDecrypt(c, e) <=> CanDecrypt(c, e)
               /\ Pg!decrypt(e) = decrypt(e) /\ Mg!decrypt(e) = decrypt(e)
               /\ Mm!decrypt(e) = decrypt(e)
    BY DEF Pg!CanDecrypt, Mg!CanDecrypt, Mm!CanDecrypt, CanDecrypt, Pg!decrypt,
           Mg!decrypt, Mm!decrypt, decrypt
  <2> HIDE DEF d
  <2>3. Pg!getMaterial(V, c, ref) =
          IF opens THEN Returns(V, opened) ELSE Throws(V, "cipher")
    BY <1>3, <2>1, <2>2, SharedOutcomes DEF Pg!getMaterial
  <2>4. Mg!getMaterial(Docs(V), c, ref) =
          IF opens THEN Returns(Docs(V), opened) ELSE Throws(Docs(V), "cipher")
    BY <1>1, <1>3, <2>1, <2>2, SharedOutcomes DEF Mg!getMaterial
  <2>5. Mm!getMaterial(Docs(V), c, ref) =
          IF opens THEN Returns(Docs(V), opened) ELSE Throws(Docs(V), "cipher")
    BY <1>1, <1>3, <2>1, <2>2, SharedOutcomes DEF Mm!getMaterial
  <2> HIDE DEF opens, opened
  <2> QED BY <2>3, <2>4, <2>5 DEF Answer, Returns, Throws
<1> QED BY <1>2, <1>3

-----------------------------------------------------------------------------
\* The document of a key's row.
LEMMA DocOfKey ==
  ASSUME NEW row \in KeyRows
  PROVE  /\ DOMAIN row = {"tenantRef", "hash", "createdAt", "lastUsedAt",
                          "revokedAt"}
         /\ DOMAIN Defined(row) = {f \in DOMAIN row : row[f] # Null}
         /\ \A f \in DOMAIN Defined(row) : Defined(row)[f] = row[f]
         /\ {"tenantRef", "hash", "createdAt"} \subseteq DOMAIN Defined(row)
         /\ Defined(row) = [f \in DOMAIN Defined(row) |-> row[f]]
<1>1. DOMAIN row = {"tenantRef", "hash", "createdAt", "lastUsedAt", "revokedAt"}
  BY DEF KeyRows
<1>2. row.tenantRef # Null /\ row.hash # Null /\ row.createdAt # Null
  BY NullAssumption DEF KeyRows
<1> QED BY <1>1, <1>2 DEF Defined, Restrict

\* Stamping a key with a time, in a row and in its document.
LEMMA StampedDoc ==
  ASSUME NEW row \in KeyRows, NEW t \in Nat
  PROVE  /\ Defined([row EXCEPT !.lastUsedAt = t])
              = Spread(Defined(row), [lastUsedAt |-> t])
         /\ Defined([row EXCEPT !.revokedAt = t])
              = Spread(Defined(row), [revokedAt |-> t])
<1>1. DOMAIN row = {"tenantRef", "hash", "createdAt", "lastUsedAt", "revokedAt"}
  BY DEF KeyRows
<1>2. t # Null
  BY NullAssumption
<1> QED BY <1>1, <1>2 DEF Defined, Restrict, Spread

\* A revocation is stamped in memory as in the row.
LEMMA RevokedAlike ==
  ASSUME NEW row \in KeyRows, NEW object, KeyAlike(row, object), NEW t \in Nat
  PROVE  KeyAlike([row EXCEPT !.revokedAt = t], Spread(object, [revokedAt |-> t]))
<1> DEFINE row2 == [row EXCEPT !.revokedAt = t]
           object2 == Spread(object, [revokedAt |-> t])
<1>1. DOMAIN row = {"tenantRef", "hash", "createdAt", "lastUsedAt", "revokedAt"}
  BY DocOfKey
<1>2. Defined(row2) = Spread(Defined(row), [revokedAt |-> t])
  BY StampedDoc
<1>3. /\ DOMAIN object2 = DOMAIN object \cup {"revokedAt"}
      /\ object2 = [f \in DOMAIN object2 |-> object2[f]]
      /\ object2.revokedAt = t
      /\ \A f \in DOMAIN object \ {"revokedAt"} : object2[f] = object[f]
  BY DEF Spread
<1>4. DOMAIN Defined(row2) = DOMAIN Defined(row) \cup {"revokedAt"}
  BY <1>2 DEF Spread
<1>5. /\ row2.revokedAt = t
      /\ \A f \in DOMAIN row \ {"revokedAt"} : row2[f] = row[f]
      /\ row2.lastUsedAt = row.lastUsedAt
  BY <1>1
<1>6. DOMAIN object \subseteq DOMAIN row
  BY DocOfKey DEF KeyAlike
<1>7. row.lastUsedAt # Null => "lastUsedAt" \in DOMAIN object
  BY <1>1, DocOfKey DEF KeyAlike
<1> HIDE DEF row2, object2
<1>8. DOMAIN object2 = DOMAIN Defined(row2)
  BY <1>3, <1>4 DEF KeyAlike
<1>9. \A f \in DOMAIN object2 \ {"lastUsedAt"} : object2[f] = row2[f]
  BY <1>3, <1>5, <1>6 DEF KeyAlike
<1>10. row2.lastUsedAt # Null => /\ object2.lastUsedAt \in Nat
                                 /\ object2.lastUsedAt - row2.lastUsedAt < Debounce
  <2>1. row.lastUsedAt # Null => object2.lastUsedAt = object.lastUsedAt
    BY <1>3, <1>7
  <2> QED BY <1>5, <2>1 DEF KeyAlike
<1>11. KeyAlike(row2, object2)
  BY <1>3, <1>8, <1>9, <1>10 DEF KeyAlike
<1> QED BY <1>11 DEF row2, object2

\* The keys that a token may be, among the live ones, are the same.
LEMMA HitsAlike ==
  ASSUME NEW K, K \in [DOMAIN K -> KeyRows], NEW O,
         \A k \in DOMAIN K : KeyAlike(K[k], O[k]), DOMAIN O = DOMAIN K, NEW ref
  PROVE  /\ Mg!LiveKeys(Docs(K), ref) =
              {k \in DOMAIN K : K[k].tenantRef = ref /\ K[k].revokedAt = Null}
         /\ \A k \in DOMAIN K :
              /\ Docs(K)[k].hash = K[k].hash
              /\ Docs(K)[k].tenantRef = K[k].tenantRef
              /\ O[k].hash = K[k].hash /\ O[k].tenantRef = K[k].tenantRef
              /\ Mm!Has(O[k], "revokedAt") <=> K[k].revokedAt # Null
<1>1. ASSUME NEW k \in DOMAIN K
      PROVE  /\ Docs(K)[k].hash = K[k].hash
             /\ Docs(K)[k].tenantRef = K[k].tenantRef
             /\ O[k].hash = K[k].hash /\ O[k].tenantRef = K[k].tenantRef
             /\ "revokedAt" \in DOMAIN O[k] <=> K[k].revokedAt # Null
             /\ "revokedAt" \in DOMAIN Docs(K)[k] <=> K[k].revokedAt # Null
  <2>1. K[k] \in KeyRows /\ Docs(K)[k] = Defined(K[k]) /\ KeyAlike(K[k], O[k])
    BY DEF Docs
  <2>2. /\ DOMAIN O[k] = DOMAIN Defined(K[k])
        /\ \A f \in DOMAIN O[k] \ {"lastUsedAt"} : O[k][f] = K[k][f]
    BY <2>1 DEF KeyAlike
  <2>3. /\ DOMAIN Defined(K[k]) = {f \in DOMAIN K[k] : K[k][f] # Null}
        /\ \A f \in DOMAIN Defined(K[k]) : Defined(K[k])[f] = K[k][f]
        /\ "revokedAt" \in DOMAIN K[k]
        /\ {"tenantRef", "hash"} \subseteq DOMAIN Defined(K[k])
    BY <2>1, DocOfKey
  <2> QED BY <2>1, <2>2, <2>3
<1>2. DOMAIN Docs(K) = DOMAIN K
  BY DEF Docs
<1> QED BY <1>1, <1>2 DEF Mg!LiveKeys, Mg!Exists, Mm!Has

\* A new key is stored, and its token returned, alike.
LEMMA IssueAlike ==
  ASSUME KeysInv, KeysAlike, Issue
  PROVE  KeysAlike' /\ agreed'
<1>1. /\ store = "apiKeys" /\ store' = store /\ now \in Nat
      /\ pgWrittenAt' = pgWrittenAt /\ mongoWrittenAt' = mongoWrittenAt
      /\ pg \in [DOMAIN pg -> KeyRows] /\ DOMAIN mem = DOMAIN pg
      /\ mongo = Docs(pg) /\ mem = [k \in DOMAIN pg |-> mem[k]]
      /\ \A k \in DOMAIN pg : KeyAlike(pg[k], mem[k])
      /\ pgWrittenAt = LastUsed(pg) /\ mongoWrittenAt = LastUsed(pg)
  BY DEF Issue, KeysInv, KeysAlike
<1>2. PICK ref \in Refs, tail \in Tails \ DOMAIN mem :
        Lockstep(Pg!issue(pg, Env, ref, tail, now),
                 Mg!issue(Docs(pg), Env, ref, tail, now),
                 Mm!issue(mem, Env, ref, tail, now))
  BY <1>1 DEF Issue
<1> DEFINE token == tokenFor(Env, ref, tail)
           row == [tenantRef |-> ref, hash |-> token, createdAt |-> now,
                   lastUsedAt |-> Null, revokedAt |-> Null]
           doc == [tenantRef |-> ref, hash |-> token, createdAt |-> now]
<1>3. token # Null /\ ref # Null /\ now # Null
  BY <1>1, NullAssumption
<1>4. /\ Pg!issue(pg, Env, ref, tail, now) = Returns(With(pg, tail, row), token)
      /\ Mg!issue(Docs(pg), Env, ref, tail, now)
           = Returns(With(Docs(pg), tail, doc), token)
      /\ Mm!issue(mem, Env, ref, tail, now) = Returns(With(mem, tail, doc), token)
  BY SharedObjects, SharedOutcomes
     DEF Pg!issue, Mg!issue, Mm!issue, Pg!tokenFor, Mg!tokenFor, Mm!tokenFor,
         tokenFor
<1> HIDE DEF token
<1>5. Defined(row) = doc
  BY <1>3 DEF Defined, Restrict
<1>6. KeyAlike(row, doc)
  <2>1. DOMAIN doc = DOMAIN Defined(row)
    BY <1>5
  <2> QED BY <2>1 DEF KeyAlike
<1>7. row.lastUsedAt = Null
  OBVIOUS
<1> HIDE DEF row, doc
<1>8. agreed'
  <2>1. /\ Answer(Pg!issue(pg, Env, ref, tail, now)) = [value |-> token, error |-> Null]
        /\ Answer(Mg!issue(Docs(pg), Env, ref, tail, now))
             = [value |-> token, error |-> Null]
        /\ Answer(Mm!issue(mem, Env, ref, tail, now))
             = [value |-> token, error |-> Null]
    BY <1>4 DEF Answer, Returns
  <2> QED BY <1>2, <2>1 DEF Lockstep
<1>9. /\ pg' = With(pg, tail, row)
      /\ mongo' = With(Docs(pg), tail, doc)
      /\ mem' = With(mem, tail, doc)
  BY <1>2, <1>4 DEF Lockstep, Returns
<1>10. mongo' = Docs(pg')
  BY <1>5, <1>9, DocsOfWith
<1>11. /\ DOMAIN pg' = DOMAIN pg \cup {tail} /\ tail \notin DOMAIN pg
       /\ pg'[tail] = row /\ mem'[tail] = doc
       /\ \A k \in DOMAIN pg : pg'[k] = pg[k] /\ mem'[k] = mem[k]
       /\ mem' = [k \in DOMAIN pg' |-> mem'[k]]
  BY <1>1, <1>9 DEF With, Spread
<1>12. LastUsed(pg') = LastUsed(pg)
  BY <1>7, <1>11 DEF LastUsed, Used
<1>13. \A k \in DOMAIN pg' : KeyAlike(pg'[k], mem'[k])
  BY <1>1, <1>6, <1>11
<1> QED BY <1>1, <1>8, <1>10, <1>11, <1>12, <1>13 DEF KeysAlike

\* A revocation finds the same key, or none, and stamps it alike.
LEMMA RevokeAlike ==
  ASSUME KeysInv, KeysAlike, Revoke
  PROVE  KeysAlike' /\ agreed'
<1>1. /\ store = "apiKeys" /\ store' = store /\ now \in Nat
      /\ pgWrittenAt' = pgWrittenAt /\ mongoWrittenAt' = mongoWrittenAt
      /\ pg \in [DOMAIN pg -> KeyRows] /\ DOMAIN mem = DOMAIN pg
      /\ mongo = Docs(pg) /\ mem = [k \in DOMAIN pg |-> mem[k]]
      /\ \A k \in DOMAIN pg : KeyAlike(pg[k], mem[k])
      /\ pgWrittenAt = LastUsed(pg) /\ mongoWrittenAt = LastUsed(pg)
  BY DEF Revoke, KeysInv, KeysAlike
<1>2. PICK ref \in Refs, tail \in Tails :
        Lockstep(Pg!revoke(pg, ref, tail, now),
                 Mg!revoke(Docs(pg), ref, tail, now),
                 Mm!revoke(mem, ref, tail, now))
  BY <1>1 DEF Revoke
<1> DEFINE hit == /\ tail \in DOMAIN pg
                  /\ pg[tail].tenantRef = ref
                  /\ pg[tail].revokedAt = Null
           row == [pg[tail] EXCEPT !.revokedAt = now]
           stamp == [revokedAt |-> now]
<1>3. /\ Mg!LiveKeys(Docs(pg), ref) =
           {k \in DOMAIN pg : pg[k].tenantRef = ref /\ pg[k].revokedAt = Null}
      /\ \A k \in DOMAIN pg :
           /\ mem[k].tenantRef = pg[k].tenantRef
           /\ Mm!Has(mem[k], "revokedAt") <=> pg[k].revokedAt # Null
  BY <1>1, HitsAlike
<1>4. DOMAIN Docs(pg) = DOMAIN pg /\ \A k \in DOMAIN pg : Docs(pg)[k] = Defined(pg[k])
  BY DEF Docs
<1>5. CASE ~hit
  <2>1. /\ Pg!revoke(pg, ref, tail, now) = Pg!Returns(pg, FALSE)
        /\ Mm!revoke(mem, ref, tail, now) = Mm!Returns(mem, FALSE)
    BY <1>1, <1>3, <1>5 DEF Pg!revoke, Mm!revoke
  <2>2. tail \notin Mg!LiveKeys(Docs(pg), ref)
    BY <1>3, <1>5
  <2>3. Mg!revoke(Docs(pg), ref, tail, now) = Mg!Returns(Docs(pg), FALSE)
    <3>1. (tail \in Mg!LiveKeys(Docs(pg), ref)) = FALSE
      BY <2>2
    <3>2. LET u == Mg!UpdateOne(Docs(pg), tail,
                                tail \in Mg!LiveKeys(Docs(pg), ref), stamp, {})
          IN  u.matched = FALSE /\ u.db = Docs(pg)
      BY <3>1 DEF Mg!UpdateOne
    <3> QED BY <3>2 DEF Mg!revoke
  <2>4. agreed'
    <3> DEFINE no == FALSE
    <3> HIDE DEF no
    <3>1. /\ Pg!revoke(pg, ref, tail, now) = Pg!Returns(pg, no)
          /\ Mg!revoke(Docs(pg), ref, tail, now) = Mg!Returns(Docs(pg), no)
          /\ Mm!revoke(mem, ref, tail, now) = Mm!Returns(mem, no)
      BY <2>1, <2>3 DEF no
    <3>2. /\ Answer(Pg!revoke(pg, ref, tail, now)) = [value |-> no, error |-> Null]
          /\ Answer(Mg!revoke(Docs(pg), ref, tail, now))
               = [value |-> no, error |-> Null]
          /\ Answer(Mm!revoke(mem, ref, tail, now)) = [value |-> no, error |-> Null]
      BY <3>1 DEF Answer, Pg!Returns, Mg!Returns, Mm!Returns
    <3> QED BY <1>2, <3>2 DEF Lockstep
  <2>5. pg' = pg /\ mongo' = Docs(pg) /\ mem' = mem
    BY <1>2, <2>1, <2>3 DEF Lockstep, Pg!Returns, Mg!Returns, Mm!Returns
  <2> QED BY <1>1, <2>4, <2>5 DEF KeysAlike
<1>6. CASE hit
  <2>1. pg[tail] \in KeyRows
    BY <1>1, <1>6
  <2>2. /\ Defined(row) = Spread(Defined(pg[tail]), stamp)
        /\ KeyAlike(row, Spread(mem[tail], stamp))
    BY <1>1, <1>6, <2>1, StampedDoc, RevokedAlike
  <2>3. row.lastUsedAt = pg[tail].lastUsedAt
    BY <2>1 DEF KeyRows
  <2>4. /\ Pg!revoke(pg, ref, tail, now)
             = Pg!Returns([pg EXCEPT ![tail].revokedAt = now], TRUE)
        /\ Mm!revoke(mem, ref, tail, now)
             = Mm!Returns(With(mem, tail, Spread(mem[tail], stamp)), TRUE)
    <3>1. Mm!With(mem, tail, Mm!Spread(mem[tail], stamp))
            = With(mem, tail, Spread(mem[tail], stamp))
      BY SharedObjects
    <3> QED BY <1>1, <1>3, <1>6, <3>1 DEF Pg!revoke, Mm!revoke
  <2>5. Mg!revoke(Docs(pg), ref, tail, now)
          = Mg!Returns(With(Docs(pg), tail, Defined(row)), TRUE)
    <3> DEFINE u == Mg!UpdateOne(Docs(pg), tail,
                      tail \in Mg!LiveKeys(Docs(pg), ref), stamp, {})
    <3>1. (tail \in Mg!LiveKeys(Docs(pg), ref)) = TRUE
      BY <1>3, <1>6
    <3>2. /\ u.matched = TRUE
          /\ u.db = Mg!With(Docs(pg), tail,
                           Mg!Spread(Mg!Without(Docs(pg)[tail], {}), stamp))
      BY <3>1 DEF Mg!UpdateOne
    <3>3. Mg!Without(Docs(pg)[tail], {}) = Defined(pg[tail])
      BY <1>4, <1>6, WithoutNothing, SharedObjects
    <3>4. Mg!Spread(Defined(pg[tail]), stamp) = Defined(row)
      BY <2>2, SharedObjects
    <3>5. Mg!With(Docs(pg), tail, Defined(row)) = With(Docs(pg), tail, Defined(row))
      BY SharedObjects
    <3>6. u.db = With(Docs(pg), tail, Defined(row))
      BY <3>2, <3>3, <3>4, <3>5
    <3>7. Mg!revoke(Docs(pg), ref, tail, now) = Mg!Returns(u.db, u.matched)
      BY DEF Mg!revoke
    <3> HIDE DEF u
    <3> QED BY <3>2, <3>6, <3>7
  <2>6. agreed'
    <3> DEFINE yes == TRUE
    <3> HIDE DEF yes
    <3>1. /\ Pg!revoke(pg, ref, tail, now)
               = Pg!Returns([pg EXCEPT ![tail].revokedAt = now], yes)
          /\ Mg!revoke(Docs(pg), ref, tail, now)
               = Mg!Returns(With(Docs(pg), tail, Defined(row)), yes)
          /\ Mm!revoke(mem, ref, tail, now)
               = Mm!Returns(With(mem, tail, Spread(mem[tail], stamp)), yes)
      BY <2>4, <2>5 DEF yes
    <3>2. /\ Answer(Pg!revoke(pg, ref, tail, now)) = [value |-> yes, error |-> Null]
          /\ Answer(Mg!revoke(Docs(pg), ref, tail, now))
               = [value |-> yes, error |-> Null]
          /\ Answer(Mm!revoke(mem, ref, tail, now)) = [value |-> yes, error |-> Null]
      BY <3>1 DEF Answer, Pg!Returns, Mg!Returns, Mm!Returns
    <3> QED BY <1>2, <3>2 DEF Lockstep
  <2>7. /\ pg' = [pg EXCEPT ![tail].revokedAt = now]
        /\ mongo' = With(Docs(pg), tail, Defined(row))
        /\ mem' = With(mem, tail, Spread(mem[tail], stamp))
    BY <1>2, <2>4, <2>5 DEF Lockstep, Pg!Returns, Mg!Returns, Mm!Returns
  <2>8. /\ DOMAIN pg' = DOMAIN pg /\ pg'[tail] = row
        /\ \A k \in DOMAIN pg \ {tail} : pg'[k] = pg[k]
    BY <1>1, <1>6, <2>7
  <2> HIDE DEF row, stamp
  <2>9. /\ mem' = [k \in DOMAIN pg' |-> mem'[k]]
        /\ mem'[tail] = Spread(mem[tail], stamp)
        /\ \A k \in DOMAIN pg \ {tail} : mem'[k] = mem[k]
    BY <1>1, <1>6, <2>7, <2>8 DEF With, Spread
  <2>10. mongo' = Docs(pg')
    BY <1>4, <1>6, <2>7, <2>8 DEF Docs, With, Spread
  <2>11. \A k \in DOMAIN pg' : KeyAlike(pg'[k], mem'[k])
    BY <1>1, <2>2, <2>8, <2>9
  <2>12. LastUsed(pg') = LastUsed(pg)
    BY <1>6, <2>3, <2>8 DEF LastUsed, Used
  <2> QED BY <1>1, <2>6, <2>9, <2>10, <2>11, <2>12 DEF KeysAlike
<1> QED BY <1>5, <1>6

\* All the live keys of a tenant are stamped alike.
LEMMA RevokeAllAlike ==
  ASSUME KeysInv, KeysAlike, RevokeAll
  PROVE  KeysAlike' /\ agreed'
<1>1. /\ store = "apiKeys" /\ store' = store /\ now \in Nat
      /\ pgWrittenAt' = pgWrittenAt /\ mongoWrittenAt' = mongoWrittenAt
      /\ pg \in [DOMAIN pg -> KeyRows] /\ DOMAIN mem = DOMAIN pg
      /\ mongo = Docs(pg) /\ mem = [k \in DOMAIN pg |-> mem[k]]
      /\ \A k \in DOMAIN pg : KeyAlike(pg[k], mem[k])
      /\ pgWrittenAt = LastUsed(pg) /\ mongoWrittenAt = LastUsed(pg)
  BY DEF RevokeAll, KeysInv, KeysAlike
<1>2. PICK ref \in Refs :
        Lockstep(Pg!revokeAllForTenant(pg, ref, now),
                 Mg!revokeAllForTenant(Docs(pg), ref, now),
                 Mm!revokeAllForTenant(mem, ref, now))
  BY <1>1 DEF RevokeAll
<1> DEFINE hit(k) == pg[k].tenantRef = ref /\ pg[k].revokedAt = Null
           stamp == [revokedAt |-> now]
           P == [k \in DOMAIN pg |->
                   IF hit(k) THEN [pg[k] EXCEPT !.revokedAt = now] ELSE pg[k]]
           M == [k \in DOMAIN pg |->
                   IF hit(k) THEN Spread(Docs(pg)[k], stamp) ELSE Docs(pg)[k]]
           W == [k \in DOMAIN pg |->
                   IF hit(k) THEN Spread(mem[k], stamp) ELSE mem[k]]
<1>3. /\ Mg!LiveKeys(Docs(pg), ref) = {k \in DOMAIN pg : hit(k)}
      /\ \A k \in DOMAIN pg :
           /\ mem[k].tenantRef = pg[k].tenantRef
           /\ Mm!Has(mem[k], "revokedAt") <=> pg[k].revokedAt # Null
  BY <1>1, HitsAlike
<1>4. DOMAIN Docs(pg) = DOMAIN pg /\ \A k \in DOMAIN pg : Docs(pg)[k] = Defined(pg[k])
  BY DEF Docs
<1>5. Pg!revokeAllForTenant(pg, ref, now) = Returns(P, Null)
  BY SharedOutcomes DEF Pg!revokeAllForTenant
<1>6. Mg!revokeAllForTenant(Docs(pg), ref, now) = Returns(M, Null)
  <2>1. [k \in DOMAIN Docs(pg) |->
           IF k \in Mg!LiveKeys(Docs(pg), ref) THEN Mg!Spread(Docs(pg)[k], stamp)
           ELSE Docs(pg)[k]] = M
    BY <1>3, <1>4, SharedObjects
  <2> QED BY <2>1, SharedOutcomes DEF Mg!revokeAllForTenant
<1>7. Mm!revokeAllForTenant(mem, ref, now) = Returns(W, Null)
  <2>1. [k \in DOMAIN mem |->
           IF mem[k].tenantRef = ref /\ ~Mm!Has(mem[k], "revokedAt")
           THEN Mm!Spread(mem[k], stamp) ELSE mem[k]] = W
    BY <1>1, <1>3, SharedObjects
  <2> QED BY <2>1, SharedOutcomes DEF Mm!revokeAllForTenant
<1> HIDE DEF P, M, W
<1>8. pg' = P /\ mongo' = M /\ mem' = W
  BY <1>2, <1>5, <1>6, <1>7 DEF Lockstep, Returns
<1>9. agreed'
  <2>1. /\ Answer(Pg!revokeAllForTenant(pg, ref, now)) = [value |-> Null, error |-> Null]
        /\ Answer(Mg!revokeAllForTenant(Docs(pg), ref, now))
             = [value |-> Null, error |-> Null]
        /\ Answer(Mm!revokeAllForTenant(mem, ref, now))
             = [value |-> Null, error |-> Null]
    BY <1>5, <1>6, <1>7 DEF Answer, Returns
  <2> QED BY <1>2, <2>1 DEF Lockstep
<1>10. ASSUME NEW k \in DOMAIN pg
       PROVE  /\ M[k] = Defined(P[k])
              /\ KeyAlike(P[k], W[k])
              /\ P[k].lastUsedAt = pg[k].lastUsedAt
  <2>1. pg[k] \in KeyRows /\ KeyAlike(pg[k], mem[k]) /\ Docs(pg)[k] = Defined(pg[k])
    BY <1>1, <1>4
  <2>2. CASE hit(k)
    <3>1. /\ P[k] = [pg[k] EXCEPT !.revokedAt = now]
          /\ M[k] = Spread(Defined(pg[k]), stamp) /\ W[k] = Spread(mem[k], stamp)
      BY <2>1, <2>2 DEF P, M, W
    <3>2. P[k].lastUsedAt = pg[k].lastUsedAt
      BY <2>1, <3>1 DEF KeyRows
    <3>3. Defined([pg[k] EXCEPT !.revokedAt = now])
            = Spread(Defined(pg[k]), stamp)
      BY <1>1, <2>1, StampedDoc
    <3>4. KeyAlike([pg[k] EXCEPT !.revokedAt = now], Spread(mem[k], stamp))
      BY <1>1, <2>1, RevokedAlike
    <3> QED BY <3>1, <3>2, <3>3, <3>4
  <2>3. CASE ~hit(k)
    BY <2>1, <2>3 DEF P, M, W
  <2> QED BY <2>2, <2>3
<1>11. DOMAIN P = DOMAIN pg /\ W = [k \in DOMAIN pg |-> W[k]]
       /\ M = [k \in DOMAIN pg |-> M[k]]
  BY DEF P, M, W
<1>12. M = Docs(P)
  BY <1>10, <1>11 DEF Docs
<1>13. LastUsed(P) = LastUsed(pg)
  BY <1>10, <1>11 DEF LastUsed, Used
<1> QED BY <1>1, <1>8, <1>9, <1>10, <1>11, <1>12, <1>13 DEF KeysAlike

\* A hit is stamped in memory; the databases are stamped when the last stamp
\* that the process remembers is at least the debounce interval old.
LEMMA UsedAlike ==
  ASSUME NEW row \in KeyRows, NEW object, KeyAlike(row, object), NEW t \in Nat
  PROVE  LET used == Spread(object, [lastUsedAt |-> t])
         IN  /\ KeyAlike([row EXCEPT !.lastUsedAt = t], used)
             /\ row.lastUsedAt # Null /\ t - row.lastUsedAt < Debounce =>
                  KeyAlike(row, used)
<1> DEFINE row2 == [row EXCEPT !.lastUsedAt = t]
           used == Spread(object, [lastUsedAt |-> t])
<1>1. /\ DOMAIN row = {"tenantRef", "hash", "createdAt", "lastUsedAt", "revokedAt"}
      /\ DOMAIN Defined(row) = {f \in DOMAIN row : row[f] # Null}
  BY DocOfKey
<1>2. Defined(row2) = Spread(Defined(row), [lastUsedAt |-> t])
  BY StampedDoc
<1>3. /\ DOMAIN used = DOMAIN object \cup {"lastUsedAt"}
      /\ used = [f \in DOMAIN used |-> used[f]]
      /\ used.lastUsedAt = t
      /\ \A f \in DOMAIN object \ {"lastUsedAt"} : used[f] = object[f]
  BY DEF Spread
<1>4. DOMAIN Defined(row2) = DOMAIN Defined(row) \cup {"lastUsedAt"}
  BY <1>2 DEF Spread
<1>5. /\ row2.lastUsedAt = t
      /\ \A f \in DOMAIN row \ {"lastUsedAt"} : row2[f] = row[f]
  BY <1>1
<1>6. /\ DOMAIN object = DOMAIN Defined(row)
      /\ \A f \in DOMAIN object \ {"lastUsedAt"} : object[f] = row[f]
      /\ DOMAIN object \subseteq DOMAIN row
  BY <1>1 DEF KeyAlike
<1> HIDE DEF row2, used
<1>7. KeyAlike(row2, used)
  <2>1. t - t < Debounce
    BY StartAssumption
  <2>2. DOMAIN used = DOMAIN Defined(row2)
    BY <1>3, <1>4, <1>6
  <2>3. \A f \in DOMAIN used \ {"lastUsedAt"} : used[f] = row2[f]
    BY <1>3, <1>5, <1>6
  <2> QED BY <1>3, <1>5, <2>1, <2>2, <2>3 DEF KeyAlike
<1>8. ASSUME row.lastUsedAt # Null, t - row.lastUsedAt < Debounce
      PROVE  KeyAlike(row, used)
  <2>1. DOMAIN used = DOMAIN Defined(row)
    BY <1>1, <1>3, <1>6, <1>8
  <2>2. \A f \in DOMAIN used \ {"lastUsedAt"} : used[f] = row[f]
    BY <1>3, <1>6
  <2> QED BY <1>3, <1>8, <2>1, <2>2 DEF KeyAlike
<1> QED BY <1>7, <1>8 DEF row2, used

\* resolve finds the same key in all three, or none, and the debounced stamps
\* stay less than the interval behind the true one.
LEMMA ResolveAlike ==
  ASSUME KeysInv, KeysAlike, now >= Start, Resolve
  PROVE  KeysAlike' /\ agreed'
<1>1. /\ store = "apiKeys" /\ store' = store /\ now \in Nat
      /\ pg \in [DOMAIN pg -> KeyRows] /\ DOMAIN mem = DOMAIN pg
      /\ mongo = Docs(pg) /\ mem = [k \in DOMAIN pg |-> mem[k]]
      /\ \A k \in DOMAIN pg : KeyAlike(pg[k], mem[k])
      /\ pgWrittenAt = LastUsed(pg) /\ mongoWrittenAt = LastUsed(pg)
  BY DEF Resolve, KeysInv, KeysAlike
<1> DEFINE L == LastUsed(pg)
<1>2. PICK token \in Tokens :
        LET p == Pg!resolve(pg, L, Debounce, Env, token, now)
            m == Mg!resolve(Docs(pg), L, Debounce, Env, token, now)
        IN  /\ Lockstep(p.out, m.out, Mm!resolve(mem, Env, token, now))
            /\ pgWrittenAt' = p.writtenAt
            /\ mongoWrittenAt' = m.writtenAt
  BY <1>1 DEF Resolve
<1> DEFINE C == Pg!Candidates(pg, Env, token)
           HM == IF Mg!Parses(token, Env)
                 THEN {k \in Mg!LiveKeys(Docs(pg), token.tenantRef) :
                         Docs(pg)[k].hash = token}
                 ELSE {}
           HW == IF ~Mm!Parses(token, Env) THEN {}
                 ELSE {k \in DOMAIN mem : /\ ~Mm!Has(mem[k], "revokedAt")
                                          /\ mem[k].tenantRef = token.tenantRef
                                          /\ mem[k].hash = token}
           id == token.tail
           last == IF id \in DOMAIN L THEN L[id] ELSE 0
           due == now - last >= Debounce
           hit == [tenantRef |-> pg[id].tenantRef, tokenId |-> id]
           stamp == [lastUsedAt |-> now]
           p == Pg!resolve(pg, L, Debounce, Env, token, now)
           m == Mg!resolve(Docs(pg), L, Debounce, Env, token, now)
           w == Mm!resolve(mem, Env, token, now)
<1>3. /\ Mg!LiveKeys(Docs(pg), token.tenantRef) =
           {c \in DOMAIN pg : /\ pg[c].tenantRef = token.tenantRef
                              /\ pg[c].revokedAt = Null}
      /\ \A c \in DOMAIN pg :
           /\ Docs(pg)[c].hash = pg[c].hash
           /\ Docs(pg)[c].tenantRef = pg[c].tenantRef
           /\ mem[c].hash = pg[c].hash /\ mem[c].tenantRef = pg[c].tenantRef
           /\ Mm!Has(mem[c], "revokedAt") <=> pg[c].revokedAt # Null
  BY <1>1, HitsAlike
<1>4. C \subseteq DOMAIN pg
  BY DEF Pg!Candidates
<1>5. HM = C
  BY <1>3 DEF Pg!Candidates, Pg!Parses, Mg!Parses
<1>6. HW = C
  BY <1>1, <1>3 DEF Pg!Candidates, Pg!Parses, Mm!Parses
<1>7. DOMAIN Docs(pg) = DOMAIN pg /\ \A c \in DOMAIN pg : Docs(pg)[c] = Defined(pg[c])
  BY DEF Docs
<1>8. \A c \in C : c = id
  <2> TAKE c \in C
  <2>1. pg[c].hash = tokenFor(Env, pg[c].tenantRef, c) /\ pg[c].hash = token
    BY <1>1, <1>4 DEF KeysInv, Pg!Candidates
  <2> QED BY <2>1 DEF tokenFor
<1>9. CASE C = {}
  <2>1. p.out = Returns(pg, Null) /\ p.writtenAt = L
    BY <1>9, SharedOutcomes DEF Pg!resolve
  <2>2. m.out = Returns(Docs(pg), Null) /\ m.writtenAt = L
    BY <1>5, <1>9, SharedOutcomes DEF Mg!resolve
  <2>3. w = Returns(mem, Null)
    BY <1>6, <1>9, SharedOutcomes DEF Mm!resolve
  <2> HIDE DEF p, m, w
  <2>4. Answer(p.out) = Answer(m.out) /\ Answer(m.out) = Answer(w)
    BY <2>1, <2>2, <2>3 DEF Answer, Returns
  <2>5. agreed'
    BY <1>2, <2>4 DEF Lockstep, p, m, w
  <2>6. /\ pg' = pg /\ mongo' = Docs(pg) /\ mem' = mem
        /\ pgWrittenAt' = L /\ mongoWrittenAt' = L
    BY <1>2, <2>1, <2>2, <2>3 DEF Lockstep, Returns, p, m, w
  <2> QED BY <1>1, <2>5, <2>6 DEF KeysAlike
<1>10. CASE C # {}
  <2>1. id \in C /\ id \in DOMAIN pg
    BY <1>4, <1>8, <1>10
  <2>2. /\ (CHOOSE c \in C : TRUE) = id
        /\ (CHOOSE k \in HM : TRUE) = id
        /\ (CHOOSE h \in HW : TRUE) = id
    <3>1. (CHOOSE c \in C : TRUE) \in C
      BY <1>10
    <3>2. (CHOOSE k \in HM : TRUE) \in HM
      <4>1. HM # {}
        BY <1>5, <1>10
      <4> HIDE DEF HM
      <4> QED BY <4>1
    <3>3. (CHOOSE h \in HW : TRUE) \in HW
      <4>1. HW # {}
        BY <1>6, <1>10
      <4> HIDE DEF HW
      <4> QED BY <4>1
    <3> HIDE DEF C, HM, HW
    <3> QED BY <1>5, <1>6, <1>8, <3>1, <3>2, <3>3
  <2>3. pg[id] \in KeyRows /\ KeyAlike(pg[id], mem[id])
    BY <1>1, <2>1
  <2>4. /\ p.out = IF due THEN Returns([pg EXCEPT ![id].lastUsedAt = now], hit)
                   ELSE Returns(pg, hit)
        /\ p.writtenAt = IF due THEN With(L, id, now) ELSE L
    <3> HIDE DEF L
    <3> QED BY <1>10, <2>2, SharedObjects, SharedOutcomes DEF Pg!resolve
  <2>5. /\ m.out.value = hit /\ m.out.error = Null
        /\ m.out.db = IF due THEN With(Docs(pg), id, Spread(Docs(pg)[id], stamp))
                      ELSE Docs(pg)
        /\ m.writtenAt = IF due THEN With(L, id, now) ELSE L
    <3>1. HM # {}
      BY <1>5, <1>10
    <3> DEFINE D == Mg!With(Docs(pg), id,
                            Mg!Spread(Mg!Without(Docs(pg)[id], {}), stamp))
    <3>2. D = With(Docs(pg), id, Spread(Docs(pg)[id], stamp))
      <4> HIDE DEF stamp, id
      <4>1. Mg!Without(Docs(pg)[id], {}) = Docs(pg)[id]
        BY <1>7, <2>1, WithoutNothing, SharedObjects
      <4>2. Mg!Spread(Docs(pg)[id], stamp) = Spread(Docs(pg)[id], stamp)
        BY SharedObjects
      <4>3. Mg!With(Docs(pg), id, Spread(Docs(pg)[id], stamp))
              = With(Docs(pg), id, Spread(Docs(pg)[id], stamp))
        BY SharedObjects
      <4> QED BY <4>1, <4>2, <4>3
    <3>3. Docs(pg)[id].tenantRef = pg[id].tenantRef
      BY <1>3, <2>1
    <3> HIDE DEF L
    <3>4. m.out.value = hit /\ m.out.error = Null
      BY <2>2, <3>1, <3>3 DEF Mg!resolve, Mg!Returns
    <3>5. m.out.db = IF due THEN D ELSE Docs(pg)
      BY <2>2, <3>1 DEF Mg!resolve, Mg!Returns, Mg!UpdateOne
    <3>6. m.writtenAt = IF due THEN With(L, id, now) ELSE L
      BY <2>2, <3>1, SharedObjects DEF Mg!resolve
    <3> HIDE DEF m, hit, due, D
    <3> QED BY <3>2, <3>4, <3>5, <3>6
  <2>6. w = Returns(With(mem, id, Spread(mem[id], stamp)), hit)
    <3>1. HW # {}
      BY <1>6, <1>10
    <3>2. mem[id].tenantRef = pg[id].tenantRef
      BY <1>3, <2>1
    <3>3. w = Mm!Returns(Mm!With(mem, id, Mm!Spread(mem[id], stamp)), hit)
      BY <2>2, <3>1, <3>2 DEF Mm!resolve
    <3> HIDE DEF stamp, id, hit, w
    <3>4. Mm!Spread(mem[id], stamp) = Spread(mem[id], stamp)
      BY SharedObjects
    <3>5. Mm!With(mem, id, Spread(mem[id], stamp))
            = With(mem, id, Spread(mem[id], stamp))
      BY SharedObjects
    <3> QED BY <3>3, <3>4, <3>5, SharedOutcomes
  <2>7. ~due => /\ pg[id].lastUsedAt # Null
                /\ now - pg[id].lastUsedAt < Debounce
    <3>1. pg[id].lastUsedAt \in Times
      BY <2>3 DEF KeyRows
    <3>2. CASE pg[id].lastUsedAt = Null
      <4>1. last = 0
        BY <3>2 DEF LastUsed, Used
      <4> QED BY <1>1, <4>1, StartAssumption
    <3>3. CASE pg[id].lastUsedAt # Null
      <4>1. last = pg[id].lastUsedAt /\ last \in Nat
        BY <2>1, <3>1, <3>3 DEF LastUsed, Used, Times
      <4> HIDE DEF last
      <4> QED BY <1>1, <3>3, <4>1, StartAssumption
    <3> QED BY <3>2, <3>3
  <2> DEFINE used == Spread(mem[id], stamp)
             row == [pg[id] EXCEPT !.lastUsedAt = now]
  <2>8. KeyAlike(row, used) /\ (~due => KeyAlike(pg[id], used))
    BY <1>1, <2>3, <2>7, UsedAlike
  <2>9. Defined(row) = Spread(Defined(pg[id]), stamp)
    BY <1>1, <2>3, StampedDoc
  <2>10. agreed'
    <3> HIDE DEF p, m, w, hit, due
    <3>1. Answer(p.out) = Answer(m.out) /\ Answer(m.out) = Answer(w)
      BY <2>4, <2>5, <2>6 DEF Answer, Returns
    <3> QED BY <1>2, <3>1 DEF Lockstep, p, m, w
  <2>11. /\ pg' = IF due THEN [pg EXCEPT ![id].lastUsedAt = now] ELSE pg
         /\ mongo' = IF due THEN With(Docs(pg), id, Spread(Docs(pg)[id], stamp))
                     ELSE Docs(pg)
         /\ mem' = With(mem, id, used)
         /\ pgWrittenAt' = (IF due THEN With(L, id, now) ELSE L)
         /\ mongoWrittenAt' = (IF due THEN With(L, id, now) ELSE L)
    <3>1. /\ pg' = p.out.db /\ mongo' = m.out.db /\ mem' = w.db
          /\ pgWrittenAt' = p.writtenAt /\ mongoWrittenAt' = m.writtenAt
      BY <1>2 DEF Lockstep
    <3> HIDE DEF p, m, w, hit, due, L, used
    <3> QED BY <2>4, <2>5, <2>6, <3>1 DEF Returns, used
  <2> HIDE DEF p, m, w, hit, stamp, used
  <2>12. /\ DOMAIN pg' = DOMAIN pg
         /\ mem' = [k \in DOMAIN pg |-> mem'[k]]
         /\ mem'[id] = used
         /\ \A k \in DOMAIN pg \ {id} : mem'[k] = mem[k] /\ pg'[k] = pg[k]
    <3>1. mem' = [k \in DOMAIN pg |-> IF k = id THEN used ELSE mem[k]]
      BY <1>1, <2>1, <2>11 DEF With, Spread
    <3>2. DOMAIN pg' = DOMAIN pg /\ \A k \in DOMAIN pg \ {id} : pg'[k] = pg[k]
      BY <1>1, <2>11
    <3> QED BY <2>1, <3>1, <3>2
  <2>13. CASE due
    <3>1. pg'[id] = row
      BY <1>1, <2>1, <2>11, <2>13
    <3>2. mongo' = Docs(pg')
      <4>1. mongo' = With(Docs(pg), id, Defined(row))
        BY <1>7, <2>1, <2>9, <2>11, <2>13
      <4> HIDE DEF row
      <4> QED BY <1>7, <2>1, <2>12, <3>1, <4>1 DEF Docs, With, Spread
    <3>3. \A k \in DOMAIN pg' : KeyAlike(pg'[k], mem'[k])
      BY <1>1, <2>8, <2>12, <3>1
    <3>4. LastUsed(pg') = With(L, id, now)
      <4>1. row.lastUsedAt = now /\ now # Null
        BY <1>1, <2>3, NullAssumption DEF KeyRows
      <4>2. Used(pg') = Used(pg) \cup {id}
        BY <2>1, <2>12, <3>1, <4>1 DEF Used
      <4>3. \A k \in Used(pg) : k \in DOMAIN pg
        BY DEF Used
      <4> HIDE DEF row
      <4> QED BY <2>12, <3>1, <4>1, <4>2, <4>3 DEF LastUsed, With, Spread
    <3>5. pgWrittenAt' = With(L, id, now) /\ mongoWrittenAt' = With(L, id, now)
      BY <2>11, <2>13
    <3>6. mem' = [k \in DOMAIN pg' |-> mem'[k]]
      BY <2>12
    <3> HIDE DEF L, row
    <3> QED BY <2>10, <3>2, <3>3, <3>4, <3>5, <3>6 DEF KeysAlike
  <2>14. CASE ~due
    <3>1. pg' = pg /\ mongo' = Docs(pg) /\ pgWrittenAt' = L /\ mongoWrittenAt' = L
      BY <2>11, <2>14
    <3>2. \A k \in DOMAIN pg' : KeyAlike(pg'[k], mem'[k])
      BY <1>1, <2>8, <2>12, <2>14, <3>1
    <3> QED BY <2>10, <2>12, <3>1, <3>2 DEF KeysAlike
  <2> QED BY <2>13, <2>14
<1> QED BY <1>9, <1>10

\* A listed key, its lastUsedAt aside, is the same from a row as from an
\* object that is alike.
LEMMA EntryAlike ==
  ASSUME NEW row \in KeyRows, NEW object, KeyAlike(row, object), NEW k
  PROVE  LET entry(o) == Without(Spread(Without(o, {"hash"}), [tokenId |-> k]),
                                 {"lastUsedAt"})
         IN  entry(Defined(row)) = entry(object)
<1> DEFINE d == Defined(row)
<1>1. /\ DOMAIN object = DOMAIN d
      /\ \A f \in DOMAIN d \ {"lastUsedAt"} : object[f] = d[f]
  BY DocOfKey DEF KeyAlike
<1> HIDE DEF d
<1>2. Without(Spread(Without(d, {"hash"}), [tokenId |-> k]), {"lastUsedAt"})
        = Without(Spread(Without(object, {"hash"}), [tokenId |-> k]),
                  {"lastUsedAt"})
  BY <1>1 DEF Without, Spread, Restrict
<1> QED BY <1>2 DEF d

\* The keys of a tenant are listed alike, and the stamps of the databases are
\* less than the debounce interval behind.
LEMMA KeysReadAlike ==
  ASSUME KeysInv, KeysAlike, store = "apiKeys"
  PROVE  /\ LagBounded
         /\ \A ref \in Refs :
              LET p == Timeless(Pg!listKeys(pg, ref))
              IN  /\ p = Timeless(Mg!listKeys(mongo, ref))
                  /\ p = Timeless(Mm!listKeys(mem, ref))
<1>1. /\ pg \in [DOMAIN pg -> KeyRows] /\ DOMAIN mem = DOMAIN pg
      /\ mongo = Docs(pg)
      /\ \A k \in DOMAIN pg : KeyAlike(pg[k], mem[k])
  BY DEF KeysInv, KeysAlike
<1>2. DOMAIN Docs(pg) = DOMAIN pg /\ \A k \in DOMAIN pg : Docs(pg)[k] = Defined(pg[k])
  BY DEF Docs
<1>3. LagBounded
  <2> SUFFICES ASSUME NEW k \in DOMAIN mem, "lastUsedAt" \in DOMAIN mem[k]
               PROVE  /\ pg[k].lastUsedAt # Null
                      /\ mem[k].lastUsedAt - pg[k].lastUsedAt < Debounce
                      /\ mongo[k].lastUsedAt = pg[k].lastUsedAt
    BY DEF LagBounded
  <2>1. pg[k] \in KeyRows /\ KeyAlike(pg[k], mem[k]) /\ mongo[k] = Defined(pg[k])
    BY <1>1, <1>2
  <2>2. "lastUsedAt" \in DOMAIN Defined(pg[k])
    BY <2>1 DEF KeyAlike
  <2>3. pg[k].lastUsedAt # Null /\ Defined(pg[k]).lastUsedAt = pg[k].lastUsedAt
    <3> DEFINE row == pg[k]
    <3>1. row \in KeyRows /\ "lastUsedAt" \in DOMAIN Defined(row)
      BY <2>1, <2>2
    <3> HIDE DEF row
    <3>2. /\ DOMAIN Defined(row) = {f \in DOMAIN row : row[f] # Null}
          /\ \A f \in DOMAIN Defined(row) : Defined(row)[f] = row[f]
      BY <3>1, DocOfKey
    <3>3. row.lastUsedAt # Null /\ Defined(row).lastUsedAt = row.lastUsedAt
      BY <3>1, <3>2
    <3> QED BY <3>3 DEF row
  <2> QED BY <2>1, <2>3 DEF KeyAlike
<1>4. ASSUME NEW ref \in Refs
      PROVE  /\ Timeless(Pg!listKeys(pg, ref)) = Timeless(Mg!listKeys(mongo, ref))
             /\ Timeless(Pg!listKeys(pg, ref)) = Timeless(Mm!listKeys(mem, ref))
  <2> DEFINE S == {k \in DOMAIN pg : pg[k].tenantRef = ref}
             entry(o, k) == Spread(Without(o, {"hash"}), [tokenId |-> k])
  <2>1. \A k \in DOMAIN pg : /\ Docs(pg)[k].tenantRef = pg[k].tenantRef
                             /\ mem[k].tenantRef = pg[k].tenantRef
    BY <1>1, HitsAlike
  <2>2. Pg!listKeys(pg, ref) = {entry(Defined(pg[k]), k) : k \in S}
    BY DEF Pg!listKeys, Pg!Spread, Pg!Without, Pg!Restrict, Pg!Defined,
           Defined, Spread, Without, Restrict, entry
  <2>3. Mg!listKeys(mongo, ref) = {entry(Defined(pg[k]), k) : k \in S}
    <3>1. {q \in DOMAIN mongo : mongo[q].tenantRef = ref} = S
      BY <1>1, <1>2, <2>1
    <3>2. \A k \in S : mongo[k] = Defined(pg[k])
      BY <1>1, <1>2
    <3> HIDE DEF S
    <3>3. Mg!listKeys(mongo, ref) = {entry(mongo[k], k) : k \in S}
      BY <3>1 DEF Mg!listKeys, Mg!Spread, Mg!Without, Mg!Restrict,
                  Spread, Without, Restrict, entry
    <3> QED BY <3>2, <3>3
  <2>4. Mm!listKeys(mem, ref) = {entry(mem[k], k) : k \in S}
    <3>1. {q \in DOMAIN mem : mem[q].tenantRef = ref} = S
      BY <1>1, <2>1
    <3> HIDE DEF S
    <3> QED BY <3>1 DEF Mm!listKeys, Mm!Spread, Mm!Without, Mm!Restrict,
                        Spread, Without, Restrict, entry
  <2>5. \A k \in S : Without(entry(Defined(pg[k]), k), {"lastUsedAt"})
                       = Without(entry(mem[k], k), {"lastUsedAt"})
    BY <1>1, EntryAlike DEF entry
  <2> HIDE DEF S, entry
  <2>6. Timeless({entry(Defined(pg[k]), k) : k \in S})
          = Timeless({entry(mem[k], k) : k \in S})
    BY <2>5 DEF Timeless
  <2> QED BY <2>2, <2>3, <2>4, <2>6
<1> QED BY <1>3, <1>4

-----------------------------------------------------------------------------
\* Empty registries are alike.
LEMMA AgreeInit == Init => AgreeInv
<1> SUFFICES ASSUME Init PROVE AgreeInv
  OBVIOUS
<1>1. /\ pg = << >> /\ mongo = << >> /\ mem = << >>
      /\ pgWrittenAt = << >> /\ mongoWrittenAt = << >>
      /\ cipher \in Ciphers \ {Null} /\ agreed /\ now = Start
  BY DEF Init
<1>2. DOMAIN pg = {} /\ DOMAIN mem = {}
  BY <1>1
<1>3. Docs(pg) = << >> /\ LastUsed(pg) = << >>
  <2>1. Used(pg) = {}
    BY <1>2 DEF Used
  <2> QED BY <1>2, <2>1 DEF Docs, LastUsed
<1>4. TenantTable(pg) /\ pg \in [DOMAIN pg -> VaultRows]
  <2>1. ASSUME NEW S PROVE pg \in [DOMAIN pg -> S]
    BY <1>1
  <2> QED BY <2>1 DEF TenantTable
<1>5. mem = [k \in DOMAIN pg |-> mem[k]]
  BY <1>1
<1>6. TenantsAlike /\ VaultsAlike /\ KeysAlike
  BY <1>1, <1>2, <1>3, <1>4, <1>5 DEF TenantsAlike, VaultsAlike, KeysAlike
<1>7. now >= Start
  BY <1>1, StartAssumption
<1> QED BY <1>1, <1>6, <1>7, KeysInit DEF AgreeInv

\* Every call, in whichever store, keeps the registries alike and is answered
\* alike.
LEMMA AgreeStep == AgreeInv /\ [Next]_vars => AgreeInv'
<1> SUFFICES ASSUME AgreeInv, [Next]_vars PROVE AgreeInv'
  OBVIOUS
<1>1. /\ agreed /\ now >= Start /\ now \in Nat /\ KeysInv /\ TenantsAlike
      /\ VaultsAlike /\ KeysAlike /\ cipher \in Ciphers \ {Null}
  BY DEF AgreeInv, KeysInv, VaultsAlike
<1>2. KeysInv'
  BY <1>1, KeysStep
<1>3. CASE TenantCall
  <2>1. TenantsAlike' /\ agreed'
    BY <1>1, <1>3, TenantCallAlike
  <2>2. store' = "tenants" /\ cipher' = cipher /\ now' = now
    BY <1>3 DEF TenantCall, Others
  <2>3. VaultsAlike' /\ KeysAlike'
    BY <1>1, <2>2 DEF VaultsAlike, KeysAlike
  <2> QED BY <1>1, <1>2, <2>1, <2>2, <2>3 DEF AgreeInv
<1>4. CASE Put \/ Delete
  <2>1. VaultsAlike' /\ agreed'
    BY <1>1, <1>4, PutAlike, DeleteMaterialAlike
  <2>2. store' = "vault" /\ now' = now
    BY <1>4 DEF Put, Delete
  <2>3. TenantsAlike' /\ KeysAlike'
    BY <2>2 DEF TenantsAlike, KeysAlike
  <2> QED BY <1>1, <1>2, <2>1, <2>2, <2>3 DEF AgreeInv
<1>5. CASE Redeploy
  <2>1. /\ store' = "vault" /\ store = "vault" /\ now' = now /\ agreed' = agreed
        /\ cipher' \in Ciphers \ {Null}
        /\ pg' = pg /\ mongo' = mongo /\ mem' = mem
    BY <1>5 DEF Redeploy
  <2>2. VaultsAlike'
    <3>1. (Ciphers \ {Null})' = Ciphers \ {Null}
      OBVIOUS
    <3> QED BY <1>1, <2>1, <3>1 DEF VaultsAlike
  <2>3. TenantsAlike' /\ KeysAlike'
    BY <2>1 DEF TenantsAlike, KeysAlike
  <2> QED BY <1>1, <1>2, <2>1, <2>2, <2>3 DEF AgreeInv
<1>6. CASE Issue \/ Resolve \/ Revoke \/ RevokeAll
  <2>1. KeysAlike' /\ agreed'
    BY <1>1, <1>6, IssueAlike, ResolveAlike, RevokeAlike, RevokeAllAlike
  <2>2. store' = "apiKeys" /\ now' = now /\ cipher' = cipher
    BY <1>6 DEF Issue, Resolve, Revoke, RevokeAll
  <2>3. TenantsAlike' /\ VaultsAlike'
    BY <1>1, <2>2 DEF TenantsAlike, VaultsAlike
  <2> QED BY <1>1, <1>2, <2>1, <2>2, <2>3 DEF AgreeInv
<1>7. CASE Tick \/ UNCHANGED vars
  <2>1. /\ store' = store /\ cipher' = cipher /\ agreed' = agreed
        /\ pg' = pg /\ mongo' = mongo /\ mem' = mem
        /\ pgWrittenAt' = pgWrittenAt /\ mongoWrittenAt' = mongoWrittenAt
        /\ now' \in {now, now + 1}
    BY <1>7 DEF Tick, vars
  <2>2. TenantsAlike' /\ VaultsAlike' /\ KeysAlike'
    BY <1>1, <2>1 DEF TenantsAlike, VaultsAlike, KeysAlike
  <2>3. now' >= Start
    BY <1>1, <2>1, StartAssumption
  <2> QED BY <1>1, <1>2, <2>1, <2>2, <2>3 DEF AgreeInv
<1> QED BY <1>3, <1>4, <1>5, <1>6, <1>7 DEF Next

\* What the invariant says of the registries' contents is what their readers
\* see.
LEMMA AgreeReads == AgreeInv => RegistriesAgree
<1> SUFFICES ASSUME AgreeInv PROVE RegistriesAgree
  OBVIOUS
<1>1. agreed /\ now \in Nat /\ KeysInv /\ TenantsAlike /\ VaultsAlike /\ KeysAlike
  BY DEF AgreeInv, KeysInv
<1>2. ASSUME store = "tenants"
      PROVE  /\ \A ref \in Refs : /\ Pg!get(pg, ref) = Mg!get(mongo, ref)
                                  /\ Mg!get(mongo, ref) = Mm!get(mem, ref)
             /\ \A f \in Filters : /\ Pg!list(pg, f, now) = Mg!list(mongo, f, now)
                                   /\ Mg!list(mongo, f, now) = Mm!list(mem, f, now)
  <2>1. TenantTable(pg) /\ mongo = Docs(pg) /\ mem = Docs(pg)
    BY <1>1, <1>2 DEF TenantsAlike
  <2> QED BY <1>1, <2>1, TenantsReadAlike
<1>3. ASSUME store = "vault"
      PROVE  \A ref \in Refs :
               LET p == Answer(Pg!getMaterial(pg, cipher, ref))
               IN  /\ p = Answer(Mg!getMaterial(mongo, cipher, ref))
                   /\ p = Answer(Mm!getMaterial(mem, cipher, ref))
  <2>1. mongo = Docs(pg) /\ mem = Docs(pg)
    BY <1>1, <1>3 DEF VaultsAlike
  <2> QED BY <2>1, VaultReadsAlike
<1>4. ASSUME store = "apiKeys"
      PROVE  LagBounded /\ \A ref \in Refs :
               LET p == Timeless(Pg!listKeys(pg, ref))
               IN  /\ p = Timeless(Mg!listKeys(mongo, ref))
                   /\ p = Timeless(Mm!listKeys(mem, ref))
  BY <1>1, <1>4, KeysReadAlike
<1> QED BY <1>1, <1>2, <1>3, <1>4 DEF RegistriesAgree

\* RegistriesAgree: the server cannot tell the Postgres, the Mongo and the
\* memory registry apart, for any refs, keys, key rings and material: each
\* call of TenantStore, CredentialVault and ApiKeyStore is answered with the
\* same record or error, and leaves the same to be read.
THEOREM RegistriesIndistinguishable == Spec => []RegistriesAgree
<1>1. Init => AgreeInv
  BY AgreeInit
<1>2. AgreeInv /\ [Next]_vars => AgreeInv'
  BY AgreeStep
<1>3. AgreeInv => RegistriesAgree
  BY AgreeReads
<1> QED BY <1>1, <1>2, <1>3, PTL DEF Spec

=============================================================================
