--------------------------- MODULE RegistryMongo ---------------------------
(***************************************************************************)
(* tenants/registry-mongo.ts: collections of documents.  A field that was  *)
(* never set, or was $unset, is absent: a filter asks { $exists: false }.  *)
(***************************************************************************)
EXTENDS RegistryTypes

Exists(doc, field) == field \in DOMAIN doc

\* findOneAndUpdate / updateOne of the document id, if the filter holds of it.
UpdateOne(C, id, matches, set, unset) ==
    [matched |-> matches,
     db |-> IF matches THEN With(C, id, Spread(Without(C[id], unset), set))
            ELSE C]

docToTenant(doc) == Restrict(doc, TenantFields \cap DOMAIN doc)

IsLive(T, ref) == ref \in DOMAIN T /\ ~Exists(T[ref], "deletedAt")

create(T, ref, input, now) ==
    IF ref \in DOMAIN T
    THEN Throws(T, "conflict")
    ELSE LET doc == Defined([tenantRef |-> ref, vatName |-> input.vatName,
                             label |-> input.label, state |-> "created",
                             progress |-> emptyProgress, createdAt |-> now])
         IN  Returns(With(T, ref, doc), docToTenant(doc))

get(T, ref) == IF IsLive(T, ref) THEN docToTenant(T[ref]) ELSE Null

list(T, filter, now) ==
    Listed({docToTenant(T[r]) : r \in {q \in DOMAIN T :
        /\ filter.includeDeleted \/ ~Exists(T[q], "deletedAt")
        /\ filter.state # Null => T[q].state = filter.state
        /\ filter.expiringWithin # Null =>
             /\ Exists(T[q], "certExpiresAt")
             /\ T[q].certExpiresAt <= now + filter.expiringWithin}})

\* The updates that answer with the document, or say it is unknown.
Updated(T, ref, u) ==
    IF u.matched THEN Returns(u.db, docToTenant(u.db[ref]))
    ELSE Throws(T, "not_found")

patch(T, ref, fields) ==
    Updated(T, ref, UpdateOne(T, ref, IsLive(T, ref), Defined(fields), {}))

StateFilter(doc, from, now) ==
    \/ from # "onboarding" /\ doc.state = from
    \/ /\ doc.state = "onboarding"
       /\ \/ ~Exists(doc, "claimExpiresAt")
          \/ doc.claimExpiresAt <= now

\* Claim fields that are not given are $unset; the progress is read first and
\* set only with a lastError.
setState(T, ref, next, opts, now) ==
    LET claim == Defined([claimedBy |-> opts.claimedBy,
                          claimExpiresAt |-> opts.claimExpiresAt])
        known == IF ref \in DOMAIN T THEN T[ref].progress ELSE emptyProgress
        set   == Spread(Spread(claim, [state |-> next]),
                        Noting(known, opts.lastError))
        unset == {"claimedBy", "claimExpiresAt"} \ DOMAIN claim
        u     == UpdateOne(T, ref,
                   /\ IsLive(T, ref)
                   /\ opts.expectedFrom # Null =>
                        StateFilter(T[ref], opts.expectedFrom, now),
                   set, unset)
    IN  IF ~u.matched /\ IsLive(T, ref) THEN Throws(T, "conflict")
        ELSE Updated(T, ref, u)

recordOnboardingProgress(T, ref, scenario, passed) ==
    IF ~IsLive(T, ref) THEN Throws(T, "not_found")
    ELSE Returns(UpdateOne(T, ref, TRUE, [progress |->
           WithScenario(T[ref].progress, scenario, passed)], {}).db, Null)

setProductionExpiry(T, ref, expiresAt) ==
    LET u == UpdateOne(T, ref, IsLive(T, ref), [certExpiresAt |-> expiresAt], {})
    IN  IF u.matched THEN Returns(u.db, Null) ELSE Throws(T, "not_found")

softDelete(T, ref, now) ==
    LET u == UpdateOne(T, ref, IsLive(T, ref),
                       [state |-> "revoked", deletedAt |-> now], {})
    IN  IF u.matched THEN Returns(u.db, Null)
        ELSE Throws(T, IF ref \in DOMAIN T THEN "conflict" ELSE "not_found")

-----------------------------------------------------------------------------
\* Faulty variant: a compliance field the new material lacks is kept.
put_KeepsStale(V, cipher, ref, material) ==
    LET given == Defined(material)
        set   == [f \in DOMAIN given |-> encrypt(cipher, given[f])]
    IN  Returns(With(V, ref, IF ref \in DOMAIN V
                                 THEN Spread(V[ref], set) ELSE set), Null)

\* Upsert; optional fields the new material lacks are $unset.
put(V, cipher, ref, material) ==
    LET given == Defined(material)
        set   == [f \in DOMAIN given |-> encrypt(cipher, given[f])]
        old   == IF ref \in DOMAIN V THEN V[ref] ELSE << >>
    IN  Returns(With(V, ref,
                     Spread(Without(old, DOMAIN material \ DOMAIN given), set)),
                Null)

getMaterial(V, cipher, ref) ==
    IF ref \notin DOMAIN V THEN Returns(V, Null)
    ELSE IF \E f \in DOMAIN V[ref] : ~CanDecrypt(cipher, V[ref][f])
    THEN Throws(V, "cipher")
    ELSE Returns(V, [f \in DOMAIN V[ref] |-> decrypt(V[ref][f])])

deleteMaterial(V, ref) == Returns(Without(V, {ref}), Null)

-----------------------------------------------------------------------------
issue(K, env, ref, tail, now) ==
    LET token == tokenFor(env, ref, tail)
    IN  Returns(With(K, tail, [tenantRef |-> ref, hash |-> token,
                                   createdAt |-> now]), token)

LiveKeys(K, ref) ==
    {k \in DOMAIN K : K[k].tenantRef = ref /\ ~Exists(K[k], "revokedAt")}

\* The live keys of the token's tenant, one of whose hashes must match; the
\* write of lastUsedAt is debounced per process.
resolve(K, writtenAt, debounce, env, token, now) ==
    LET hits == IF Parses(token, env)
                THEN {k \in LiveKeys(K, token.tenantRef) : K[k].hash = token}
                ELSE {}
        id   == CHOOSE k \in hits : TRUE
        last == IF id \in DOMAIN writtenAt THEN writtenAt[id] ELSE 0
        due  == hits # {} /\ now - last >= debounce
    IN  [out |-> Returns(
            IF due THEN UpdateOne(K, id, TRUE, [lastUsedAt |-> now], {}).db
            ELSE K,
            IF hits = {} THEN Null
            ELSE [tenantRef |-> K[id].tenantRef, tokenId |-> id]),
         writtenAt |-> IF due THEN With(writtenAt, id, now)
                       ELSE writtenAt]

revoke(K, ref, tail, now) ==
    LET u == UpdateOne(K, tail, tail \in LiveKeys(K, ref),
                       [revokedAt |-> now], {})
    IN  Returns(u.db, u.matched)

listKeys(K, ref) ==
    {Spread(Without(K[k], {"hash"}), [tokenId |-> k]) :
        k \in {q \in DOMAIN K : K[q].tenantRef = ref}}

revokeAllForTenant(K, ref, now) ==
    Returns([k \in DOMAIN K |->
       IF k \in LiveKeys(K, ref) THEN Spread(K[k], [revokedAt |-> now])
       ELSE K[k]], Null)
=============================================================================
