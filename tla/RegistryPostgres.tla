-------------------------- MODULE RegistryPostgres --------------------------
(***************************************************************************)
(* tenants/registry-postgres.ts: tables of rows, every column of a row     *)
(* present, NULL for what is undefined.                                    *)
(***************************************************************************)
EXTENDS RegistryTypes

rowToTenant(row) == Defined(row)

IsLive(T, ref) == ref \in DOMAIN T /\ T[ref].deletedAt = Null

\* INSERT; the primary key also covers deleted rows.
create(T, ref, input, now) ==
    IF ref \in DOMAIN T
    THEN Throws(T, "conflict")
    ELSE LET row == [tenantRef |-> ref, vatName |-> input.vatName,
                     label |-> input.label, state |-> "created",
                     progress |-> emptyProgress, certExpiresAt |-> Null,
                     claimedBy |-> Null, claimExpiresAt |-> Null,
                     createdAt |-> now, deletedAt |-> Null]
         IN  Returns(With(T, ref, row), rowToTenant(row))

get(T, ref) == IF IsLive(T, ref) THEN rowToTenant(T[ref]) ELSE Null

list(T, filter, now) ==
    Listed({rowToTenant(T[r]) : r \in {q \in DOMAIN T :
        /\ filter.includeDeleted \/ T[q].deletedAt = Null
        /\ filter.state # Null => T[q].state = filter.state
        /\ filter.expiringWithin # Null =>
             /\ T[q].certExpiresAt # Null
             /\ T[q].certExpiresAt <= now + filter.expiringWithin}})

\* UPDATE ... WHERE tenant_ref = $1 AND deleted_at IS NULL RETURNING.
Update(T, ref, changes) ==
    IF IsLive(T, ref)
    THEN LET row == Spread(T[ref], changes)
         IN  Returns(With(T, ref, row), rowToTenant(row))
    ELSE Throws(T, "not_found")

patch(T, ref, fields) == Update(T, ref, Defined(fields))

StateMatches(row, from, now) ==
    \/ row.state = from /\ from # "onboarding"
    \/ /\ row.state = "onboarding"
       /\ row.claimExpiresAt = Null \/ row.claimExpiresAt <= now

\* The progress is read first and rewritten only with a lastError; claim
\* columns that are not given become NULL.
setState(T, ref, next, opts, now) ==
    IF /\ IsLive(T, ref)
       /\ opts.expectedFrom # Null
       /\ ~StateMatches(T[ref], opts.expectedFrom, now)
    THEN Throws(T, "conflict")
    ELSE Update(T, ref,
           Spread([state |-> next, claimedBy |-> opts.claimedBy,
                   claimExpiresAt |-> opts.claimExpiresAt],
                  Noting(T[ref].progress, opts.lastError)))

recordOnboardingProgress(T, ref, scenario, passed) ==
    IF IsLive(T, ref)
    THEN [Update(T, ref, [progress |->
            WithScenario(T[ref].progress, scenario, passed)])
          EXCEPT !.value = Null]
    ELSE Throws(T, "not_found")

setProductionExpiry(T, ref, expiresAt) ==
    [Update(T, ref, [certExpiresAt |-> expiresAt]) EXCEPT !.value = Null]

\* Faulty variant: a second deletion moves deleted_at.
softDelete_Clobbers(T, ref, now) ==
    IF ref \in DOMAIN T
    THEN Returns(With(T, ref, Spread(T[ref],
                   [state |-> "revoked", deletedAt |-> now])), Null)
    ELSE Throws(T, "not_found")

\* A second deletion does not move deleted_at.
softDelete(T, ref, now) ==
    IF IsLive(T, ref)
    THEN Returns(With(T, ref, Spread(T[ref],
                   [state |-> "revoked", deletedAt |-> now])), Null)
    ELSE Throws(T, IF ref \in DOMAIN T THEN "conflict" ELSE "not_found")

-----------------------------------------------------------------------------
(***************************************************************************)
(* The credential vault.  production stands for the four mandatory fields, *)
(* compliance for each of the three optional ones.                         *)
(***************************************************************************)
encryptOptional(cipher, value) ==
    IF value = Null THEN Null ELSE encrypt(cipher, value)

\* INSERT ... ON CONFLICT DO UPDATE of every column.
put(V, cipher, ref, material) ==
    Returns(With(V, ref,
              [production |-> encrypt(cipher, material.production),
               compliance |-> encryptOptional(cipher, material.compliance)]), Null)

getMaterial(V, cipher, ref) ==
    IF ref \notin DOMAIN V THEN Returns(V, Null)
    ELSE LET row == Defined(V[ref])
         IN  IF \A f \in DOMAIN row : CanDecrypt(cipher, row[f])
             THEN Returns(V, [f \in DOMAIN row |-> decrypt(row[f])])
             ELSE Throws(V, "cipher")

deleteMaterial(V, ref) == Returns(Without(V, {ref}), Null)

-----------------------------------------------------------------------------
(***************************************************************************)
(* API keys.  A row is found by the tenant of the presented token and by   *)
(* the hash of the whole token.                                            *)
(***************************************************************************)
issue(K, env, ref, tail, now) ==
    Returns(With(K, tail,
              [tenantRef |-> ref, hash |-> tokenFor(env, ref, tail),
               createdAt |-> now, lastUsedAt |-> Null, revokedAt |-> Null]),
            tokenFor(env, ref, tail))

Candidates(K, env, token) ==
    IF ~Parses(token, env) THEN {}
    ELSE {k \in DOMAIN K : /\ K[k].tenantRef = token.tenantRef
                           /\ K[k].revokedAt = Null
                           /\ K[k].hash = token}

\* last_used_at is written at most once per debounce interval, remembered in
\* the process.
resolve(K, writtenAt, debounce, env, token, now) ==
    IF Candidates(K, env, token) = {}
    THEN [out |-> Returns(K, Null), writtenAt |-> writtenAt]
    ELSE LET k    == CHOOSE c \in Candidates(K, env, token) : TRUE
             last == IF k \in DOMAIN writtenAt THEN writtenAt[k] ELSE 0
             hit  == [tenantRef |-> K[k].tenantRef, tokenId |-> k]
         IN  IF now - last >= debounce
             THEN [out |-> Returns([K EXCEPT ![k].lastUsedAt = now], hit),
                   writtenAt |-> With(writtenAt, k, now)]
             ELSE [out |-> Returns(K, hit), writtenAt |-> writtenAt]

\* Faulty variant: the tenant of the path is not compared.
revoke_AnyTenant(K, ref, tail, now) ==
    IF tail \in DOMAIN K /\ K[tail].revokedAt = Null
    THEN Returns([K EXCEPT ![tail].revokedAt = now], TRUE)
    ELSE Returns(K, FALSE)

revoke(K, ref, tail, now) ==
    IF /\ tail \in DOMAIN K
       /\ K[tail].tenantRef = ref
       /\ K[tail].revokedAt = Null
    THEN Returns([K EXCEPT ![tail].revokedAt = now], TRUE)
    ELSE Returns(K, FALSE)

listKeys(K, ref) ==
    {Spread(Without(Defined(K[k]), {"hash"}), [tokenId |-> k]) :
        k \in {q \in DOMAIN K : K[q].tenantRef = ref}}

revokeAllForTenant(K, ref, now) ==
    Returns([k \in DOMAIN K |->
       IF K[k].tenantRef = ref /\ K[k].revokedAt = Null
       THEN [K[k] EXCEPT !.revokedAt = now] ELSE K[k]], Null)
=============================================================================
