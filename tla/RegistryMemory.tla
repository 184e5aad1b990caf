--------------------------- MODULE RegistryMemory --------------------------
(***************************************************************************)
(* tenants/registry-memory.ts: maps from keys to objects, replaced or      *)
(* changed in place without an await between the check and the change.     *)
(***************************************************************************)
EXTENDS RegistryTypes

Has(record, field) == field \in DOMAIN record

\* requireRecord throws not_found where this is FALSE.
requireRecord(records, ref) ==
    ref \in DOMAIN records /\ ~Has(records[ref], "deletedAt")

create(records, ref, input, now) ==
    IF ref \in DOMAIN records
    THEN Throws(records, "conflict")
    ELSE LET record == Spread([tenantRef |-> ref, vatName |-> input.vatName,
                               state |-> "created", progress |-> emptyProgress,
                               createdAt |-> now],
                              Defined([label |-> input.label]))
         IN  Returns(With(records, ref, record), record)

get(records, ref) ==
    IF requireRecord(records, ref) THEN records[ref] ELSE Null

list(records, filter, now) ==
    Listed({r \in {records[q] : q \in DOMAIN records} :
        ~ \/ Has(r, "deletedAt") /\ ~filter.includeDeleted
          \/ filter.state # Null /\ r.state # filter.state
          \/ filter.expiringWithin # Null /\ ~Has(r, "certExpiresAt")
          \/ filter.expiringWithin # Null
               /\ r.certExpiresAt > now + filter.expiringWithin})

Replace(records, ref, record) ==
    Returns(With(records, ref, record), record)

patch(records, ref, fields) ==
    IF ~requireRecord(records, ref) THEN Throws(records, "not_found")
    ELSE Replace(records, ref, Spread(records[ref], Defined(fields)))

lockNotHeld(record, now) ==
    /\ record.state = "onboarding"
    /\ ~Has(record, "claimExpiresAt") \/ record.claimExpiresAt <= now

fromExactMatch(record, from) == record.state = from /\ from # "onboarding"

\* Faulty variant: a claim that is not given is kept.
setState_KeepsClaim(records, ref, next, opts, now) ==
    IF ~requireRecord(records, ref) THEN Throws(records, "not_found")
    ELSE IF /\ opts.expectedFrom # Null
            /\ ~fromExactMatch(records[ref], opts.expectedFrom)
            /\ ~lockNotHeld(records[ref], now)
    THEN Throws(records, "conflict")
    ELSE Replace(records, ref,
           Spread(records[ref],
             Spread(Defined([state |-> next, claimedBy |-> opts.claimedBy,
                             claimExpiresAt |-> opts.claimExpiresAt]),
                    Noting(records[ref].progress, opts.lastError))))

\* applyOptionalDate and its claimedBy twin: set the field or delete it.
setState(records, ref, next, opts, now) ==
    IF ~requireRecord(records, ref) THEN Throws(records, "not_found")
    ELSE IF /\ opts.expectedFrom # Null
            /\ ~fromExactMatch(records[ref], opts.expectedFrom)
            /\ ~lockNotHeld(records[ref], now)
    THEN Throws(records, "conflict")
    ELSE Replace(records, ref,
           Spread(Without(records[ref], {"claimedBy", "claimExpiresAt"}),
             Spread(Defined([state |-> next, claimedBy |-> opts.claimedBy,
                             claimExpiresAt |-> opts.claimExpiresAt]),
                    Noting(records[ref].progress, opts.lastError))))

recordOnboardingProgress(records, ref, scenario, passed) ==
    IF ~requireRecord(records, ref) THEN Throws(records, "not_found")
    ELSE Returns(With(records, ref, Spread(records[ref],
           [progress |-> WithScenario(records[ref].progress,
                                      scenario, passed)])), Null)

setProductionExpiry(records, ref, expiresAt) ==
    IF ~requireRecord(records, ref) THEN Throws(records, "not_found")
    ELSE Returns(With(records, ref, Spread(records[ref],
           [certExpiresAt |-> expiresAt])), Null)

softDelete(records, ref, now) ==
    IF ref \notin DOMAIN records THEN Throws(records, "not_found")
    ELSE IF Has(records[ref], "deletedAt") THEN Throws(records, "conflict")
    ELSE Returns(With(records, ref, Spread(records[ref],
           [state |-> "revoked", deletedAt |-> now])), Null)

-----------------------------------------------------------------------------
\* The row is replaced as a whole.
put(rows, cipher, ref, material) ==
    LET given == Defined(material)
    IN  Returns(With(rows, ref,
                     [f \in DOMAIN given |-> encrypt(cipher, given[f])]),
                Null)

getMaterial(rows, cipher, ref) ==
    IF ref \notin DOMAIN rows THEN Returns(rows, Null)
    ELSE LET row == rows[ref]
         IN  IF \A f \in DOMAIN row : CanDecrypt(cipher, row[f])
             THEN Returns(rows, [f \in DOMAIN row |-> decrypt(row[f])])
             ELSE Throws(rows, "cipher")

deleteMaterial(rows, ref) == Returns(Without(rows, {ref}), Null)

-----------------------------------------------------------------------------
issue(rows, env, ref, tail, now) ==
    Returns(With(rows, tail, [tenantRef |-> ref,
              hash |-> tokenFor(env, ref, tail), createdAt |-> now]),
            tokenFor(env, ref, tail))

\* lastUsedAt is written on every hit.
resolve(rows, env, token, now) ==
    LET hits == IF ~Parses(token, env) THEN {}
                ELSE {k \in DOMAIN rows : /\ ~Has(rows[k], "revokedAt")
                                          /\ rows[k].tenantRef = token.tenantRef
                                          /\ rows[k].hash = token}
        k    == CHOOSE h \in hits : TRUE
    IN  IF hits = {} THEN Returns(rows, Null)
        ELSE Returns(With(rows, k, Spread(rows[k], [lastUsedAt |-> now])),
                     [tenantRef |-> rows[k].tenantRef, tokenId |-> k])

revoke(rows, ref, tail, now) ==
    IF \/ tail \notin DOMAIN rows
       \/ rows[tail].tenantRef # ref
       \/ Has(rows[tail], "revokedAt")
    THEN Returns(rows, FALSE)
    ELSE Returns(With(rows, tail, Spread(rows[tail],
                                             [revokedAt |-> now])), TRUE)

listKeys(rows, ref) ==
    {Spread(Without(rows[k], {"hash"}), [tokenId |-> k]) :
        k \in {q \in DOMAIN rows : rows[q].tenantRef = ref}}

revokeAllForTenant(rows, ref, now) ==
    Returns([k \in DOMAIN rows |->
       IF rows[k].tenantRef = ref /\ ~Has(rows[k], "revokedAt")
       THEN Spread(rows[k], [revokedAt |-> now]) ELSE rows[k]], Null)
=============================================================================
