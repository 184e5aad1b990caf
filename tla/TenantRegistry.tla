--------------------------- MODULE TenantRegistry --------------------------
(***************************************************************************)
(* The Postgres, Mongo and memory registries given the same calls.  The    *)
(* server is written against one set of interfaces (TenantStore,           *)
(* CredentialVault, ApiKeyStore) and runs on any of the three, so they     *)
(* have to be indistinguishable to it.                                     *)
(*                                                                         *)
(* A behaviour exercises one of the three interfaces: they share nothing   *)
(* but the tenants' existence, which the last two presuppose (the foreign  *)
(* keys of the Postgres tables).                                           *)
(***************************************************************************)
EXTENDS RegistryTypes

CONSTANTS Refs,        \* tenantRefs, integers
          Tails,       \* random tails, and ids, of the keys issued
          Rings,       \* the key rings a deployment may be configured with
          Materials,   \* signing material, [production, compliance]
          Start,       \* the clock's start, and
          MaxTime,     \* its bound
          MaxCalls,    \* bound on the calls of TenantStore in a behaviour
          Debounce     \* LAST_USED_DEBOUNCE_MS, in ticks

\* A certificate is always there to be put; the compliance one may be absent.
ASSUME MaterialsAssumption ==
    \A m \in Materials : /\ DOMAIN m = {"production", "compliance"}
                         /\ m.production # Null

ASSUME StartAssumption ==
    Start \in Nat /\ Debounce \in Nat \ {0} /\ Start >= Debounce

VARIABLES store,      \* the interface that is called
          pg, mongo, mem,   \* what the three registries hold
          pgWrittenAt, mongoWrittenAt,   \* lastUsedWriteAt of the processes
          cipher,     \* the cipher all three were constructed with
          agreed,     \* whether the last call was answered alike
          written,    \* what was last put, by tenant
          alive,      \* the keys issued and not revoked: <<ref, tail>>
          calls,      \* of TenantStore, for the bound
          now

vars == <<store, pg, mongo, mem, pgWrittenAt, mongoWrittenAt, cipher, agreed,
          written, alive, calls, now>>

Pg == INSTANCE RegistryPostgres
Mg == INSTANCE RegistryMongo
Mm == INSTANCE RegistryMemory

Env == "live"

Ciphers == {createAesGcmCipher(r.keyring, r.activeKid) : r \in Rings}
             \cup {createNoopCipher(TRUE, FALSE)}

\* What the onboarding progress of a tenant may be: the scenarios run, and
\* the last error if there was one.
Progress ==
    LET Results == UNION {[ran -> {"passed", "failed"}] : ran \in SUBSET {"s"}}
    IN  [scenarios : Results] \cup [scenarios : Results, lastError : {"e"}]

\* The names, labels, instance ids and messages that the callers pass.
Texts == {"n", "m", "l", "i", "e"}

\* No value that is stored, no envelope of one and no token is the absence of
\* a value.
ASSUME NullAssumption ==
    /\ Null \notin Nat \cup Refs \cup TenantState \cup Texts \cup Progress
    /\ \A c \in Ciphers, m \in Materials : \A f \in DOMAIN m :
          c # Null => encrypt(c, m[f]) # Null
    /\ \A ref \in Refs, tail \in Tails : tokenFor(Env, ref, tail) # Null

Answer(r) == [value |-> r.value, error |-> r.error]

\* The three registries' outcomes of one call.
Lockstep(P, M, W) ==
    /\ pg' = P.db /\ mongo' = M.db /\ mem' = W.db
    /\ agreed' = (Answer(P) = Answer(M) /\ Answer(M) = Answer(W))

Init ==
    /\ store \in {"tenants", "vault", "apiKeys"}
    /\ pg = << >> /\ mongo = << >> /\ mem = << >>
    /\ pgWrittenAt = << >> /\ mongoWrittenAt = << >>
    /\ cipher \in Ciphers \ {Null}
    /\ store # "vault" => cipher = createNoopCipher(TRUE, FALSE)
    /\ agreed = TRUE
    /\ written = << >>
    /\ alive = {}
    /\ calls = 0
    /\ now = Start

Others == UNCHANGED <<store, pgWrittenAt, mongoWrittenAt, cipher, written,
                      alive, now>>

-----------------------------------------------------------------------------
(***************************************************************************)
(* TenantStore.  The options of setState are those the server passes: a    *)
(* claim with its expiry or none, an expected state or none.               *)
(***************************************************************************)
Inputs == [vatName : {"n"}, label : {Null, "l"}]

Claims == {[claimedBy |-> Null, claimExpiresAt |-> Null],
           [claimedBy |-> "i", claimExpiresAt |-> now + 1],
           [claimedBy |-> "i", claimExpiresAt |-> Null]}

Options == {Spread(c, [expectedFrom |-> from, lastError |-> e]) :
              c \in Claims, from \in {Null, "created", "onboarding"},
              e \in {Null, "e"}}

Create == \E ref \in Refs, input \in Inputs :
    Lockstep(Pg!create(pg, ref, input, now), Mg!create(mongo, ref, input, now),
             Mm!create(mem, ref, input, now))

Patch == \E ref \in Refs, fields \in [vatName : {Null, "m"}, label : {Null, "l"}] :
    Lockstep(Pg!patch(pg, ref, fields), Mg!patch(mongo, ref, fields),
             Mm!patch(mem, ref, fields))

SetState ==
  \E ref \in Refs, next \in TenantState \ {"created", "revoked"}, o \in Options :
    Lockstep(Pg!setState(pg, ref, next, o, now),
             Mg!setState(mongo, ref, next, o, now),
             Mm!setState(mem, ref, next, o, now))

RecordProgress == \E ref \in Refs, passed \in BOOLEAN :
    Lockstep(Pg!recordOnboardingProgress(pg, ref, "s", passed),
             Mg!recordOnboardingProgress(mongo, ref, "s", passed),
             Mm!recordOnboardingProgress(mem, ref, "s", passed))

SetExpiry == \E ref \in Refs :
    Lockstep(Pg!setProductionExpiry(pg, ref, now + 1),
             Mg!setProductionExpiry(mongo, ref, now + 1),
             Mm!setProductionExpiry(mem, ref, now + 1))

SoftDelete == \E ref \in Refs :
    Lockstep(Pg!softDelete(pg, ref, now), Mg!softDelete(mongo, ref, now),
             Mm!softDelete(mem, ref, now))

TenantCall ==
    /\ store = "tenants"
    /\ calls < MaxCalls
    /\ calls' = calls + 1
    /\ Create \/ Patch \/ SetState \/ RecordProgress \/ SetExpiry \/ SoftDelete
    /\ Others

-----------------------------------------------------------------------------
Put ==
    /\ store = "vault"
    /\ \E ref \in Refs, material \in Materials :
         /\ Lockstep(Pg!put(pg, cipher, ref, material),
                     Mg!put(mongo, cipher, ref, material),
                     Mm!put(mem, cipher, ref, material))
         /\ written' = With(written, ref,
                [material |-> Defined(material), kid |-> cipher.activeKid,
                 alg |-> cipher.alg])
    /\ UNCHANGED <<store, pgWrittenAt, mongoWrittenAt, cipher, alive, calls,
                   now>>

Delete ==
    /\ store = "vault"
    /\ \E ref \in Refs :
         /\ Lockstep(Pg!deleteMaterial(pg, ref), Mg!deleteMaterial(mongo, ref),
                     Mm!deleteMaterial(mem, ref))
         /\ written' = Without(written, {ref})
    /\ UNCHANGED <<store, pgWrittenAt, mongoWrittenAt, cipher, alive, calls,
                   now>>

\* The operator deploys the server with another configuration; one the
\* constructors refuse does not start.
Redeploy ==
    /\ store = "vault"
    /\ cipher' \in Ciphers \ {Null}
    /\ UNCHANGED <<store, pg, mongo, mem, pgWrittenAt, mongoWrittenAt, agreed,
                   written, alive, calls, now>>

-----------------------------------------------------------------------------
Issue ==
    /\ store = "apiKeys"
    /\ \E ref \in Refs, tail \in Tails \ DOMAIN mem :
         /\ Lockstep(Pg!issue(pg, Env, ref, tail, now),
                     Mg!issue(mongo, Env, ref, tail, now),
                     Mm!issue(mem, Env, ref, tail, now))
         /\ alive' = alive \cup {<<ref, tail>>}
    /\ UNCHANGED <<store, pgWrittenAt, mongoWrittenAt, cipher, written, calls,
                   now>>

\* Whatever a client may present.
Tokens == {Null} \cup [env : {"live", "test"}, tenantRef : Refs, tail : Tails]

Resolve ==
    /\ store = "apiKeys"
    /\ \E token \in Tokens :
         LET p == Pg!resolve(pg, pgWrittenAt, Debounce, Env, token, now)
             m == Mg!resolve(mongo, mongoWrittenAt, Debounce, Env, token, now)
         IN  /\ Lockstep(p.out, m.out, Mm!resolve(mem, Env, token, now))
             /\ pgWrittenAt' = p.writtenAt
             /\ mongoWrittenAt' = m.writtenAt
    /\ UNCHANGED <<store, cipher, written, alive, calls, now>>

Revoke ==
    /\ store = "apiKeys"
    /\ \E ref \in Refs, tail \in Tails :
         /\ Lockstep(Pg!revoke(pg, ref, tail, now), Mg!revoke(mongo, ref, tail, now),
                     Mm!revoke(mem, ref, tail, now))
         /\ alive' = alive \ {<<ref, tail>>}
    /\ UNCHANGED <<store, pgWrittenAt, mongoWrittenAt, cipher, written, calls,
                   now>>

RevokeAll ==
    /\ store = "apiKeys"
    /\ \E ref \in Refs :
         /\ Lockstep(Pg!revokeAllForTenant(pg, ref, now),
                     Mg!revokeAllForTenant(mongo, ref, now),
                     Mm!revokeAllForTenant(mem, ref, now))
         /\ alive' = {k \in alive : k[1] # ref}
    /\ UNCHANGED <<store, pgWrittenAt, mongoWrittenAt, cipher, written, calls,
                   now>>

Tick ==
    /\ now < MaxTime
    /\ now' = now + 1
    /\ UNCHANGED <<store, pg, mongo, mem, pgWrittenAt, mongoWrittenAt, cipher,
                   agreed, written, alive, calls>>

Next == \/ TenantCall \/ Put \/ Delete \/ Redeploy
        \/ Issue \/ Resolve \/ Revoke \/ RevokeAll \/ Tick

Spec == Init /\ [][Next]_vars

-----------------------------------------------------------------------------
Filters == [includeDeleted : BOOLEAN, state : {Null, "onboarding", "revoked"},
            expiringWithin : {Null, 0}]

Timeless(entries) == {Without(e, {"lastUsedAt"}) : e \in entries}

\* The debounced lastUsedAt of the databases is behind the true one, which the
\* memory registry keeps, by less than the debounce interval.
LagBounded ==
    \A k \in {q \in DOMAIN mem : "lastUsedAt" \in DOMAIN mem[q]} :
       /\ pg[k].lastUsedAt # Null
       /\ mem[k].lastUsedAt - pg[k].lastUsedAt < Debounce
       /\ mongo[k].lastUsedAt = pg[k].lastUsedAt

\* The server cannot tell the registries apart: every call was answered alike,
\* with the same record or the same error code, and what can be read
\* afterwards is the same: tenants, one by one and by every listing,
\* credentials, and keys up to the lag of lastUsedAt.
RegistriesAgree ==
    /\ agreed
    /\ store = "tenants" =>
         /\ \A ref \in Refs : /\ Pg!get(pg, ref) = Mg!get(mongo, ref)
                              /\ Mg!get(mongo, ref) = Mm!get(mem, ref)
         /\ \A f \in Filters : /\ Pg!list(pg, f, now) = Mg!list(mongo, f, now)
                               /\ Mg!list(mongo, f, now) = Mm!list(mem, f, now)
    /\ store = "vault" => \A ref \in Refs :
         LET p == Answer(Pg!getMaterial(pg, cipher, ref))
         IN  /\ p = Answer(Mg!getMaterial(mongo, cipher, ref))
             /\ p = Answer(Mm!getMaterial(mem, cipher, ref))
    /\ store = "apiKeys" => LagBounded /\ \A ref \in Refs :
         LET p == Timeless(Pg!listKeys(pg, ref))
         IN  /\ p = Timeless(Mg!listKeys(mongo, ref))
             /\ p = Timeless(Mm!listKeys(mem, ref))

\* The vault returns exactly the material of the last put, compliance fields
\* of an earlier one gone, as long as the key it was written under is in the
\* ring; after that it throws, and never returns part of it.
VaultFaithful ==
    store = "vault" => \A ref \in Refs :
       Answer(Mg!getMaterial(mongo, cipher, ref)) =
         IF ref \notin DOMAIN written THEN [value |-> Null, error |-> Null]
         ELSE IF written[ref].kid \in cipher.kids /\ written[ref].alg = cipher.alg
         THEN [value |-> written[ref].material, error |-> Null]
         ELSE [value |-> Null, error |-> "cipher"]

\* A token opens exactly the tenant it names, and only while the key behind
\* it has not been revoked through that tenant.
KeysScoped ==
    store = "apiKeys" => \A token \in Tokens \ {Null} :
       LET hit == Pg!resolve(pg, pgWrittenAt, Debounce, Env, token, now).out.value
       IN  IF token.env = Env /\ <<token.tenantRef, token.tail>> \in alive
           THEN hit = [tenantRef |-> token.tenantRef, tokenId |-> token.tail]
           ELSE hit = Null

\* A deleted tenant is out of reach of every later call: its row, the time of
\* its deletion included, never changes, and its ref is not given out again.
DeletionIsFinal ==
    [][\A ref \in DOMAIN pg : store = "tenants" /\ pg[ref].deletedAt # Null =>
         pg'[ref] = pg[ref]]_vars
=============================================================================
