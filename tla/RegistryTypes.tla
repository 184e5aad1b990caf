--------------------------- MODULE RegistryTypes ---------------------------
(***************************************************************************)
(* What the three implementations of the server's registry share: the      *)
(* vocabulary of tenants/types.ts, the outcome of a call, and the cipher   *)
(* that the credential vaults are given.                                   *)
(*                                                                         *)
(* An object with optional fields (a TypeScript record, a Mongo document)  *)
(* is a function whose domain is the set of fields it has; a Postgres row  *)
(* has every column and Null where there is no value.  updated_at and the  *)
(* descriptive columns that are never interpreted are left out: vatName    *)
(* stands for the mandatory ones, label for the optional ones.             *)
(***************************************************************************)
EXTENDS Integers, FiniteSets, Functions

CONSTANT Null   \* undefined in an argument, NULL in a column

TenantState == {"created", "onboarding", "production-ready", "failed",
                "revoked"}

TenantFields == {"tenantRef", "vatName", "label", "state", "progress",
                 "certExpiresAt", "claimedBy", "claimExpiresAt", "createdAt",
                 "deletedAt"}

\* A call returns a value or throws a ZatcaRegistryError or ZatcaCipherError
\* with a code; db is the table it leaves behind.
Returns(db, value) == [db |-> db, value |-> value, error |-> Null]
Throws(db, code)   == [db |-> db, value |-> Null, error |-> code]

\* {...object, ...changes}
Spread(object, changes) ==
    [f \in DOMAIN object \cup DOMAIN changes |->
        IF f \in DOMAIN changes THEN changes[f] ELSE object[f]]

\* The object, or the table, with one field, or row, set.
With(object, field, value) == Spread(object, [f \in {field} |-> value])

Without(object, fields) == Restrict(object, DOMAIN object \ fields)

\* The fields of an argument that are not undefined.
Defined(arg) == Restrict(arg, {f \in DOMAIN arg : arg[f] # Null})

emptyProgress == [scenarios |-> << >>]

WithScenario(progress, scenario, passed) ==
    Spread(progress, [scenarios |->
        With(progress.scenarios, scenario, IF passed THEN "passed" ELSE "failed")])

WithError(progress, error) == Spread(progress, [lastError |-> error])

\* The progress is rewritten only with a lastError.
Noting(progress, error) ==
    IF error = Null THEN << >> ELSE [progress |-> WithError(progress, error)]

\* The listings are ordered by creation, then by tenantRef.
Before(a, b) ==
    \/ a.createdAt < b.createdAt
    \/ a.createdAt = b.createdAt /\ a.tenantRef < b.tenantRef

Listed(records) ==
    CHOOSE s \in [1 .. Cardinality(records) -> records] :
        \A i, j \in DOMAIN s : i < j => Before(s[i], s[j])

(***************************************************************************)
(* The ciphers the vaults are given.  AES-GCM has a ring of master keys,   *)
(* one of them active; an envelope names the key that opens it.  A cipher  *)
(* that refuses to be constructed is Null: the server does not start.      *)
(***************************************************************************)
KeyBytes == 32

createAesGcmCipher(keyring, activeKid) ==
    LET kids == {keyring[i].kid : i \in DOMAIN keyring}
    IN  IF \/ keyring = << >>
           \/ ~IsInjective([i \in DOMAIN keyring |-> keyring[i].kid])
           \/ \E i \in DOMAIN keyring : keyring[i].bytes # KeyBytes
           \/ activeKid \notin kids
        THEN Null
        ELSE [alg |-> "aes-256-gcm", kids |-> kids, activeKid |-> activeKid]

createNoopCipher(isDev, acknowledgeUnsafe) ==
    IF isDev \/ acknowledgeUnsafe
    THEN [alg |-> "noop", kids |-> {"noop"}, activeKid |-> "noop"]
    ELSE Null

encrypt(cipher, plaintext) ==
    [kid |-> cipher.activeKid, alg |-> cipher.alg, ct |-> plaintext]

CanDecrypt(cipher, envelope) ==
    envelope.alg = cipher.alg /\ envelope.kid \in cipher.kids

decrypt(envelope) == envelope.ct

(***************************************************************************)
(* Bearer tokens: zts_<env>_<tenantRef>_<tail>.  A token that does not     *)
(* match the pattern is Null; the hash of a token stands for the token.    *)
(***************************************************************************)
tokenFor(env, ref, tail) == [env |-> env, tenantRef |-> ref, tail |-> tail]

Parses(token, env) == token # Null /\ token.env = env
=============================================================================
