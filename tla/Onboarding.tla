----------------------------- MODULE Onboarding -----------------------------
(***************************************************************************)
(* Onboarding of one tenant by the standalone server: runOnboarding (also  *)
(* the credential rotation) on any number of replicas, POST /unlock and    *)
(* the deletion of the tenant, over the tenant registry and the credential *)
(* vault they share.                                                       *)
(*                                                                         *)
(* The lock is the tenant's state: setState(..., {expectedFrom}) is a CAS  *)
(* that puts it into "onboarding" with a claim that runs out.  Time is     *)
(* kept as what is left of each claim: an instant is past when 0 is left,  *)
(* and a claim that was never written has nothing left either, which is    *)
(* how the registries treat it.  softDelete is the only way to "revoked",  *)
(* so that state stands for deletedAt as well.                             *)
(***************************************************************************)
EXTENDS Integers

CONSTANTS
    Run,            \* invocations of runOnboarding
    Admin,          \* invocations of POST /unlock
    LockTTL,        \* lockTtlMs
    Backends        \* TRUE: the unit of work is a Postgres transaction;
                    \* FALSE: the pass-through of the other backends

NoRun == "no run"

ASSUME OnboardingAssumption ==
    /\ LockTTL \in Nat \ {0}
    /\ Backends \subseteq BOOLEAN
    /\ NoRun \notin Run

TenantState == {"created", "onboarding", "production-ready", "failed",
                "revoked"}

VARIABLES
    transactional, \* the backend, one of Backends
    state,      \* the tenant's state
    claimedBy,  \* the run whose claim the tenant row carries
    claimLeft,  \* time until claimExpiresAt, 0 if it is past or undefined
    vault,      \* the run whose key material the vault holds
    expiry,     \* the run whose certificate expiry the tenant row carries
    audited,    \* the runs with an audit row that says ok
    pc,         \* run -> where it is
    attempt,    \* run -> which expectedFrom it tries next
    lockLeft,   \* run -> time until its lockExpires
    promoted,   \* history: the runs whose promotion took effect
    overran,    \* history: the runs that outlasted their own lock
    unlock      \* admin -> where the unlock call is

tenant == <<state, claimedBy, claimLeft>>
saved  == <<vault, expiry, audited>>
history == <<promoted, overran>>
vars   == <<transactional, tenant, saved, pc, attempt, lockLeft, history, unlock>>

\* The runs that hold, or held and have not given up, the claim.
Holding == {"handshaking", "saving", "expiring", "promoting", "auditing",
            "failing"}
Ended   == {"ok", "refused", "error", "crashed"}

\* The tenant row, the vault and the locals of runOnboarding.
TypeOK ==
    /\ transactional \in Backends
    /\ state \in TenantState
    /\ claimedBy \in Run \cup {NoRun}
    /\ claimLeft \in 0 .. LockTTL
    /\ vault \in Run \cup {NoRun}
    /\ expiry \in Run \cup {NoRun}
    /\ audited \subseteq Run
    /\ pc \in [Run -> {"idle", "claiming"} \cup Holding \cup Ended]
    /\ attempt \in [Run -> 1 .. 4]
    /\ lockLeft \in [Run -> 0 .. LockTTL]
    /\ promoted \subseteq Run
    /\ overran \subseteq Run
    /\ unlock \in [Admin -> {"idle", "checked", "forced", "done"}]

Init ==
    /\ transactional \in Backends
    /\ state = "created"
    /\ claimedBy = NoRun
    /\ claimLeft = 0
    /\ vault = NoRun
    /\ expiry = NoRun
    /\ audited = {}
    /\ pc = [r \in Run |-> "idle"]
    /\ attempt = [r \in Run |-> 1]
    /\ lockLeft = [r \in Run |-> 0]
    /\ promoted = {}
    /\ overran = {}
    /\ unlock = [a \in Admin |-> "idle"]

-----------------------------------------------------------------------------
(***************************************************************************)
(* The registry.                                                           *)
(***************************************************************************)
Deleted == state = "revoked"

FreshClaim == state = "onboarding" /\ claimLeft > 0

\* Faulty variants of the CAS: a fresh claim can be taken over; a stale one
\* cannot.
CanTransition_Steals(from) ==
    state = from \/ (state = "onboarding" /\ claimLeft = 0)

CanTransition_NoStale(from) == state = from /\ from # "onboarding"

\* The condition of setState with expectedFrom: from "onboarding" only a stale
\* claim can be taken over, and that whatever the caller expected.
CanTransition(from) ==
    \/ state = from /\ from # "onboarding"
    \/ state = "onboarding" /\ claimLeft = 0

\* setState without expectedFrom: it overwrites the state and clears the
\* claim, whoever holds it.
setState(next) ==
    /\ ~Deleted
    /\ state' = next
    /\ claimedBy' = NoRun
    /\ claimLeft' = 0

(***************************************************************************)
(* runOnboarding: the pre-flight check and the lock.                       *)
(***************************************************************************)
Preflight(r) ==
    /\ pc[r] = "idle"
    /\ pc' = [pc EXCEPT ![r] =
                IF Deleted \/ FreshClaim THEN "refused" ELSE "claiming"]
    /\ attempt' = [attempt EXCEPT ![r] = 1]
    /\ lockLeft' = [lockLeft EXCEPT ![r] = LockTTL]
    /\ UNCHANGED <<tenant, saved, unlock, history>>

ExpectedFrom(i) ==
    CASE i = 1 -> "created"
      [] i = 2 -> "failed"
      [] i = 3 -> "production-ready"
      [] i = 4 -> "onboarding"

\* One CAS of the loop succeeds; the claim lasts until the lockExpires that
\* was computed before the loop.
Claim(r) ==
    /\ pc[r] = "claiming"
    /\ CanTransition(ExpectedFrom(attempt[r]))
    /\ state' = "onboarding"
    /\ claimedBy' = r
    /\ claimLeft' = lockLeft[r]
    /\ pc' = [pc EXCEPT ![r] = "handshaking"]
    /\ UNCHANGED <<saved, attempt, lockLeft, unlock, history>>

\* It fails, and the next state is tried; after the last one, 409.
ClaimMisses(r) ==
    /\ pc[r] = "claiming"
    /\ ~CanTransition(ExpectedFrom(attempt[r]))
    /\ IF attempt[r] < 4
       THEN /\ attempt' = [attempt EXCEPT ![r] = @ + 1]
            /\ pc' = pc
       ELSE /\ attempt' = attempt
            /\ pc' = [pc EXCEPT ![r] = "refused"]
    /\ UNCHANGED <<tenant, saved, lockLeft, unlock, history>>

\* The admin whose run was refused tries again.
Again(r) ==
    /\ pc[r] = "refused"
    /\ pc' = [pc EXCEPT ![r] = "idle"]
    /\ UNCHANGED <<tenant, saved, attempt, lockLeft, unlock, history>>

(***************************************************************************)
(* core.onboard: the OTP is exchanged, the compliance scenarios run and    *)
(* the production certificate is issued and parsed.                        *)
(***************************************************************************)
Handshake(r) ==
    /\ pc[r] = "handshaking"
    /\ pc' = [pc EXCEPT ![r] = "saving"]
    /\ UNCHANGED <<tenant, saved, attempt, lockLeft, unlock, history>>

\* It throws, or a write of the unit of work does and a transaction is rolled
\* back.
Throws(r) ==
    /\ pc[r] \in Holding \ {"failing"}
    /\ pc' = [pc EXCEPT ![r] = "failing"]
    /\ UNCHANGED <<tenant, saved, attempt, lockLeft, unlock, history>>

(***************************************************************************)
(* The unit of work as a transaction.  ack = FALSE: it committed, but the  *)
(* answer to COMMIT was lost, and the code takes the error path.           *)
(***************************************************************************)

\* Faulty variants: the expiry is not written; the promotion does not ask
\* whether the tenant still exists; the audit row is left out.
SaveAtomically_NoExpiry(r, ack) ==
    /\ transactional
    /\ pc[r] = "saving"
    /\ setState("production-ready")
    /\ vault' = r
    /\ audited' = audited \cup {r}
    /\ pc' = [pc EXCEPT ![r] = IF ack THEN "ok" ELSE "failing"]
    /\ promoted' = promoted \cup {r}
    /\ UNCHANGED <<overran, expiry, attempt, lockLeft, unlock>>

SaveAtomically_Undeletes(r, ack) ==
    /\ transactional
    /\ pc[r] = "saving"
    /\ state' = "production-ready"
    /\ claimedBy' = NoRun
    /\ claimLeft' = 0
    /\ vault' = r
    /\ expiry' = r
    /\ audited' = audited \cup {r}
    /\ pc' = [pc EXCEPT ![r] = IF ack THEN "ok" ELSE "failing"]
    /\ promoted' = promoted \cup {r}
    /\ UNCHANGED <<overran, attempt, lockLeft, unlock>>

SaveAtomically(r, ack) ==
    /\ transactional
    /\ pc[r] = "saving"
    /\ setState("production-ready")
    /\ vault' = r
    /\ expiry' = r
    /\ audited' = audited \cup {r}
    /\ pc' = [pc EXCEPT ![r] = IF ack THEN "ok" ELSE "failing"]
    /\ promoted' = promoted \cup {r}
    /\ UNCHANGED <<overran, attempt, lockLeft, unlock>>

(***************************************************************************)
(* The unit of work as a pass-through: four writes, one after another.     *)
(* The vault does not ask whether the tenant still exists.                 *)
(***************************************************************************)
PutVault(r) ==
    /\ ~transactional
    /\ pc[r] = "saving"
    /\ vault' = r
    /\ pc' = [pc EXCEPT ![r] = "expiring"]
    /\ UNCHANGED <<tenant, expiry, audited, attempt, lockLeft,
                   unlock, history>>

setProductionExpiry(r) ==
    /\ pc[r] = "expiring"
    /\ ~Deleted
    /\ expiry' = r
    /\ pc' = [pc EXCEPT ![r] = "promoting"]
    /\ UNCHANGED <<tenant, vault, audited, attempt, lockLeft,
                   unlock, history>>

Promote(r) ==
    /\ pc[r] = "promoting"
    /\ setState("production-ready")
    /\ pc' = [pc EXCEPT ![r] = "auditing"]
    /\ promoted' = promoted \cup {r}
    /\ UNCHANGED <<overran, saved, attempt, lockLeft, unlock>>

WriteAudit(r) ==
    /\ pc[r] = "auditing"
    /\ audited' = audited \cup {r}
    /\ pc' = [pc EXCEPT ![r] = "ok"]
    /\ UNCHANGED <<tenant, vault, expiry, attempt, lockLeft, unlock, history>>

(***************************************************************************)
(* The catch block: the tenant is marked failed, whoever claims it by now; *)
(* a failure to do so is swallowed.                                        *)
(***************************************************************************)

MarkFailed(r) ==
    /\ pc[r] = "failing"
    /\ setState("failed")
    /\ pc' = [pc EXCEPT ![r] = "error"]
    /\ UNCHANGED <<saved, attempt, lockLeft, unlock, history>>

MarkFailedSwallowed(r) ==
    /\ pc[r] = "failing"
    /\ pc' = [pc EXCEPT ![r] = "error"]
    /\ UNCHANGED <<tenant, saved, attempt, lockLeft, unlock, history>>

\* The replica dies, or, while it claims, the registry cannot be reached: that
\* error is thrown outside the try block.
Crash(r) ==
    /\ pc[r] \in {"claiming"} \cup Holding
    /\ pc' = [pc EXCEPT ![r] = "crashed"]
    /\ UNCHANGED <<tenant, saved, attempt, lockLeft, unlock, history>>

(***************************************************************************)
(* POST /unlock: the tenant is read and checked, and then written without  *)
(* expectedFrom.                                                           *)
(***************************************************************************)
UnlockCheck(a, force) ==
    /\ unlock[a] = "idle"
    /\ state = "onboarding"
    /\ claimLeft = 0 \/ force
    /\ unlock' = [unlock EXCEPT ![a] = IF force THEN "forced" ELSE "checked"]
    /\ UNCHANGED <<tenant, saved, pc, attempt, lockLeft, history>>

UnlockWrite(a) ==
    /\ unlock[a] \in {"checked", "forced"}
    /\ IF Deleted THEN UNCHANGED tenant ELSE setState("failed")
    /\ unlock' = [unlock EXCEPT ![a] = "done"]
    /\ UNCHANGED <<saved, pc, attempt, lockLeft, history>>

\* DELETE /v1/tenants/:ref; the row keeps its claim.  The API keys it revokes
\* and its audit row play no part in onboarding.
softDelete ==
    /\ ~Deleted
    /\ state' = "revoked"
    /\ UNCHANGED <<claimedBy, claimLeft, saved, pc, attempt, lockLeft, unlock,
                   history>>

Less(n) == IF n = 0 THEN 0 ELSE n - 1

Tick ==
    /\ claimLeft' = Less(claimLeft)
    /\ lockLeft' = [r \in Run |-> Less(lockLeft[r])]
    /\ overran' = overran \cup {r \in Run : pc[r] \in {"claiming"} \cup Holding
                                           /\ lockLeft[r] <= 1}
    /\ UNCHANGED <<state, claimedBy, saved, pc, attempt, unlock, promoted>>

Enter(r) == Preflight(r) \/ Claim(r) \/ ClaimMisses(r) \/ Again(r)

Finish(r) ==
    \/ Handshake(r)
    \/ Throws(r)
    \/ \E ack \in BOOLEAN : SaveAtomically(r, ack)
    \/ PutVault(r)
    \/ setProductionExpiry(r)
    \/ Promote(r)
    \/ WriteAudit(r)
    \/ MarkFailed(r)
    \/ MarkFailedSwallowed(r)

Next ==
    /\ \/ \E r \in Run : Enter(r) \/ Finish(r) \/ Crash(r)
       \/ \E a \in Admin : \E force \in BOOLEAN : UnlockCheck(a, force)
       \/ \E a \in Admin : UnlockWrite(a)
       \/ softDelete
       \/ Tick
    /\ UNCHANGED transactional

Spec == Init /\ [][Next]_vars

\* Time passes, and the admins keep asking; nobody need ever finish.
FairSpec == Spec /\ WF_vars(Tick /\ UNCHANGED transactional)
                 /\ \A r \in Run : WF_vars(Enter(r) /\ UNCHANGED transactional)

-----------------------------------------------------------------------------
(***************************************************************************)
(* Properties.                                                             *)
(***************************************************************************)

\* A run that failed after its promotion took effect: it marks the tenant
\* failed although it no longer holds the claim.
LateFailure == \E r \in promoted : pc[r] = "error"

\* Nothing happened that the lock does not provide for.
Undisturbed ==
    /\ ~LateFailure
    /\ overran = {}
    /\ \A a \in Admin : unlock[a] # "done"

\* onboarding/run.ts:8: "two concurrent admins can't burn the same OTP twice":
\* two runs are at their handshake or save its result at the same time only
\* after a run outlasted its lock or failed late, or after an unlock.
LockExclusive ==
    \A q, r \in Run :
        /\ pc[q] \in Holding \ {"auditing", "failing"}
        /\ pc[r] \in Holding \ {"auditing", "failing"}
        /\ Undisturbed
        => q = r

\* What a run saves belongs together.  A tenant that is ready for production
\* signs with the material whose expiry its row shows: with transactions even
\* when runs overtake each other, without them as long as the lock was not
\* disturbed.  In a transaction the material in the vault also has its audit
\* row, whatever became of the answer to COMMIT.
CredentialsMatch ==
    /\ state = "production-ready" /\ (transactional \/ Undisturbed) =>
         vault # NoRun /\ expiry = vault
    /\ transactional /\ vault # NoRun => vault \in audited

\* A deleted tenant stays deleted and gets no key material, except that without
\* transactions a run may already be past the last check.
DeletedFrozen ==
    [][Deleted => state' = state /\ (transactional => vault' = vault)]_vars

\* onboarding/run.ts:9: "so a crashed onboarder doesn't permawedge the
\* tenant": an admin who keeps retrying gets the claim, or the tenant is
\* deleted.
NotWedged ==
    \A r \in Run :
        pc[r] = "refused" ~> (pc[r] \in Holding \cup {"crashed"} \/ Deleted)
=============================================================================
