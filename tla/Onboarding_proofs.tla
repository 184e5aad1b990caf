------------------------- MODULE Onboarding_proofs --------------------------
(***************************************************************************)
(* The safety properties of Onboarding, for any number of runs and admins, *)
(* any lock TTL and both kinds of unit of work.                            *)
(***************************************************************************)
EXTENDS Onboarding, TLAPS

-----------------------------------------------------------------------------
(* The inductive invariant. *)

Active == Holding \ {"auditing", "failing"}

\* The runs that still need their claim: at the handshake, saving its result,
\* or about to mark the tenant failed without having promoted it.
Owner(r) == pc[r] \in Active \/ (pc[r] = "failing" /\ r \notin promoted)

\* As long as no run has overrun, every run that claims or holds has time left.
TimeLeft ==
    overran = {} => \A r \in Run : pc[r] \in {"claiming"} \cup Holding
                                     => lockLeft[r] > 0

\* An owner's claim is the one in the tenant row, and both expire together.
ClaimStands ==
    Undisturbed => \A r \in Run : Owner(r) =>
        /\ state \in {"onboarding", "revoked"}
        /\ claimedBy = r
        /\ claimLeft = lockLeft[r]

\* Only a run that promoted the tenant is at its last write.
AuditingPromoted == \A r \in Run : pc[r] = "auditing" => r \in promoted

\* In a transaction the parts that belong together are never apart.
SavedTogether ==
    transactional =>
        /\ \A r \in Run : pc[r] \notin {"expiring", "promoting", "auditing"}
        /\ expiry = vault
        /\ state = "production-ready" => vault # NoRun
        /\ vault # NoRun => vault \in audited

\* Without one they are written in order, by the owner of the claim.
SavedInOrder ==
    Undisturbed =>
        /\ \A r \in Run : pc[r] \in {"expiring", "promoting"} => vault = r
        /\ \A r \in Run : pc[r] = "promoting" => expiry = r
        /\ state = "production-ready" => vault # NoRun /\ expiry = vault

LockInv ==
    /\ TimeLeft
    /\ ClaimStands
    /\ AuditingPromoted
    /\ SavedTogether
    /\ SavedInOrder

-----------------------------------------------------------------------------
(* The type invariant. *)

\* The initial states are well typed.
LEMMA TypeInit == Init => TypeOK
BY OnboardingAssumption DEF Init, TypeOK, TenantState

\* Every step keeps the tenant row, the vault and the runs well typed.
LEMMA TypeNext == TypeOK /\ [Next]_vars => TypeOK'
<1> SUFFICES ASSUME TypeOK, [Next]_vars PROVE TypeOK'
  OBVIOUS
<1> USE OnboardingAssumption
    DEF TypeOK, TenantState, Holding, Ended, tenant, saved, history, setState
<1>1. ASSUME NEW r \in Run, Enter(r), UNCHANGED transactional PROVE TypeOK'
  <2>1. CASE Preflight(r)
    BY <1>1, <2>1 DEF Preflight
  <2>2. CASE Claim(r)
    BY <1>1, <2>2 DEF Claim
  <2>3. CASE ClaimMisses(r)
    BY <1>1, <2>3 DEF ClaimMisses
  <2>4. CASE Again(r)
    BY <1>1, <2>4 DEF Again
  <2>5. QED
    BY <1>1, <2>1, <2>2, <2>3, <2>4 DEF Enter
<1>2. ASSUME NEW r \in Run, Finish(r), UNCHANGED transactional PROVE TypeOK'
  <2>1. CASE Handshake(r)
    BY <1>2, <2>1 DEF Handshake
  <2>2. CASE Throws(r)
    BY <1>2, <2>2 DEF Throws
  <2>3. ASSUME NEW ack \in BOOLEAN, SaveAtomically(r, ack) PROVE TypeOK'
    <3> DEFINE p == IF ack THEN "ok" ELSE "failing"
    <3>1. pc' = [pc EXCEPT ![r] = p] /\ p \in {"ok", "failing"}
      BY <2>3 DEF SaveAtomically
    <3> HIDE DEF p
    <3>2. pc' \in [Run -> {"idle", "claiming"} \cup Holding \cup Ended]
      BY <3>1
    <3>3. /\ state' = "production-ready" /\ claimedBy' = NoRun /\ claimLeft' = 0
          /\ vault' = r /\ expiry' = r
          /\ audited' = audited \cup {r} /\ promoted' = promoted \cup {r}
          /\ UNCHANGED <<overran, attempt, lockLeft, unlock>>
      BY <2>3 DEF SaveAtomically
    <3>4. QED
      BY <1>2, <3>2, <3>3
  <2>4. CASE PutVault(r)
    BY <1>2, <2>4 DEF PutVault
  <2>5. CASE setProductionExpiry(r)
    BY <1>2, <2>5 DEF setProductionExpiry
  <2>6. CASE Promote(r)
    BY <1>2, <2>6 DEF Promote
  <2>7. CASE WriteAudit(r)
    BY <1>2, <2>7 DEF WriteAudit
  <2>8. CASE MarkFailed(r)
    BY <1>2, <2>8 DEF MarkFailed
  <2>9. CASE MarkFailedSwallowed(r)
    BY <1>2, <2>9 DEF MarkFailedSwallowed
  <2>10. QED
    BY <1>2, <2>1, <2>2, <2>3, <2>4, <2>5, <2>6, <2>7, <2>8, <2>9 DEF Finish
<1>3. ASSUME NEW r \in Run, Crash(r), UNCHANGED transactional PROVE TypeOK'
  BY <1>3 DEF Crash
<1>4. ASSUME NEW a \in Admin, NEW force \in BOOLEAN, UnlockCheck(a, force),
             UNCHANGED transactional
      PROVE  TypeOK'
  BY <1>4 DEF UnlockCheck
<1>5. ASSUME NEW a \in Admin, UnlockWrite(a), UNCHANGED transactional
      PROVE  TypeOK'
  BY <1>5 DEF UnlockWrite
<1>6. CASE softDelete /\ UNCHANGED transactional
  BY <1>6 DEF softDelete
<1>7. CASE Tick /\ UNCHANGED transactional
  <2>1. \A n \in 0 .. LockTTL : Less(n) \in 0 .. LockTTL
    BY DEF Less
  <2>2. claimLeft' \in 0 .. LockTTL /\ lockLeft' \in [Run -> 0 .. LockTTL]
    BY <1>7, <2>1 DEF Tick
  <2>3. QED
    BY <1>7, <2>2 DEF Tick
<1>8. CASE UNCHANGED vars
  BY <1>8 DEF vars
<1>9. QED
  BY <1>1, <1>2, <1>3, <1>4, <1>5, <1>6, <1>7, <1>8 DEF Next

\* The tenant row, the vault and the locals of runOnboarding keep their types
\* in every behaviour.
THEOREM TypeCorrect == Spec => []TypeOK
BY TypeInit, TypeNext, PTL DEF Spec

-----------------------------------------------------------------------------
(* What a step cannot undo. *)

\* A run that ended with an error stays there, what was promoted stays so, an
\* overrun is not forgotten and an unlock that was made is not taken back: a
\* disturbed lock stays disturbed.
LEMMA DisturbanceStays ==
    ASSUME TypeOK, [Next]_vars, Undisturbed'
    PROVE  Undisturbed
<1> USE DEF TypeOK, Undisturbed, LateFailure, Holding, tenant, saved, history
<1>1. ASSUME NEW r \in Run, Enter(r) PROVE Undisturbed
  BY <1>1 DEF Enter, Preflight, Claim, ClaimMisses, Again
<1>2. ASSUME NEW r \in Run, Finish(r) PROVE Undisturbed
  <2>1. /\ promoted \subseteq promoted' /\ overran' = overran /\ unlock' = unlock
        /\ pc[r] # "error"
        /\ \A q \in Run : q # r => pc'[q] = pc[q]
    BY <1>2 DEF Finish, Handshake, Throws, SaveAtomically, PutVault,
                setProductionExpiry, Promote, WriteAudit, MarkFailed,
                MarkFailedSwallowed
  <2>2. QED
    BY <2>1
<1>3. ASSUME NEW r \in Run, Crash(r) PROVE Undisturbed
  BY <1>3 DEF Crash
<1>4. ASSUME NEW a \in Admin, NEW force \in BOOLEAN, UnlockCheck(a, force)
      PROVE  Undisturbed
  BY <1>4 DEF UnlockCheck
<1>5. ASSUME NEW a \in Admin, UnlockWrite(a) PROVE Undisturbed
  BY <1>5 DEF UnlockWrite
<1>6. CASE softDelete
  BY <1>6 DEF softDelete
<1>7. CASE Tick
  BY <1>7 DEF Tick
<1>8. CASE UNCHANGED vars
  BY <1>8 DEF vars
<1>9. QED
  BY <1>1, <1>2, <1>3, <1>4, <1>5, <1>6, <1>7, <1>8 DEF Next

-----------------------------------------------------------------------------
(* The lock. *)

\* Nothing runs at first.
LEMMA LockInit == Init => LockInv
BY DEF Init, LockInv, TimeLeft, ClaimStands, AuditingPromoted, SavedTogether,
       SavedInOrder, Owner, Active, Holding

\* Two owners would both be the one the tenant row names.
LEMMA OneOwner ==
    ASSUME ClaimStands, Undisturbed, NEW q \in Run, NEW r \in Run,
           Owner(q), Owner(r)
    PROVE  q = r
BY DEF ClaimStands

\* While a run owns the claim, the CAS of another one fails.
LEMMA ClaimBlocked ==
    ASSUME TypeOK, LockInv, Undisturbed, NEW q \in Run, Owner(q),
           NEW r \in Run, Claim(r)
    PROVE  FALSE
<1>1. claimLeft = lockLeft[q] /\ state \in {"onboarding", "revoked"}
  BY DEF LockInv, ClaimStands
<1>2. lockLeft[q] > 0
  BY DEF LockInv, TimeLeft, Undisturbed, Owner, Active, Holding
<1>3. attempt[r] \in 1 .. 4
  BY DEF TypeOK
<1>4. ExpectedFrom(attempt[r]) # "revoked"
  BY <1>3 DEF ExpectedFrom
<1>5. QED
  BY <1>1, <1>2, <1>4 DEF Claim, CanTransition, TypeOK

\* Preflight computes the lock's expiry anew; time runs out only in Tick, which
\* records who has overrun.
LEMMA TimeLeftNext ==
    ASSUME TypeOK, TimeLeft, [Next]_vars
    PROVE  TimeLeft'
<1> USE OnboardingAssumption
    DEF TypeOK, TimeLeft, Holding, tenant, saved, history
<1>1. ASSUME NEW r \in Run, Enter(r) PROVE TimeLeft'
  BY <1>1 DEF Enter, Preflight, Claim, ClaimMisses, Again
<1>2. ASSUME NEW r \in Run, Finish(r) \/ Crash(r) PROVE TimeLeft'
  <2>1. /\ lockLeft' = lockLeft /\ overran' = overran
        /\ pc[r] \in {"claiming"} \cup Holding
        /\ \A q \in Run : q # r => pc'[q] = pc[q]
    BY <1>2 DEF Finish, Handshake, Throws, SaveAtomically, PutVault,
                setProductionExpiry, Promote, WriteAudit, MarkFailed,
                MarkFailedSwallowed, Crash
  <2>2. QED
    BY <2>1
<1>3. ASSUME NEW a \in Admin, NEW force \in BOOLEAN, UnlockCheck(a, force)
      PROVE  TimeLeft'
  BY <1>3 DEF UnlockCheck
<1>4. ASSUME NEW a \in Admin, UnlockWrite(a) PROVE TimeLeft'
  BY <1>4 DEF UnlockWrite
<1>5. CASE softDelete
  BY <1>5 DEF softDelete
<1>6. CASE Tick
  <2> SUFFICES ASSUME overran' = {}, NEW r \in Run,
                      pc[r] \in {"claiming"} \cup Holding
               PROVE  lockLeft'[r] > 0
    BY <1>6 DEF Tick
  <2>1. lockLeft[r] \in Nat /\ ~(lockLeft[r] <= 1)
    BY <1>6 DEF Tick
  <2>2. lockLeft'[r] = lockLeft[r] - 1
    BY <1>6, <2>1 DEF Tick, Less
  <2>3. QED
    BY <2>1, <2>2
<1>7. CASE UNCHANGED vars
  BY <1>7 DEF vars
<1>8. QED
  BY <1>1, <1>2, <1>3, <1>4, <1>5, <1>6, <1>7 DEF Next

\* The claim of an owner stands until it promotes the tenant, gives up or
\* outlasts it, or an unlock clears it.
LEMMA ClaimStandsNext ==
    ASSUME TypeOK, LockInv, [Next]_vars
    PROVE  ClaimStands'
<1> SUFFICES ASSUME Undisturbed', NEW q \in Run, Owner(q)'
             PROVE  /\ state' \in {"onboarding", "revoked"}
                    /\ claimedBy' = q
                    /\ claimLeft' = lockLeft'[q]
  BY DEF ClaimStands
<1>1. Undisturbed
  BY DisturbanceStays
<1>2. ASSUME Owner(q), UNCHANGED <<state, claimedBy, claimLeft, lockLeft>>
      PROVE  /\ state' \in {"onboarding", "revoked"}
             /\ claimedBy' = q
             /\ claimLeft' = lockLeft'[q]
  BY <1>1, <1>2 DEF LockInv, ClaimStands
<1> USE DEF TypeOK, Owner, Active, Holding, tenant, saved, history
<1>3. ASSUME NEW r \in Run, Preflight(r) \/ ClaimMisses(r) \/ Again(r)
      PROVE  Owner(q) /\ UNCHANGED <<state, claimedBy, claimLeft>>
             /\ lockLeft'[q] = lockLeft[q]
  BY <1>3 DEF Preflight, ClaimMisses, Again
<1>4. ASSUME NEW r \in Run, Claim(r)
      PROVE  q = r /\ state' = "onboarding" /\ claimedBy' = r
             /\ claimLeft' = lockLeft'[r]
  <2>1. q # r => Owner(q)
    BY <1>4 DEF Claim
  <2>2. QED
    BY <1>1, <1>4, <2>1, ClaimBlocked DEF Claim
<1>5. ASSUME NEW r \in Run,
             \/ Handshake(r) \/ Throws(r) \/ PutVault(r) \/ setProductionExpiry(r)
             \/ WriteAudit(r) \/ MarkFailedSwallowed(r) \/ Crash(r)
      PROVE  Owner(q) /\ UNCHANGED <<state, claimedBy, claimLeft, lockLeft>>
  BY <1>5 DEF LockInv, AuditingPromoted, Handshake, Throws, PutVault,
              setProductionExpiry, WriteAudit, MarkFailedSwallowed, Crash
<1>6. ASSUME NEW r \in Run, NEW ack \in BOOLEAN,
             SaveAtomically(r, ack) \/ Promote(r)
      PROVE  FALSE
  <2>1. q # r /\ Owner(q) /\ Owner(r)
    BY <1>6 DEF SaveAtomically, Promote
  <2>2. QED
    BY <1>1, <2>1, OneOwner DEF LockInv
<1>7. ASSUME NEW r \in Run, MarkFailed(r) PROVE FALSE
  <2>1. q # r /\ Owner(q)
    BY <1>7 DEF MarkFailed
  <2>2. r \notin promoted
    BY <1>7 DEF MarkFailed, Undisturbed, LateFailure
  <2>3. Owner(r)
    BY <1>7, <2>2 DEF MarkFailed
  <2>4. QED
    BY <1>1, <2>1, <2>3, OneOwner DEF LockInv
<1>8. ASSUME NEW a \in Admin, NEW force \in BOOLEAN, UnlockCheck(a, force)
      PROVE  Owner(q) /\ UNCHANGED <<state, claimedBy, claimLeft, lockLeft>>
  BY <1>8 DEF UnlockCheck
<1>9. ASSUME NEW a \in Admin, UnlockWrite(a) PROVE FALSE
  BY <1>9 DEF UnlockWrite, Undisturbed
<1>10. CASE softDelete
  <2>1. Owner(q) /\ UNCHANGED <<claimedBy, claimLeft, lockLeft>>
        /\ state' = "revoked"
    BY <1>10 DEF softDelete
  <2>2. QED
    BY <1>1, <2>1 DEF LockInv, ClaimStands
<1>11. CASE Tick
  <2>1. Owner(q) /\ UNCHANGED <<state, claimedBy>>
        /\ claimLeft' = Less(claimLeft) /\ lockLeft'[q] = Less(lockLeft[q])
    BY <1>11 DEF Tick
  <2>2. QED
    BY <1>1, <2>1 DEF LockInv, ClaimStands
<1>12. CASE UNCHANGED vars
  BY <1>2, <1>12 DEF vars
<1>13. ASSUME NEW r \in Run, Preflight(r) \/ ClaimMisses(r) \/ Again(r)
       PROVE  /\ state' \in {"onboarding", "revoked"}
              /\ claimedBy' = q
              /\ claimLeft' = lockLeft'[q]
  BY <1>1, <1>3, <1>13 DEF LockInv, ClaimStands
<1>14. QED
  BY <1>2, <1>4, <1>5, <1>6, <1>7, <1>8, <1>9, <1>10, <1>11, <1>12, <1>13
     DEF Next, Enter, Finish

\* Promote is the only way to the audit row of a pass-through.
LEMMA AuditingNext ==
    ASSUME TypeOK, AuditingPromoted, [Next]_vars
    PROVE  AuditingPromoted'
<1> USE DEF TypeOK, AuditingPromoted, Holding, tenant, saved, history
<1>1. ASSUME NEW r \in Run, Enter(r) \/ Crash(r) PROVE AuditingPromoted'
  BY <1>1 DEF Enter, Preflight, Claim, ClaimMisses, Again, Crash
<1>2. ASSUME NEW r \in Run, Finish(r) PROVE AuditingPromoted'
  <2>1. /\ promoted \subseteq promoted'
        /\ pc'[r] = "auditing" => r \in promoted'
        /\ \A q \in Run : q # r => pc'[q] = pc[q]
    BY <1>2 DEF Finish, Handshake, Throws, SaveAtomically, PutVault,
                setProductionExpiry, Promote, WriteAudit, MarkFailed,
                MarkFailedSwallowed
  <2>2. QED
    BY <2>1
<1>3. ASSUME NEW a \in Admin, NEW force \in BOOLEAN, UnlockCheck(a, force)
      PROVE  AuditingPromoted'
  BY <1>3 DEF UnlockCheck
<1>4. ASSUME NEW a \in Admin, UnlockWrite(a) PROVE AuditingPromoted'
  BY <1>4 DEF UnlockWrite
<1>5. CASE softDelete \/ Tick
  BY <1>5 DEF softDelete, Tick
<1>6. CASE UNCHANGED vars
  BY <1>6 DEF vars
<1>7. QED
  BY <1>1, <1>2, <1>3, <1>4, <1>5, <1>6 DEF Next

\* A transactional unit of work writes the material, its expiry, the state and
\* the audit row in one step, and no other step writes the material.
LEMMA TogetherNext ==
    ASSUME TypeOK, SavedTogether, [Next]_vars
    PROVE  SavedTogether'
<1> SUFFICES ASSUME transactional'
             PROVE  /\ \A r \in Run :
                         pc'[r] \notin {"expiring", "promoting", "auditing"}
                    /\ expiry' = vault'
                    /\ state' = "production-ready" => vault' # NoRun
                    /\ vault' # NoRun => vault' \in audited'
  BY DEF SavedTogether
<1>1. transactional
  BY DEF Next, vars
<1>2. /\ \A r \in Run : pc[r] \notin {"expiring", "promoting", "auditing"}
      /\ expiry = vault
      /\ state = "production-ready" => vault # NoRun
      /\ vault # NoRun => vault \in audited
  BY <1>1 DEF SavedTogether
<1> DEFINE Quiet ==
      /\ UNCHANGED <<vault, expiry, audited>>
      /\ state' # "production-ready" \/ state' = state
      /\ \A q \in Run : pc'[q] \notin {"expiring", "promoting", "auditing"}
<1>3. ASSUME Quiet
      PROVE  /\ \A r \in Run : pc'[r] \notin {"expiring", "promoting", "auditing"}
             /\ expiry' = vault'
             /\ state' = "production-ready" => vault' # NoRun
             /\ vault' # NoRun => vault' \in audited'
  BY <1>2, <1>3
<1> USE DEF TypeOK, Holding, tenant, saved, history, setState
<1>4. ASSUME NEW r \in Run, Enter(r) \/ Crash(r) PROVE Quiet
  BY <1>2, <1>4 DEF Enter, Preflight, Claim, ClaimMisses, Again, Crash
<1>5. ASSUME NEW r \in Run,
             \/ Handshake(r) \/ Throws(r) \/ MarkFailed(r)
             \/ MarkFailedSwallowed(r)
      PROVE  Quiet
  BY <1>2, <1>5 DEF Handshake, Throws, MarkFailed, MarkFailedSwallowed
<1>6. ASSUME NEW r \in Run,
             \/ PutVault(r) \/ setProductionExpiry(r) \/ Promote(r)
             \/ WriteAudit(r)
      PROVE  FALSE
  BY <1>1, <1>2, <1>6 DEF PutVault, setProductionExpiry, Promote, WriteAudit
<1>7. ASSUME NEW r \in Run, NEW ack \in BOOLEAN, SaveAtomically(r, ack)
      PROVE  /\ \A q \in Run : pc'[q] \notin {"expiring", "promoting", "auditing"}
             /\ expiry' = r /\ vault' = r /\ r # NoRun /\ r \in audited'
  BY <1>2, <1>7, OnboardingAssumption DEF SaveAtomically
<1>8. ASSUME NEW a \in Admin, NEW force \in BOOLEAN, UnlockCheck(a, force)
      PROVE  Quiet
  BY <1>2, <1>8 DEF UnlockCheck
<1>9. ASSUME NEW a \in Admin, UnlockWrite(a) PROVE Quiet
  BY <1>2, <1>9 DEF UnlockWrite
<1>10. CASE softDelete \/ Tick
  <2>1. Quiet
    BY <1>2, <1>10 DEF softDelete, Tick
  <2>2. QED
    BY <1>3, <2>1
<1>11. CASE UNCHANGED vars
  <2>1. Quiet
    BY <1>2, <1>11 DEF vars
  <2>2. QED
    BY <1>3, <2>1
<1> HIDE DEF Quiet
<1>12. QED
  BY <1>3, <1>4, <1>5, <1>6, <1>7, <1>8, <1>9, <1>10, <1>11
     DEF Next, Finish

\* In a pass-through the writes of the one owner follow each other; nobody else
\* writes between them, and while the tenant is ready for production there is
\* no owner.
LEMMA InOrderNext ==
    ASSUME TypeOK, LockInv, [Next]_vars
    PROVE  SavedInOrder'
<1> SUFFICES ASSUME Undisturbed'
             PROVE  /\ \A r \in Run : pc'[r] \in {"expiring", "promoting"}
                                        => vault' = r
                    /\ \A r \in Run : pc'[r] = "promoting" => expiry' = r
                    /\ state' = "production-ready" =>
                         vault' # NoRun /\ expiry' = vault'
  BY DEF SavedInOrder
<1>1. Undisturbed
  BY DisturbanceStays
<1>2. /\ \A r \in Run : pc[r] \in {"expiring", "promoting"} => vault = r
      /\ \A r \in Run : pc[r] = "promoting" => expiry = r
      /\ state = "production-ready" => vault # NoRun /\ expiry = vault
  BY <1>1 DEF LockInv, SavedInOrder
<1>3. \A r \in Run : pc[r] \in Active =>
        /\ state # "production-ready"
        /\ \A q \in Run : pc[q] \in Active => q = r
  BY <1>1, OneOwner DEF LockInv, ClaimStands, Owner
<1> DEFINE Quiet ==
      /\ UNCHANGED <<vault, expiry>>
      /\ state' # "production-ready" \/ state' = state
      /\ \A q \in Run : /\ pc'[q] = "promoting" => pc[q] = "promoting"
                        /\ pc'[q] = "expiring" => pc[q] = "expiring"
    Goal ==
      /\ \A r \in Run : pc'[r] \in {"expiring", "promoting"} => vault' = r
      /\ \A r \in Run : pc'[r] = "promoting" => expiry' = r
      /\ state' = "production-ready" => vault' # NoRun /\ expiry' = vault'
<1>4. ASSUME Quiet PROVE Goal
  BY <1>2, <1>4
<1> USE DEF TypeOK, Holding, Active, tenant, saved, history, setState
<1>5. ASSUME NEW r \in Run, Enter(r) \/ Crash(r) PROVE Quiet
  BY <1>5 DEF Enter, Preflight, Claim, ClaimMisses, Again, Crash
<1>6. ASSUME NEW r \in Run,
             \/ Handshake(r) \/ Throws(r) \/ MarkFailed(r)
             \/ MarkFailedSwallowed(r) \/ WriteAudit(r)
      PROVE  Quiet
  BY <1>6 DEF Handshake, Throws, MarkFailed, MarkFailedSwallowed, WriteAudit
<1>7. ASSUME NEW r \in Run, NEW ack \in BOOLEAN, SaveAtomically(r, ack)
      PROVE  Goal
  <2>1. pc[r] = "saving" /\ vault' = r /\ expiry' = r
        /\ \A q \in Run : q # r => pc'[q] = pc[q]
    BY <1>7 DEF SaveAtomically
  <2>2. pc'[r] \notin {"expiring", "promoting"}
    BY <1>7 DEF SaveAtomically
  <2>3. \A q \in Run : pc'[q] \notin {"expiring", "promoting"}
    BY <1>3, <2>1, <2>2
  <2>4. QED
    BY <2>1, <2>3, OnboardingAssumption
<1>8. ASSUME NEW r \in Run, PutVault(r) PROVE Goal
  <2>1. pc[r] = "saving" /\ pc'[r] = "expiring" /\ vault' = r /\ state' = state
        /\ \A q \in Run : q # r => pc'[q] = pc[q]
    BY <1>8 DEF PutVault
  <2>2. QED
    BY <1>3, <2>1
<1>9. ASSUME NEW r \in Run, setProductionExpiry(r) PROVE Goal
  <2>1. pc[r] = "expiring" /\ pc'[r] = "promoting" /\ expiry' = r
        /\ vault' = vault /\ state' = state
        /\ \A q \in Run : q # r => pc'[q] = pc[q]
    BY <1>9 DEF setProductionExpiry
  <2>2. QED
    BY <1>2, <1>3, <2>1
<1>10. ASSUME NEW r \in Run, Promote(r) PROVE Goal
  <2>1. pc[r] = "promoting" /\ pc'[r] = "auditing" /\ expiry' = expiry
        /\ vault' = vault
        /\ \A q \in Run : q # r => pc'[q] = pc[q]
    BY <1>10 DEF Promote
  <2>2. QED
    BY <1>2, <1>3, <2>1, OnboardingAssumption
<1>11. ASSUME NEW a \in Admin, NEW force \in BOOLEAN, UnlockCheck(a, force)
       PROVE  Quiet
  BY <1>11 DEF UnlockCheck
<1>12. ASSUME NEW a \in Admin, UnlockWrite(a) PROVE Quiet
  BY <1>12 DEF UnlockWrite
<1>13. CASE softDelete \/ Tick \/ UNCHANGED vars
  <2>1. Quiet
    BY <1>13 DEF softDelete, Tick, vars
  <2>2. QED
    BY <1>4, <2>1
<1> HIDE DEF Quiet, Goal
<1>14. Goal
  BY <1>4, <1>5, <1>6, <1>7, <1>8, <1>9, <1>10, <1>11, <1>12, <1>13
     DEF Next, Finish, Goal
<1>15. QED
  BY <1>14 DEF Goal

\* The lock invariant is inductive.
LEMMA LockNext == TypeOK /\ LockInv /\ [Next]_vars => LockInv'
<1> SUFFICES ASSUME TypeOK, LockInv, [Next]_vars PROVE LockInv'
  OBVIOUS
<1>1. TimeLeft' /\ AuditingPromoted' /\ SavedTogether'
  BY TimeLeftNext, AuditingNext, TogetherNext DEF LockInv
<1>2. ClaimStands' /\ SavedInOrder'
  BY ClaimStandsNext, InOrderNext
<1>3. QED
  BY <1>1, <1>2 DEF LockInv

\* The lock invariant holds in every behaviour.
LEMMA LockCorrect == Spec => []LockInv
BY TypeCorrect, LockInit, LockNext, PTL DEF Spec

-----------------------------------------------------------------------------
(* The theorems. *)

\* Two runs of runOnboarding are past the tenant lock at the same time only
\* after one of them outlasted its claim, one failed after its promotion, or an
\* admin unlocked the tenant: the CAS of setState lets nobody else in.
THEOREM LockHolds == Spec => []LockExclusive
<1>1. LockInv => LockExclusive
  <2> SUFFICES ASSUME LockInv, Undisturbed, NEW q \in Run, NEW r \in Run,
                      pc[q] \in Active, pc[r] \in Active
               PROVE  q = r
    BY DEF LockExclusive, Active
  <2>1. QED
    BY OneOwner DEF LockInv, Owner
<1>2. QED
  BY <1>1, LockCorrect, PTL

\* A tenant ready for production signs with the material whose expiry its row
\* shows, and a transaction leaves no material without its audit row, even when
\* the answer to COMMIT is lost.
THEOREM CredentialsAlwaysMatch == Spec => []CredentialsMatch
<1>1. TypeOK /\ LockInv => CredentialsMatch
  BY OnboardingAssumption
     DEF TypeOK, LockInv, SavedTogether, SavedInOrder, CredentialsMatch
<1>2. QED
  BY <1>1, LockCorrect, TypeCorrect, PTL

\* Whatever is still running when a tenant is deleted, no step brings the tenant
\* back, and with transactions none replaces its key material.
THEOREM DeletionFreezes == Spec => DeletedFrozen
<1>1. TypeOK /\ SavedTogether /\ [Next]_vars
        => [Deleted => state' = state /\ (transactional => vault' = vault)]_vars
  <2> SUFFICES ASSUME TypeOK, SavedTogether, [Next]_vars, state = "revoked"
               PROVE  state' = state /\ (transactional => vault' = vault)
    BY DEF Deleted
  <2> USE DEF TypeOK, Deleted, tenant, saved, history, setState
  <2>1. ASSUME NEW r \in Run, Claim(r) PROVE FALSE
    <3>1. ExpectedFrom(attempt[r]) # "revoked"
      BY DEF ExpectedFrom
    <3>2. QED
      BY <2>1, <3>1 DEF Claim, CanTransition
  <2>2. ASSUME NEW r \in Run,
               Preflight(r) \/ ClaimMisses(r) \/ Again(r) \/ Crash(r)
        PROVE  state' = state /\ vault' = vault
    BY <2>2 DEF Preflight, ClaimMisses, Again, Crash
  <2>3. ASSUME NEW r \in Run, Finish(r)
        PROVE  state' = state /\ (transactional => vault' = vault)
    BY <2>3 DEF Finish, Handshake, Throws, SaveAtomically, PutVault,
                setProductionExpiry, Promote, WriteAudit, MarkFailed,
                MarkFailedSwallowed
  <2>4. ASSUME NEW a \in Admin, NEW force \in BOOLEAN, UnlockCheck(a, force)
        PROVE  state' = state /\ vault' = vault
    BY <2>4 DEF UnlockCheck
  <2>5. ASSUME NEW a \in Admin, UnlockWrite(a)
        PROVE  state' = state /\ vault' = vault
    BY <2>5 DEF UnlockWrite
  <2>6. CASE softDelete \/ Tick \/ UNCHANGED vars
    BY <2>6 DEF softDelete, Tick, vars
  <2>7. QED
    BY <2>1, <2>2, <2>3, <2>4, <2>5, <2>6 DEF Next, Enter
<1>2. LockInv => SavedTogether
  BY DEF LockInv
<1>3. QED
  BY <1>1, <1>2, TypeCorrect, LockCorrect, PTL DEF Spec, DeletedFrozen

=============================================================================
