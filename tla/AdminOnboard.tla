---------------------------- MODULE AdminOnboard ----------------------------
(***************************************************************************)
(* POST /onboard and POST /credentials/rotate of one server process: the   *)
(* cap on concurrent handshakes, the idempotency slot, and runOnboarding   *)
(* in the order in which the handlers take and give them back.  The lock   *)
(* that runOnboarding takes is a claim here; its expiry, /unlock and the   *)
(* unit of work are in Onboarding, the handshake in CoreOnboard.           *)
(***************************************************************************)
EXTENDS TenantAdmin

CONSTANT Keys         \* Idempotency-Key headers

\* createSemaphore refuses any other capacity.
ASSUME CapacityAssumption == \A d \in Deployments : d.capacity \in Nat \ {0}

VARIABLES count,      \* the semaphore's count
          held,       \* requests whose release function was not called yet
          idem,       \* idempotency slot -> entry of the store
          claimed,    \* tenants claimed by a run
          burnt,      \* history: requests that spent their OTP
          lapsed,     \* history: slots whose window has passed
          onboarded   \* tenants that are production-ready, with material

onboardVars == <<count, held, idem, claimed, burnt, lapsed, onboarded>>

OnboardKinds == {"onboard", "rotate"}

NoEntry == [status |-> "none", by |-> None]

\* buildIdempotencyCacheKey: tenant, route and key.
Slot(p) == <<op[p].ref, op[p].kind, op[p].key>>
Slots   == Refs \X OnboardKinds \X Keys

\* tryAcquire and the release function it returns, which works once.
tryAcquire(p) == count < deployment.capacity /\ count' = count + 1 /\ held' = held \cup {p}

release(p) ==
    /\ count' = IF p \in held THEN count - 1 ELSE count
    /\ held' = held \ {p}

OnboardRequests(label) ==
    [kind : OnboardKinds, ref : Refs, key : Keys \cup {None}, label : {label}]

\* The semaphore is tried before anything else; at the cap the answer is 503,
\* to a retry of a finished request too.
OnboardRequest(p) ==
    /\ \/ /\ tryAcquire(p)
          /\ \E header \in Presented :
             \E request \in OnboardRequests(verifyHeader(header)) :
                Begin(p, request, "opening")
       \/ /\ count = deployment.capacity
          /\ Begin(p, op[p], "failed")
          /\ UNCHANGED <<count, held>>
    /\ UNCHANGED <<barred, idem, claimed, burnt, lapsed, onboarded>>

Step(p, place) == GoTo(p, place) /\ Rest /\ UNCHANGED <<db, buf, locks>>

\* The finally block runs on every way out.
Leave(p, place) == Step(p, place) /\ release(p)

\* Faulty variant: a slot in flight is taken over.
beginIdempotency_Takes(p) ==
    /\ idem[Slot(p)].status # "committed"
    /\ idem' = [idem EXCEPT ![Slot(p)] = [status |-> "in-flight", by |-> p]]
    /\ Step(p, "loading tenant") /\ UNCHANGED <<count, held>>

\* A free slot is claimed; one in flight is answered with 409, a committed one
\* with the stored response.
beginIdempotency(p) ==
    \/ /\ idem[Slot(p)].status = "none"
       /\ idem' = [idem EXCEPT ![Slot(p)] = [status |-> "in-flight", by |-> p]]
       /\ Step(p, "loading tenant") /\ UNCHANGED <<count, held>>
    \/ /\ idem[Slot(p)].status = "in-flight"
       /\ Leave(p, "failed") /\ UNCHANGED idem
    \/ /\ idem[Slot(p)].status = "committed"
       /\ Leave(p, "done") /\ UNCHANGED idem

Open(p) ==
    /\ pc[p] = "opening"
    /\ \/ op[p].label = None /\ Leave(p, "failed") /\ UNCHANGED idem
       \/ /\ op[p].label # None /\ op[p].key = None
          /\ Step(p, "loading tenant") /\ UNCHANGED <<count, held, idem>>
       \/ op[p].label # None /\ op[p].key # None /\ beginIdempotency(p)
    /\ UNCHANGED <<claimed, burnt, lapsed, onboarded>>

\* The tenant exists, and runOnboarding gets the claim and spends the OTP.
getTenant(p) ==
    /\ pc[p] = "loading tenant"
    /\ IF IsLive(op[p].ref) /\ op[p].ref \notin claimed
       THEN /\ Step(p, "handshaking")
            /\ claimed' = claimed \cup {op[p].ref}
            /\ burnt' = burnt \cup {p}
       ELSE Step(p, "releasing") /\ UNCHANGED <<claimed, burnt>>
    /\ UNCHANGED <<count, held, idem, lapsed, onboarded>>

\* The unit of work at the end of runOnboarding (one step here: it writes rows
\* of the tenant that no other route writes).
Persist(p) ==
    /\ pc[p] = "handshaking"
    /\ IsLive(op[p].ref) /\ Free(p, {op[p].ref})
    /\ db' = Union(db, [Nothing EXCEPT !.audit =
                          {<<op[p].kind, op[p].ref, op[p].label, p>>}])
    /\ onboarded' = onboarded \cup {op[p].ref}
    /\ claimed' = claimed \ {op[p].ref}
    /\ GoTo(p, "storing") /\ Rest
    /\ UNCHANGED <<buf, locks, count, held, idem, burnt, lapsed>>

\* runOnboarding throws, because the handshake or the save fails.
RunThrows(p) ==
    /\ pc[p] = "handshaking"
    /\ claimed' = claimed \ {op[p].ref}
    /\ Step(p, "releasing")
    /\ UNCHANGED <<count, held, idem, burnt, lapsed, onboarded>>

\* commitIdempotency, which throws if the entry is gone.
commitIdempotency(p) ==
    /\ pc[p] = "storing"
    /\ IF op[p].key = None THEN Leave(p, "done") /\ UNCHANGED idem
       ELSE IF idem[Slot(p)].status = "none"
            THEN Step(p, "releasing") /\ UNCHANGED <<count, held, idem>>
            ELSE /\ idem' = [idem EXCEPT ![Slot(p)] =
                               [status |-> "committed", by |-> p]]
                 /\ Leave(p, "done")
    /\ UNCHANGED <<claimed, burnt, lapsed, onboarded>>

\* Faulty variant: the error path keeps the semaphore.
releaseIdempotency_KeepsSlot(p) ==
    /\ pc[p] = "releasing"
    /\ idem' = IF op[p].key = None THEN idem
               ELSE [idem EXCEPT ![Slot(p)] = NoEntry]
    /\ Step(p, "failed")
    /\ UNCHANGED <<count, held, claimed, burnt, lapsed, onboarded>>

\* The catch block: the slot is deleted, whoever has it by now.
releaseIdempotency(p) ==
    /\ pc[p] = "releasing"
    /\ idem' = IF op[p].key = None THEN idem
               ELSE [idem EXCEPT ![Slot(p)] = NoEntry]
    /\ Leave(p, "failed")
    /\ UNCHANGED <<claimed, burnt, lapsed, onboarded>>

\* The window of a slot passes, once (a bound).
Lapse ==
    \E s \in Slots \ lapsed :
       /\ idem[s].status # "none"
       /\ idem' = [idem EXCEPT ![s] = NoEntry]
       /\ lapsed' = lapsed \cup {s}
       /\ UNCHANGED <<adminVars, count, held, claimed, burnt, onboarded>>

OnboardStep(p) ==
    \/ Open(p) \/ getTenant(p) \/ Persist(p) \/ RunThrows(p)
    \/ commitIdempotency(p) \/ releaseIdempotency(p)

OnboardInit ==
    /\ count = 0
    /\ held = {}
    /\ idem = [s \in Slots |-> NoEntry]
    /\ claimed = {}
    /\ burnt = {}
    /\ lapsed = {}
    /\ onboarded = db.created

-----------------------------------------------------------------------------
(***************************************************************************)
(* Properties.                                                             *)
(***************************************************************************)

\* The cap counts the handlers that run, no more and no fewer, whichever way
\* the others left: it is never exceeded, and no slot is lost or freed twice.
CapExact ==
    /\ count = Cardinality({p \in Process :
                              Running(p) /\ op[p].kind \in OnboardKinds})
    /\ count <= deployment.capacity

\* Two requests with one Idempotency-Key on one route spend an OTP each only if
\* the first of them failed or the window of the key has passed.
OtpOncePerKey ==
    \A p, q \in burnt :
        /\ p # q /\ op[p].key # None /\ Slot(p) = Slot(q)
        => \/ Slot(p) \in lapsed
           \/ \E r \in {p, q} : pc[r] = "failed"
=============================================================================
