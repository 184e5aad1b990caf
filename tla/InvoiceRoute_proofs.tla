------------------------ MODULE InvoiceRoute_proofs -------------------------
(***************************************************************************)
(* The safety properties of InvoiceRoute, for any requests, keys, window   *)
(* and bounds.  InFlightOwned and ReplayFaithful hold however long the     *)
(* work takes; ExclusiveExecution and DuplicateExplained need work that is *)
(* shorter than the window (WorkFits).                                     *)
(***************************************************************************)
EXTENDS InvoiceRoute, TLAPS

-----------------------------------------------------------------------------
(* The inductive invariants. *)

\* Where a handler has a stored record, and where it has its audit row too.
Stored  == {"submitting", "updating", "auditing", "committing", "ok"}
Logged  == {"committing", "ok"}

\* The handler's effects come before the places that follow them.
EffectsInOrder ==
    \A r \in Request :
        /\ pc[r] \in Stored => record[r] # "none"
        /\ pc[r] \in Logged => r \in audited

\* A committed entry caches the answer of a request that has this key and
\* returned it, and expires one window after it was committed.
CommittedIsAnswer ==
    \A k \in Key : slot[k] = "committed" =>
        /\ response[k] \in Request
        /\ body[response[k]].key = k
        /\ pc[response[k]] = "ok"
        /\ committedAt[response[k]] <= now
        /\ expiresAt[k] = committedAt[response[k]] + TTL

SlotInv == InFlightOwned /\ EffectsInOrder /\ CommittedIsAnswer /\ ReplayFaithful

\* The work of a request is shorter than the idempotency window.
WorkFits == MaxWork < TTL

\* A running handler holds its own claim, and has not outlasted its bound.
ClaimHeld ==
    \A r \in Request : pc[r] \in Executing =>
        /\ began[r] <= now
        /\ now <= began[r] + MaxWork
        /\ body[r].key # NoKey => /\ slot[body[r].key] = "in-flight"
                                  /\ expiresAt[body[r].key] = began[r] + TTL

\* The answer of a request is cached for its window.
AnswerKept ==
    \A q \in Request : pc[q] = "ok" /\ body[q].key # NoKey =>
        \/ now >= committedAt[q] + TTL
        \/ /\ slot[body[q].key] = "committed"
           /\ expiresAt[body[q].key] >= committedAt[q] + TTL

\* Of two executions under one key, one began after the window of the other's
\* answer was over.
ExecutionsApart ==
    \A q, r \in Request :
        SameKey(q, r) /\ q # r /\ pc[q] = "ok" /\ pc[r] \in Executing \cup {"ok"}
        => \/ began[r] >= committedAt[q] + TTL
           \/ pc[r] = "ok" /\ began[q] >= committedAt[r] + TTL

\* A handler that has not issued, or was turned away, has stored nothing.
NothingStored ==
    \A r \in Request :
        pc[r] \in {"idle", "issuing", "replayed", "busy"} => record[r] = "none"

WindowInv ==
    /\ ExclusiveExecution
    /\ ClaimHeld
    /\ AnswerKept
    /\ ExecutionsApart
    /\ NothingStored

-----------------------------------------------------------------------------
(* The type invariant. *)

\* The initial states are well typed.
LEMMA TypeInit == Init => TypeOK
BY RouteAssumption DEF Init, TypeOK, Executing, Ended

\* Every step of a handler, and the clock, keep the state well typed.
LEMMA TypeNext == TypeOK /\ [Next]_vars => TypeOK'
<1> SUFFICES ASSUME TypeOK, [Next]_vars PROVE TypeOK'
  OBVIOUS
<1> USE RouteAssumption DEF TypeOK, entries, effects, Executing, Ended, GoTo
<1>1. ASSUME NEW r \in Request, Arrive(r) PROVE TypeOK'
  <2>1. CASE Refuse(r)
    BY <2>1 DEF Refuse
  <2>2. CASE ProceedUnkeyed(r)
    BY <2>2 DEF ProceedUnkeyed, Entered
  <2>3. CASE Claim(r)
    <3>1. now + TTL \in Nat
      OBVIOUS
    <3>2. expiresAt' \in [Key -> Nat]
      BY <2>3, <3>1 DEF Claim
    <3>3. response' \in [Key -> Request \cup {NoRequest}]
      BY <2>3 DEF Claim
    <3>4. QED
      BY <2>3, <3>2, <3>3 DEF Claim, Entered
  <2>4. CASE Busy(r)
    BY <2>4 DEF Busy
  <2>5. CASE Replay(r)
    <3>1. body[r].key \in Key
      BY <2>5 DEF Replay, Body
    <3>2. QED
      BY <2>5, <3>1 DEF Replay
  <2>6. QED
    BY <1>1, <2>1, <2>2, <2>3, <2>4, <2>5 DEF Arrive
<1>2. ASSUME NEW r \in Request, Work(r) PROVE TypeOK'
  <2>1. CASE Issue(r)
    BY <2>1 DEF Issue
  <2>2. ASSUME NEW stored \in {"none", "pending"}, IssueThrows(r, stored)
        PROVE  TypeOK'
    BY <2>2 DEF IssueThrows
  <2>3. ASSUME NEW decision \in {"none", "accepted", "refused"},
               NEW st \in {"accepted", "rejected"}, Submit(r, decision, st)
        PROVE  TypeOK'
    BY <2>3 DEF Submit
  <2>4. CASE SubmitThrows(r)
    BY <2>4 DEF SubmitThrows
  <2>5. CASE UpdateStatus(r)
    BY <2>5 DEF UpdateStatus
  <2>6. CASE Audit(r)
    BY <2>6 DEF Audit
  <2>7. CASE AuditThrows(r)
    BY <2>7 DEF AuditThrows
  <2>8. CASE CommitUnkeyed(r)
    BY <2>8 DEF CommitUnkeyed
  <2>9. CASE Commit(r)
    <3>1. now + TTL \in Nat
      OBVIOUS
    <3>2. expiresAt' \in [Key -> Nat] /\ committedAt' \in [Request -> 0 .. MaxTime]
      BY <2>9, <3>1 DEF Commit
    <3>3. response' \in [Key -> Request \cup {NoRequest}]
      BY <2>9 DEF Commit
    <3>4. QED
      BY <2>9, <3>2, <3>3 DEF Commit
  <2>10. CASE CommitThrows(r)
    BY <2>10 DEF CommitThrows
  <2>11. CASE Release(r)
    BY <2>11 DEF Release
  <2>12. QED
    BY <1>2, <2>1, <2>2, <2>3, <2>4, <2>5, <2>6, <2>7, <2>8, <2>9, <2>10,
       <2>11 DEF Work
<1>3. CASE Tick
  BY <1>3 DEF Tick
<1>4. CASE UNCHANGED vars
  BY <1>4 DEF vars
<1>5. QED
  BY <1>1, <1>2, <1>3, <1>4 DEF Next

\* The idempotency entries and the locals of the POST /invoices handler keep
\* their types in every behaviour.
THEOREM TypeCorrect == Spec => []TypeOK
BY TypeInit, TypeNext, PTL DEF Spec

-----------------------------------------------------------------------------
(* What the steps between the claim and the answer have in common. *)

\* A step of r's work that leaves the idempotency entries alone and keeps the
\* handler running.
Inner(r) ==
    /\ pc[r] \in Executing
    /\ \E p \in Executing \ {"issuing"} : pc' = [pc EXCEPT ![r] = p]
    /\ UNCHANGED <<now, body, entries, began, answer, committedAt>>
    /\ \A q \in Request : q # r => record'[q] = record[q]
    /\ audited \subseteq audited'
    /\ pc'[r] \in Stored => record'[r] # "none"
    /\ pc'[r] \in Logged => r \in audited'

\* The work of a request is such steps, and then its answer.
LEMMA WorkSplits ==
    ASSUME TypeOK, EffectsInOrder, NEW r \in Request, Work(r)
    PROVE  Inner(r) \/ CommitUnkeyed(r) \/ Commit(r) \/ Release(r)
<1> USE DEF TypeOK, EffectsInOrder, Inner, Executing, Stored, Logged, GoTo
<1>1. CASE Issue(r)
  <2>1. PICK p \in {"submitting", "auditing"} : pc' = [pc EXCEPT ![r] = p]
    BY <1>1 DEF Issue
  <2>2. QED
    BY <1>1, <2>1 DEF Issue, entries
<1>2. ASSUME NEW stored \in {"none", "pending"}, IssueThrows(r, stored)
      PROVE  Inner(r)
  BY <1>2 DEF IssueThrows, entries
<1>3. ASSUME NEW decision \in {"none", "accepted", "refused"},
             NEW st \in {"accepted", "rejected"}, Submit(r, decision, st)
      PROVE  Inner(r)
  BY <1>3 DEF Submit, entries
<1>4. CASE SubmitThrows(r)
  BY <1>4 DEF SubmitThrows, entries, effects
<1>5. CASE UpdateStatus(r)
  <2>1. \A q \in Request : RecordId(q) # StatusId(r)
    BY DEF RecordId, StatusId
  <2>2. record' = record /\ GoTo(r, "releasing")
    BY <1>5, <2>1 DEF UpdateStatus
  <2>3. QED
    BY <1>5, <2>2 DEF UpdateStatus, entries
<1>6. CASE Audit(r)
  BY <1>6 DEF Audit, entries
<1>7. CASE AuditThrows(r)
  BY <1>7 DEF AuditThrows, entries, effects
<1>8. CASE CommitThrows(r)
  BY <1>8 DEF CommitThrows, entries, effects
<1>9. QED
  BY <1>1, <1>2, <1>3, <1>4, <1>5, <1>6, <1>7, <1>8 DEF Work

-----------------------------------------------------------------------------
(* InFlightOwned and ReplayFaithful. *)

\* Before any request there is no entry.
LEMMA SlotInit == Init => SlotInv
BY DEF Init, SlotInv, InFlightOwned, EffectsInOrder, CommittedIsAnswer,
       ReplayFaithful, Stored, Logged

\* The key of a request that sends one.
LEMMA KeyType ==
    ASSUME TypeOK, NEW r \in Request, body[r].key # NoKey
    PROVE  body[r].key \in Key
BY DEF TypeOK, Body

\* Effects only grow, and a handler passes them in order.
LEMMA EffectsNext ==
    ASSUME TypeOK, EffectsInOrder, [Next]_vars
    PROVE  EffectsInOrder'
<1> USE DEF TypeOK, EffectsInOrder, Stored, Logged, Executing, entries, effects,
            GoTo
<1>1. ASSUME NEW r \in Request, Arrive(r) PROVE EffectsInOrder'
  BY <1>1 DEF Arrive, Refuse, ProceedUnkeyed, Claim, Busy, Replay, Entered
<1>2. ASSUME NEW r \in Request, Inner(r) PROVE EffectsInOrder'
  BY <1>2 DEF Inner
<1>3. ASSUME NEW r \in Request, CommitUnkeyed(r) \/ Commit(r) \/ Release(r)
      PROVE  EffectsInOrder'
  BY <1>3 DEF CommitUnkeyed, Commit, Release
<1>4. CASE Tick
  BY <1>4 DEF Tick
<1>5. CASE UNCHANGED vars
  BY <1>5 DEF vars
<1>6. QED
  BY <1>1, <1>2, <1>3, <1>4, <1>5, WorkSplits DEF Next

\* Whoever leaves the running state has committed or released its slot, its
\* own or not.
LEMMA InFlightNext ==
    ASSUME TypeOK, EffectsInOrder, InFlightOwned, [Next]_vars
    PROVE  InFlightOwned'
<1> SUFFICES ASSUME NEW k \in Key, slot'[k] = "in-flight"
             PROVE  \E q \in Request : pc'[q] \in Executing /\ body'[q].key = k
  BY DEF InFlightOwned
<1> USE DEF TypeOK, InFlightOwned, Executing, entries, GoTo
<1>1. ASSUME NEW r \in Request,
             Refuse(r) \/ ProceedUnkeyed(r) \/ Busy(r) \/ Replay(r)
      PROVE  \E q \in Request : pc'[q] \in Executing /\ body'[q].key = k
  BY <1>1 DEF Refuse, ProceedUnkeyed, Busy, Replay
<1>2. ASSUME NEW r \in Request, Claim(r)
      PROVE  \E q \in Request : pc'[q] \in Executing /\ body'[q].key = k
  <2>1. pc'[r] \in Executing /\ body' = body
    BY <1>2 DEF Claim, Entered
  <2>2. CASE body[r].key = k
    BY <2>1, <2>2
  <2>3. CASE body[r].key # k
    BY <1>2, <2>3 DEF Claim
  <2>4. QED
    BY <2>2, <2>3
<1>3. ASSUME NEW r \in Request, Inner(r)
      PROVE  \E q \in Request : pc'[q] \in Executing /\ body'[q].key = k
  BY <1>3 DEF Inner
<1>4. ASSUME NEW r \in Request, CommitUnkeyed(r) \/ Commit(r) \/ Release(r)
      PROVE  \E q \in Request : pc'[q] \in Executing /\ body'[q].key = k
  <2>1. body[r].key # k /\ slot[k] = "in-flight" /\ body' = body
    BY <1>4, RouteAssumption DEF CommitUnkeyed, Commit, Release
  <2>2. \A q \in Request : q # r => pc'[q] = pc[q]
    BY <1>4 DEF CommitUnkeyed, Commit, Release
  <2>3. QED
    BY <2>1, <2>2
<1>5. CASE Tick
  BY <1>5 DEF Tick
<1>6. CASE UNCHANGED vars
  BY <1>6 DEF vars
<1>7. QED
  BY <1>1, <1>2, <1>3, <1>4, <1>5, <1>6, WorkSplits DEF Next, Arrive

\* A request that has answered never changes again.
LEMMA AnsweredStays ==
    ASSUME TypeOK, EffectsInOrder, [Next]_vars, NEW q \in Request, pc[q] = "ok"
    PROVE  /\ pc'[q] = "ok"
           /\ body' = body
           /\ committedAt'[q] = committedAt[q]
           /\ began'[q] = began[q]
           /\ now <= now'
<1> USE DEF TypeOK, Executing, entries, GoTo
<1>1. ASSUME NEW r \in Request, Arrive(r)
      PROVE  r # q /\ pc'[q] = "ok" /\ body' = body /\ now' = now
             /\ committedAt' = committedAt /\ began'[q] = began[q]
  BY <1>1 DEF Arrive, Refuse, ProceedUnkeyed, Claim, Busy, Replay
<1>2. ASSUME NEW r \in Request, Inner(r)
      PROVE  r # q /\ pc'[q] = "ok" /\ body' = body /\ now' = now
             /\ committedAt' = committedAt /\ began'[q] = began[q]
  BY <1>2 DEF Inner
<1>3. ASSUME NEW r \in Request, CommitUnkeyed(r) \/ Commit(r) \/ Release(r)
      PROVE  r # q /\ pc'[q] = "ok" /\ body' = body /\ now' = now
             /\ committedAt'[q] = committedAt[q] /\ began'[q] = began[q]
  BY <1>3 DEF CommitUnkeyed, Commit, Release
<1>4. CASE Tick
  BY <1>4 DEF Tick
<1>5. CASE UNCHANGED vars
  BY <1>5 DEF vars
<1>6. QED
  BY <1>1, <1>2, <1>3, <1>4, <1>5, WorkSplits DEF Next

\* commit is the only step that makes an entry committed, and it caches the
\* answer of the request that runs it.
LEMMA CommittedNext ==
    ASSUME TypeOK, EffectsInOrder, CommittedIsAnswer, [Next]_vars
    PROVE  CommittedIsAnswer'
<1> SUFFICES ASSUME NEW k \in Key, slot'[k] = "committed"
             PROVE  /\ response'[k] \in Request
                    /\ body'[response'[k]].key = k
                    /\ pc'[response'[k]] = "ok"
                    /\ committedAt'[response'[k]] <= now'
                    /\ expiresAt'[k] = committedAt'[response'[k]] + TTL
  BY DEF CommittedIsAnswer
<1>1. CASE /\ slot[k] = "committed"
           /\ response'[k] = response[k]
           /\ expiresAt'[k] = expiresAt[k]
  <2>1. /\ response[k] \in Request
        /\ body[response[k]].key = k
        /\ pc[response[k]] = "ok"
        /\ committedAt[response[k]] <= now
        /\ expiresAt[k] = committedAt[response[k]] + TTL
    BY <1>1 DEF CommittedIsAnswer
  <2>2. now \in Nat /\ now' \in Nat /\ committedAt[response[k]] \in Nat
    BY <2>1, TypeNext DEF TypeOK
  <2>3. QED
    BY <1>1, <2>1, <2>2, AnsweredStays
<1>2. ASSUME NEW r \in Request, Commit(r), body[r].key = k
      PROVE  /\ response'[k] = r
             /\ body' = body
             /\ pc'[r] = "ok"
             /\ committedAt'[r] = now'
             /\ expiresAt'[k] = now' + TTL
             /\ now' \in Nat
  BY <1>2 DEF Commit, TypeOK, GoTo
<1> USE DEF TypeOK, entries, GoTo
<1>3. ASSUME NEW r \in Request, Arrive(r)
      PROVE  /\ slot[k] = "committed"
             /\ response'[k] = response[k]
             /\ expiresAt'[k] = expiresAt[k]
  BY <1>3 DEF Arrive, Refuse, ProceedUnkeyed, Claim, Busy, Replay
<1>4. ASSUME NEW r \in Request, Inner(r) \/ CommitUnkeyed(r) \/ Release(r)
      PROVE  /\ slot[k] = "committed"
             /\ response'[k] = response[k]
             /\ expiresAt'[k] = expiresAt[k]
  BY <1>4 DEF Inner, CommitUnkeyed, Release
<1>5. ASSUME NEW r \in Request, Commit(r), body[r].key # k
      PROVE  /\ slot[k] = "committed"
             /\ response'[k] = response[k]
             /\ expiresAt'[k] = expiresAt[k]
  BY <1>5 DEF Commit
<1>6. CASE Tick
  BY <1>1, <1>6 DEF Tick
<1>7. CASE UNCHANGED vars
  BY <1>1, <1>7 DEF vars
<1>8. ASSUME NEW r \in Request, Commit(r), body[r].key = k
      PROVE  /\ response'[k] \in Request
             /\ body'[response'[k]].key = k
             /\ pc'[response'[k]] = "ok"
             /\ committedAt'[response'[k]] <= now'
             /\ expiresAt'[k] = committedAt'[response'[k]] + TTL
  BY <1>2, <1>8
<1>9. QED
  BY <1>1, <1>3, <1>4, <1>5, <1>6, <1>7, <1>8, WorkSplits DEF Next

\* begin answers replay only from a fresh committed entry, and what it replays
\* stays as it was.
LEMMA ReplayNext ==
    ASSUME TypeOK, SlotInv, [Next]_vars
    PROVE  ReplayFaithful'
<1> SUFFICES ASSUME NEW r \in Request, pc'[r] = "replayed"
             PROVE  /\ answer'[r] \in Request
                    /\ body'[answer'[r]].key = body'[r].key
                    /\ body'[r].key # NoKey
                    /\ pc'[answer'[r]] = "ok"
                    /\ record'[answer'[r]] # "none"
                    /\ answer'[r] \in audited'
                    /\ committedAt'[answer'[r]] <= began'[r]
                    /\ began'[r] < committedAt'[answer'[r]] + TTL
  BY DEF ReplayFaithful, SameKey
<1>1. EffectsInOrder'
  BY EffectsNext DEF SlotInv
<1>2. CASE pc[r] = "replayed" /\ answer'[r] = answer[r] /\ began'[r] = began[r]
  <2>1. /\ answer[r] \in Request
        /\ SameKey(answer[r], r)
        /\ pc[answer[r]] = "ok"
        /\ committedAt[answer[r]] <= began[r]
        /\ began[r] < committedAt[answer[r]] + TTL
    BY <1>2 DEF SlotInv, ReplayFaithful
  <2>2. /\ pc'[answer[r]] = "ok"
        /\ body' = body
        /\ committedAt'[answer[r]] = committedAt[answer[r]]
    BY <2>1, AnsweredStays DEF SlotInv
  <2>3. record'[answer[r]] # "none" /\ answer[r] \in audited'
    BY <1>1, <2>1, <2>2 DEF EffectsInOrder, Stored, Logged
  <2>4. QED
    BY <1>2, <2>1, <2>2, <2>3 DEF SameKey
<1>3. CASE Replay(r)
  <2> DEFINE k == body[r].key
             q == response[k]
  <2>1. k \in Key /\ k # NoKey
    BY <1>3, KeyType DEF Replay
  <2>2. q \in Request /\ body[q].key = k /\ pc[q] = "ok"
        /\ committedAt[q] <= now /\ expiresAt[k] = committedAt[q] + TTL
    BY <1>3, <2>1 DEF Replay, SlotInv, CommittedIsAnswer
  <2>3. pc'[q] = "ok" /\ body' = body /\ committedAt'[q] = committedAt[q]
    BY <2>2, AnsweredStays DEF SlotInv
  <2>4. record'[q] # "none" /\ q \in audited'
    BY <1>1, <2>2, <2>3 DEF EffectsInOrder, Stored, Logged
  <2>5. answer'[r] = q /\ began'[r] = now /\ expiresAt[k] > now
    BY <1>3 DEF Replay, readFresh, TypeOK
  <2>6. now < committedAt[q] + TTL
    BY <2>1, <2>2, <2>5 DEF TypeOK
  <2> HIDE DEF q
  <2>7. QED
    BY <2>1, <2>2, <2>3, <2>4, <2>5, <2>6 DEF SameKey
<1> USE DEF TypeOK, Executing, entries, GoTo
<1>4. ASSUME NEW p \in Request,
             Refuse(p) \/ ProceedUnkeyed(p) \/ Claim(p) \/ Busy(p)
      PROVE  pc[r] = "replayed" /\ answer'[r] = answer[r] /\ began'[r] = began[r]
  BY <1>4 DEF Refuse, ProceedUnkeyed, Claim, Busy, Entered
<1>5. ASSUME NEW p \in Request, Replay(p), p # r
      PROVE  pc[r] = "replayed" /\ answer'[r] = answer[r] /\ began'[r] = began[r]
  BY <1>5 DEF Replay
<1>6. ASSUME NEW p \in Request, Inner(p)
      PROVE  pc[r] = "replayed" /\ answer'[r] = answer[r] /\ began'[r] = began[r]
  BY <1>6 DEF Inner
<1>7. ASSUME NEW p \in Request, CommitUnkeyed(p) \/ Commit(p) \/ Release(p)
      PROVE  pc[r] = "replayed" /\ answer'[r] = answer[r] /\ began'[r] = began[r]
  BY <1>7 DEF CommitUnkeyed, Commit, Release
<1>8. CASE Tick
  BY <1>2, <1>8 DEF Tick
<1>9. CASE UNCHANGED vars
  BY <1>2, <1>9 DEF vars
<1>10. QED
  BY <1>2, <1>3, <1>4, <1>5, <1>6, <1>7, <1>8, <1>9, WorkSplits
     DEF Next, Arrive, SlotInv

\* The whole of SlotInv is inductive.
LEMMA SlotNext == TypeOK /\ SlotInv /\ [Next]_vars => SlotInv'
BY InFlightNext, EffectsNext, CommittedNext, ReplayNext DEF SlotInv

\* The idempotency invariant holds however slow a request is.
LEMMA SlotCorrect == Spec => []SlotInv
BY TypeCorrect, SlotInit, SlotNext, PTL DEF Spec

\* No error path of the POST /invoices handler leaves its Idempotency-Key slot
\* in flight with nobody left to commit or release it, even when a request has
\* outlasted its window and another one has taken its slot.
THEOREM NoWedgedSlot == Spec => []InFlightOwned
BY SlotCorrect, PTL DEF SlotInv

\* What begin replays to a retry is the answer of a request with the same key
\* that stored and audited its document and returned less than one window ago.
THEOREM ReplaysAreFaithful == Spec => []ReplayFaithful
BY SlotCorrect, PTL DEF SlotInv

-----------------------------------------------------------------------------
(* ExclusiveExecution and DuplicateExplained. *)

\* Before any request nothing runs.
LEMMA WindowInit == Init => WindowInv
BY DEF Init, WindowInv, ExclusiveExecution, ClaimHeld, AnswerKept,
       ExecutionsApart, NothingStored, Executing

\* begin never answers claimed while a request with the key runs: its entry is
\* in flight and still fresh.
LEMMA ClaimAlone ==
    ASSUME TypeOK, WorkFits, ClaimHeld, NEW r \in Request, Claim(r),
           NEW q \in Request, pc[q] \in Executing
    PROVE  body[q].key # body[r].key
<1> SUFFICES ASSUME body[q].key = body[r].key PROVE FALSE
  OBVIOUS
<1> DEFINE k == body[r].key
<1>1. k \in Key /\ k # NoKey /\ ~readFresh(k)
  BY KeyType DEF Claim
<1>2. slot[k] = "in-flight" /\ expiresAt[k] = began[q] + TTL
      /\ now <= began[q] + MaxWork
  BY <1>1 DEF ClaimHeld
<1>3. now \in Nat /\ began[q] \in Nat
  BY DEF TypeOK
<1>4. expiresAt[k] > now
  BY <1>2, <1>3, RouteAssumption DEF WorkFits
<1>5. QED
  BY <1>1, <1>2, <1>4 DEF readFresh

\* A step of its own work keeps a request's claim, and no other request's step
\* takes it away.
LEMMA WindowWork ==
    ASSUME TypeOK, WorkFits, WindowInv, NEW r \in Request, Inner(r)
    PROVE  WindowInv'
<1> USE DEF TypeOK, Inner, Executing, entries
<1>1. /\ \A q \in Request : pc'[q] \in Executing <=> pc[q] \in Executing
      /\ \A q \in Request : pc'[q] = "ok" <=> pc[q] = "ok"
      /\ body' = body /\ began' = began /\ committedAt' = committedAt
      /\ slot' = slot /\ expiresAt' = expiresAt /\ now' = now
  OBVIOUS
<1>2. ExclusiveExecution' /\ ClaimHeld'
  BY <1>1 DEF WindowInv, ExclusiveExecution, ClaimHeld, SameKey
<1>3. AnswerKept' /\ ExecutionsApart'
  BY <1>1 DEF WindowInv, AnswerKept, ExecutionsApart, SameKey
<1>4. NothingStored'
  BY DEF WindowInv, NothingStored
<1>5. QED
  BY <1>2, <1>3, <1>4 DEF WindowInv

\* A request that is refused, told to retry later, or answered from the cache
\* runs nothing.
LEMMA WindowTurnedAway ==
    ASSUME TypeOK, WindowInv, NEW r \in Request,
           Refuse(r) \/ Busy(r) \/ Replay(r)
    PROVE  WindowInv'
<1> USE DEF TypeOK, Executing, entries, effects
<1>1. /\ pc[r] = "idle"
      /\ pc'[r] \in {"error", "busy", "replayed"}
      /\ \A q \in Request : q # r => pc'[q] = pc[q] /\ began'[q] = began[q]
      /\ body' = body /\ committedAt' = committedAt /\ record' = record
      /\ slot' = slot /\ expiresAt' = expiresAt /\ now' = now
  BY DEF Refuse, Busy, Replay
<1>2. ExclusiveExecution' /\ ClaimHeld'
  BY <1>1 DEF WindowInv, ExclusiveExecution, ClaimHeld, SameKey
<1>3. AnswerKept' /\ ExecutionsApart'
  BY <1>1 DEF WindowInv, AnswerKept, ExecutionsApart, SameKey
<1>4. NothingStored'
  BY <1>1 DEF WindowInv, NothingStored
<1>5. QED
  BY <1>2, <1>3, <1>4 DEF WindowInv

\* A request without the header takes part in nothing of this.
LEMMA WindowUnkeyed ==
    ASSUME TypeOK, WindowInv, NEW r \in Request,
           ProceedUnkeyed(r) \/ CommitUnkeyed(r)
    PROVE  WindowInv'
<1> USE DEF TypeOK, Executing, entries, effects, GoTo
<1>1. /\ body[r].key = NoKey
      /\ pc'[r] \in {"releasing", "issuing", "ok"}
      /\ pc'[r] = "issuing" => pc[r] = "idle"
      /\ \A q \in Request : q # r => pc'[q] = pc[q] /\ began'[q] = began[q]
      /\ body' = body /\ committedAt' = committedAt /\ record' = record
      /\ slot' = slot /\ expiresAt' = expiresAt /\ now' = now
  BY DEF ProceedUnkeyed, CommitUnkeyed, Entered
<1>2. pc'[r] \in Executing => began'[r] = now
  BY DEF ProceedUnkeyed, CommitUnkeyed, Entered
<1>3. now \in Nat
  OBVIOUS
<1>4. ExclusiveExecution'
  BY <1>1 DEF WindowInv, ExclusiveExecution, SameKey
<1>5. ClaimHeld'
  <2> SUFFICES ASSUME NEW q \in Request, pc'[q] \in Executing
               PROVE  /\ began'[q] <= now
                      /\ now <= began'[q] + MaxWork
                      /\ body[q].key # NoKey =>
                           /\ slot[body[q].key] = "in-flight"
                           /\ expiresAt[body[q].key] = began'[q] + TTL
    BY <1>1 DEF ClaimHeld
  <2>1. CASE q = r
    BY <2>1, <1>1, <1>2, <1>3, RouteAssumption
  <2>2. CASE q # r
    BY <2>2, <1>1 DEF WindowInv, ClaimHeld
  <2>3. QED
    BY <2>1, <2>2
<1>6. AnswerKept'
  BY <1>1 DEF WindowInv, AnswerKept
<1>7. ExecutionsApart'
  BY <1>1 DEF WindowInv, ExecutionsApart, SameKey
<1>8. NothingStored'
  BY <1>1 DEF WindowInv, NothingStored
<1>9. QED
  BY <1>4, <1>5, <1>6, <1>7, <1>8 DEF WindowInv

\* begin answers claimed only when nothing with the key runs, and when every
\* earlier answer's window is over.
LEMMA WindowClaim ==
    ASSUME TypeOK, WorkFits, WindowInv, NEW r \in Request, Claim(r)
    PROVE  WindowInv'
<1> DEFINE k == body[r].key
<1>1. k \in Key /\ k # NoKey
  BY KeyType DEF Claim
<1>2. \A q \in Request : pc[q] \in Executing => body[q].key # k
  BY ClaimAlone DEF WindowInv
<1>3. /\ pc[r] = "idle"
      /\ pc'[r] \in {"releasing", "issuing"}
      /\ began'[r] = now
      /\ \A q \in Request : q # r => pc'[q] = pc[q] /\ began'[q] = began[q]
      /\ body' = body /\ committedAt' = committedAt /\ record' = record
      /\ now' = now
      /\ slot'[k] = "in-flight" /\ expiresAt'[k] = now + TTL
      /\ \A j \in Key : j # k => slot'[j] = slot[j] /\ expiresAt'[j] = expiresAt[j]
  BY <1>1 DEF Claim, Entered, TypeOK, effects
<1>4. now \in Nat /\ expiresAt[k] \in Nat
  BY <1>1 DEF TypeOK
<1>5. \A q \in Request : pc[q] = "ok" /\ body[q].key = k
                           => now >= committedAt[q] + TTL
  <2> SUFFICES ASSUME NEW q \in Request, pc[q] = "ok", body[q].key = k
               PROVE  now >= committedAt[q] + TTL
    OBVIOUS
  <2>1. ~readFresh(k)
    BY DEF Claim
  <2>2. \/ now >= committedAt[q] + TTL
        \/ slot[k] = "committed" /\ expiresAt[k] >= committedAt[q] + TTL
    BY <1>1 DEF WindowInv, AnswerKept
  <2>3. committedAt[q] + TTL \in Nat
    BY RouteAssumption DEF TypeOK
  <2>4. QED
    BY <2>1, <2>2, <2>3, <1>4 DEF readFresh
<1>6. ExclusiveExecution'
  BY <1>2, <1>3 DEF WindowInv, ExclusiveExecution, SameKey, Executing
<1>7. ClaimHeld'
  <2> SUFFICES ASSUME NEW q \in Request, pc'[q] \in Executing
               PROVE  /\ began'[q] <= now
                      /\ now <= began'[q] + MaxWork
                      /\ body[q].key # NoKey =>
                           /\ slot'[body[q].key] = "in-flight"
                           /\ expiresAt'[body[q].key] = began'[q] + TTL
    BY <1>3 DEF ClaimHeld
  <2>1. CASE q = r
    BY <2>1, <1>3, <1>4, RouteAssumption
  <2>2. CASE q # r
    <3>1. pc[q] \in Executing /\ body[q].key # k
      BY <2>2, <1>2, <1>3
    <3>2. body[q].key # NoKey => body[q].key \in Key
      BY KeyType
    <3>3. QED
      BY <2>2, <3>1, <3>2, <1>3 DEF WindowInv, ClaimHeld
  <2>3. QED
    BY <2>1, <2>2
<1>8. AnswerKept'
  <2> SUFFICES ASSUME NEW q \in Request, pc'[q] = "ok", body[q].key # NoKey
               PROVE  \/ now >= committedAt[q] + TTL
                      \/ /\ slot'[body[q].key] = "committed"
                         /\ expiresAt'[body[q].key] >= committedAt[q] + TTL
    BY <1>3 DEF AnswerKept
  <2>1. q # r /\ pc[q] = "ok" /\ body[q].key \in Key
    BY <1>3, KeyType
  <2>2. CASE body[q].key = k
    BY <2>1, <2>2, <1>5
  <2>3. CASE body[q].key # k
    BY <2>1, <2>3, <1>3 DEF WindowInv, AnswerKept
  <2>4. QED
    BY <2>2, <2>3
<1>9. ExecutionsApart'
  <2> SUFFICES ASSUME NEW q \in Request, NEW p \in Request, SameKey(q, p),
                      q # p, pc'[q] = "ok", pc'[p] \in Executing \cup {"ok"}
               PROVE  \/ began'[p] >= committedAt[q] + TTL
                      \/ pc'[p] = "ok" /\ began'[q] >= committedAt[p] + TTL
    BY <1>3 DEF ExecutionsApart, SameKey
  <2>1. q # r /\ pc[q] = "ok"
    BY <1>3
  <2>2. CASE p = r
    BY <2>1, <2>2, <1>3, <1>5 DEF SameKey
  <2>3. CASE p # r
    BY <2>1, <2>3, <1>3 DEF WindowInv, ExecutionsApart
  <2>4. QED
    BY <2>2, <2>3
<1>10. NothingStored'
  BY <1>3 DEF WindowInv, NothingStored
<1>11. QED
  BY <1>6, <1>7, <1>8, <1>9, <1>10 DEF WindowInv

\* Whoever commits or releases a slot is the only one running under its key,
\* and began after the window of every answer given under it.
LEMMA WindowAnswer ==
    ASSUME TypeOK, WindowInv, NEW r \in Request, body[r].key # NoKey,
           Commit(r) \/ Release(r)
    PROVE  WindowInv'
<1> DEFINE k == body[r].key
<1>1. k \in Key
  BY KeyType
<1>2. /\ pc[r] \in Executing /\ pc[r] # "ok"
      /\ pc'[r] \in {"ok", "error"}
      /\ \A q \in Request : q # r => /\ pc'[q] = pc[q]
                                     /\ committedAt'[q] = committedAt[q]
      /\ body' = body /\ began' = began /\ record' = record /\ now' = now
      /\ \A j \in Key : j # k => slot'[j] = slot[j] /\ expiresAt'[j] = expiresAt[j]
  BY <1>1 DEF Commit, Release, TypeOK, effects, Executing, GoTo
<1>3. pc'[r] = "ok" => /\ committedAt'[r] = now
                       /\ slot'[k] = "committed"
                       /\ expiresAt'[k] = now + TTL
  BY <1>1 DEF Commit, Release, TypeOK, GoTo
<1>4. \A q \in Request : q # r /\ body[q].key = k => pc[q] \notin Executing
  BY <1>2 DEF WindowInv, ExclusiveExecution, SameKey
<1>5. \A q \in Request : q # r /\ body[q].key = k /\ pc[q] = "ok"
                           => began[r] >= committedAt[q] + TTL
  BY <1>2 DEF WindowInv, ExecutionsApart, SameKey
<1>6. now \in Nat /\ \A q \in Request : /\ began[q] \in Nat
                                        /\ committedAt[q] + TTL \in Nat
  BY RouteAssumption DEF TypeOK
<1>7. began[r] <= now
  BY <1>2 DEF WindowInv, ClaimHeld
<1>8. ExclusiveExecution'
  BY <1>2 DEF WindowInv, ExclusiveExecution, SameKey, Executing
<1>9. ClaimHeld'
  <2> SUFFICES ASSUME NEW q \in Request, pc'[q] \in Executing
               PROVE  /\ began[q] <= now
                      /\ now <= began[q] + MaxWork
                      /\ body[q].key # NoKey =>
                           /\ slot'[body[q].key] = "in-flight"
                           /\ expiresAt'[body[q].key] = began[q] + TTL
    BY <1>2 DEF ClaimHeld
  <2>1. q # r
    BY <1>2 DEF Executing
  <2>2. pc[q] \in Executing /\ body[q].key # k
    BY <2>1, <1>2, <1>4
  <2>3. body[q].key # NoKey => body[q].key \in Key
    BY KeyType
  <2>4. QED
    BY <2>2, <2>3, <1>2 DEF WindowInv, ClaimHeld
<1>10. AnswerKept'
  <2> SUFFICES ASSUME NEW q \in Request, pc'[q] = "ok", body[q].key # NoKey
               PROVE  \/ now >= committedAt'[q] + TTL
                      \/ /\ slot'[body[q].key] = "committed"
                         /\ expiresAt'[body[q].key] >= committedAt'[q] + TTL
    BY <1>2 DEF AnswerKept
  <2>1. CASE q = r
    BY <2>1, <1>3, <1>6, RouteAssumption
  <2>2. CASE q # r /\ body[q].key = k
    BY <2>2, <1>2, <1>5, <1>6, <1>7
  <2>3. CASE q # r /\ body[q].key # k
    BY <2>3, <1>2, KeyType DEF WindowInv, AnswerKept
  <2>4. QED
    BY <2>1, <2>2, <2>3
<1>11. ExecutionsApart'
  <2> SUFFICES ASSUME NEW q \in Request, NEW p \in Request, SameKey(q, p),
                      q # p, pc'[q] = "ok", pc'[p] \in Executing \cup {"ok"}
               PROVE  \/ began[p] >= committedAt'[q] + TTL
                      \/ pc'[p] = "ok" /\ began[q] >= committedAt'[p] + TTL
    BY <1>2 DEF ExecutionsApart, SameKey
  <2>1. CASE q # r /\ p # r
    BY <2>1, <1>2 DEF WindowInv, ExecutionsApart
  <2>2. CASE q # r /\ p = r
    <3>1. began[r] >= committedAt[q] + TTL
      BY <2>2, <1>2, <1>5 DEF SameKey
    <3>2. QED
      BY <2>2, <3>1, <1>2
  <2>3. CASE q = r
    <3>1. p # r /\ body[p].key = k
      BY <2>3 DEF SameKey
    <3>2. pc[p] = "ok"
      BY <3>1, <1>2, <1>4
    <3>3. began[r] >= committedAt[p] + TTL
      BY <3>1, <3>2, <1>5
    <3>4. QED
      BY <2>3, <3>1, <3>2, <3>3, <1>2
  <2>4. QED
    BY <2>1, <2>2, <2>3
<1>12. NothingStored'
  BY <1>2 DEF WindowInv, NothingStored
<1>13. QED
  BY <1>8, <1>9, <1>10, <1>11, <1>12 DEF WindowInv

\* The error path of a request without the header releases nothing.
LEMMA WindowReleaseUnkeyed ==
    ASSUME TypeOK, WindowInv, NEW r \in Request, body[r].key = NoKey, Release(r)
    PROVE  WindowInv'
<1> USE DEF TypeOK, Executing, effects, GoTo
<1>1. slot' = slot
  BY RouteAssumption DEF Release
<1>2. /\ pc'[r] = "error"
      /\ \A q \in Request : q # r => pc'[q] = pc[q]
      /\ body' = body /\ committedAt' = committedAt /\ record' = record
      /\ expiresAt' = expiresAt /\ began' = began /\ now' = now
  BY DEF Release
<1>3. ExclusiveExecution' /\ ClaimHeld'
  BY <1>1, <1>2 DEF WindowInv, ExclusiveExecution, ClaimHeld, SameKey
<1>4. AnswerKept' /\ ExecutionsApart'
  BY <1>1, <1>2 DEF WindowInv, AnswerKept, ExecutionsApart, SameKey
<1>5. NothingStored'
  BY <1>2 DEF WindowInv, NothingStored
<1>6. QED
  BY <1>3, <1>4, <1>5 DEF WindowInv

\* Time passes only as far as the slowest running request may take.
LEMMA WindowTick ==
    ASSUME TypeOK, WindowInv, Tick
    PROVE  WindowInv'
<1> USE DEF Tick, entries, effects
<1>1. ExclusiveExecution' /\ ExecutionsApart' /\ NothingStored'
  BY DEF WindowInv, ExclusiveExecution, ExecutionsApart, NothingStored, SameKey
<1>2. now \in Nat /\ now' = now + 1
  BY DEF TypeOK
<1>3. ClaimHeld'
  <2> SUFFICES ASSUME NEW r \in Request, pc[r] \in Executing
               PROVE  began[r] <= now' /\ now' <= began[r] + MaxWork
    BY DEF WindowInv, ClaimHeld
  <2>1. began[r] \in Nat /\ now < began[r] + MaxWork /\ began[r] <= now
    BY DEF TypeOK, WindowInv, ClaimHeld
  <2>2. QED
    BY <2>1, <1>2, RouteAssumption
<1>4. AnswerKept'
  <2> SUFFICES ASSUME NEW q \in Request, now >= committedAt[q] + TTL
               PROVE  now' >= committedAt[q] + TTL
    BY DEF WindowInv, AnswerKept
  <2>1. committedAt[q] + TTL \in Nat
    BY RouteAssumption DEF TypeOK
  <2>2. QED
    BY <2>1, <1>2
<1>5. QED
  BY <1>1, <1>3, <1>4 DEF WindowInv

\* WindowInv is inductive when the work is shorter than the window.
LEMMA WindowNext ==
    ASSUME WorkFits
    PROVE  TypeOK /\ EffectsInOrder /\ WindowInv /\ [Next]_vars => WindowInv'
<1> SUFFICES ASSUME TypeOK, EffectsInOrder, WindowInv, [Next]_vars
             PROVE  WindowInv'
  OBVIOUS
<1>1. ASSUME NEW r \in Request, Arrive(r) PROVE WindowInv'
  BY <1>1, WindowTurnedAway, WindowUnkeyed, WindowClaim DEF Arrive
<1>2. ASSUME NEW r \in Request, Work(r) PROVE WindowInv'
  <2>1. body[r].key = NoKey /\ Commit(r) => FALSE
    BY DEF Commit
  <2>2. QED
    BY <1>2, <2>1, WorkSplits, WindowWork, WindowUnkeyed, WindowAnswer,
       WindowReleaseUnkeyed
<1>3. CASE Tick
  BY <1>3, WindowTick
<1>4. CASE UNCHANGED vars
  BY <1>4 DEF vars, entries, effects, WindowInv, ExclusiveExecution, ClaimHeld,
              AnswerKept, ExecutionsApart, NothingStored, SameKey
<1>5. QED
  BY <1>1, <1>2, <1>3, <1>4 DEF Next

\* The window invariant holds when the work is shorter than the window.
LEMMA WindowCorrect == ASSUME WorkFits PROVE Spec => []WindowInv
<1>1. TypeOK /\ SlotInv /\ WindowInv /\ [Next]_vars => WindowInv'
  BY WindowNext DEF SlotInv
<1>2. QED
  BY <1>1, TypeCorrect, SlotCorrect, WindowInit, PTL DEF Spec

\* As long as no request takes longer than the idempotency window, two requests
\* with one Idempotency-Key never run the work of POST /invoices at the same
\* time: the second one gets 409 or the cached answer.
THEOREM OneExecutionPerKey == WorkFits => (Spec => []ExclusiveExecution)
<1>1. WindowInv => ExclusiveExecution
  BY DEF WindowInv
<1>2. ASSUME WorkFits PROVE Spec => []ExclusiveExecution
  BY <1>1, <1>2, WindowCorrect, PTL
<1>3. QED
  BY <1>2

\* As long as no request takes longer than the idempotency window, one key
\* stores two documents only when a request failed after it had stored its own
\* (the route released the slot and the record stayed), or when the later
\* request came after the earlier one's answer had expired.
THEOREM DuplicatesAreExplained == WorkFits => (Spec => []DuplicateExplained)
<1>1. TypeOK /\ WindowInv => DuplicateExplained
  <2> SUFFICES ASSUME TypeOK, WindowInv, NEW q \in Request, NEW r \in Request,
                      SameKey(q, r), q # r,
                      record[q] # "none", record[r] # "none",
                      {pc[q], pc[r]} \cap {"releasing", "error"} = {}
               PROVE  \/ pc[q] = "ok" /\ began[r] >= committedAt[q] + TTL
                      \/ pc[r] = "ok" /\ began[q] >= committedAt[r] + TTL
    BY DEF DuplicateExplained
  <2>1. /\ pc[q] \in Executing \cup {"ok"}
        /\ pc[r] \in Executing \cup {"ok"}
    BY DEF TypeOK, WindowInv, NothingStored, Executing, Ended
  <2>2. pc[q] = "ok" \/ pc[r] = "ok"
    BY <2>1 DEF WindowInv, ExclusiveExecution
  <2>3. SameKey(r, q)
    BY DEF SameKey
  <2>4. QED
    BY <2>1, <2>2, <2>3 DEF WindowInv, ExecutionsApart
<1>2. ASSUME WorkFits PROVE Spec => []DuplicateExplained
  BY <1>1, <1>2, WindowCorrect, TypeCorrect, PTL
<1>3. QED
  BY <1>2

=============================================================================
