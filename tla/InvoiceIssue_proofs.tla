------------------------ MODULE InvoiceIssue_proofs -------------------------
(***************************************************************************)
(* The safety properties of InvoiceIssue, for any tenants, kinds, calls    *)
(* and months.                                                             *)
(***************************************************************************)
EXTENDS InvoiceIssue, TLAPS

-----------------------------------------------------------------------------
(* Chain heads. *)

\* Whether h is the head of the first n records depends only on the kinds and
\* hashes of those records (what updateInvoiceStatus and a later recordInvoice
\* leave alone).
LEMMA HeadDependsOnPrefix ==
    ASSUME NEW log, NEW log2, NEW n \in Nat, NEW k, NEW h,
           \A i \in 1 .. n : /\ log2[i].kind = log[i].kind
                             /\ log2[i].invoiceHash = log[i].invoiceHash,
           IsHead(log, n, k, h)
    PROVE  IsHead(log2, n, k, h)
BY DEF IsHead, Selects

\* A record that kind k selects becomes the head of k's chain when
\* recordInvoice appends it.
LEMMA AppendedIsHead ==
    ASSUME NEW log \in Seq(InvoiceRecord), NEW r \in InvoiceRecord, NEW k,
           Selects(k, r)
    PROVE  IsHead(Append(log, r), Len(log) + 1, k, r.invoiceHash)
BY DEF IsHead

\* A record that kind k does not select leaves the head of k's chain alone.
LEMMA AppendedElsewhere ==
    ASSUME NEW log \in Seq(InvoiceRecord), NEW r \in InvoiceRecord, NEW k,
           NEW h, ~Selects(k, r), IsHead(log, Len(log), k, h)
    PROVE  IsHead(Append(log, r), Len(log) + 1, k, h)
<1>1. \A i \in 1 .. Len(log) : Append(log, r)[i] = log[i]
  OBVIOUS
<1>2. Append(log, r)[Len(log) + 1] = r /\ Len(log) \in Nat
  OBVIOUS
<1>3. QED
  BY <1>1, <1>2 DEF IsHead

-----------------------------------------------------------------------------
(* The type invariant. *)

\* The document a call assembles is a well-formed record.
LEMMA BuiltType ==
    ASSUME TypeOK, NEW c \in Call
    PROVE  Built(c) \in InvoiceRecord
BY ConstantsAssumption
   DEF TypeOK, Request, InvoiceRecord, Built, Hash

\* updateInvoiceStatus rewrites the status field and no other.
LEMMA StatusOnly ==
    ASSUME NEW r \in InvoiceRecord, NEW st \in Status
    PROVE  /\ WithStatus(r, st) \in InvoiceRecord
           /\ WithStatus(r, st).status = st
           /\ WithStatus(r, st).invoiceId = r.invoiceId
           /\ WithStatus(r, st).kind = r.kind
           /\ WithStatus(r, st).yearMonth = r.yearMonth
           /\ WithStatus(r, st).counterNumber = r.counterNumber
           /\ WithStatus(r, st).uuid = r.uuid
           /\ WithStatus(r, st).invoiceHash = r.invoiceHash
           /\ WithStatus(r, st).previousInvoiceHash = r.previousInvoiceHash
BY Zenon DEF InvoiceRecord, WithStatus

\* The initial states are well typed.
LEMMA TypeInit == Init => TypeOK
BY ConstantsAssumption DEF Init, TypeOK, Month, Hash, Running, Ended

\* Every step keeps the store and the issuers' locals well typed.
LEMMA TypeNext == TypeOK /\ [Next]_vars => TypeOK'
<1> SUFFICES ASSUME TypeOK, [Next]_vars PROVE TypeOK'
  OBVIOUS
<1> USE ConstantsAssumption DEF Running, Ended, store, local
<1>1. ASSUME NEW c \in Call, issueInvoice(c) PROVE TypeOK'
  BY <1>1 DEF TypeOK, issueInvoice
<1>2. ASSUME NEW c \in Call, Reject(c) PROVE TypeOK'
  BY <1>2 DEF TypeOK, Reject
<1>3. ASSUME NEW c \in Call, incrementCounter(c) PROVE TypeOK'
  <2>1. <<req[c].scope, yearMonth[c]>> \in Scope \X Month
    BY DEF TypeOK, Request
  <2>2. QED
    BY <1>3, <2>1 DEF TypeOK, incrementCounter, AfterCounter
<1>4. ASSUME NEW c \in Call, getPreviousHash(c) PROVE TypeOK'
  <2>1. /\ <<req[c].scope, req[c].kind>> \in Scope \X (Kind \cup {AnyKind})
        /\ Len(invoices[req[c].scope]) \in Nat
    BY DEF TypeOK, Request
  <2>2. chainHead[<<req[c].scope, req[c].kind>>] \in Hash
    BY <2>1 DEF TypeOK
  <2>3. QED
    BY <1>4, <2>1, <2>2 DEF TypeOK, getPreviousHash
<1>5. ASSUME NEW c \in Call, NEW ack \in BOOLEAN, recordInvoice(c, ack)
      PROVE  TypeOK'
  <2> DEFINE s == req[c].scope
             r == Built(c)
  <2>1. s \in Scope /\ r \in InvoiceRecord /\ r.invoiceHash \in Hash
    BY BuiltType DEF TypeOK, Request, InvoiceRecord
  <2>2. pc' \in [Call -> {"idle"} \cup Running \cup Ended]
    BY <1>5 DEF recordInvoice, TypeOK
  <2>3. invoices' \in [Scope -> Seq(InvoiceRecord)]
    <3>1. Append(invoices[s], r) \in Seq(InvoiceRecord)
      BY <2>1 DEF TypeOK
    <3>2. \/ invoices' = invoices
          \/ invoices' = [invoices EXCEPT ![s] = Append(invoices[s], r)]
      BY <1>5 DEF recordInvoice
    <3>3. QED
      BY <3>1, <3>2, <2>1 DEF TypeOK
  <2>4. chainHead' \in [Scope \X (Kind \cup {AnyKind}) -> Hash]
    BY <1>5, <2>1 DEF recordInvoice, TypeOK
  <2>5. QED
    BY <1>5, <2>2, <2>3, <2>4 DEF recordInvoice, TypeOK
<1>6. ASSUME NEW c \in Call, Abort(c) PROVE TypeOK'
  BY <1>6 DEF TypeOK, Abort
<1>7. ASSUME NEW s \in Scope, NEW st \in Status, NEW i \in DOMAIN invoices[s],
             updateInvoiceStatus(s, i, st)
      PROVE  TypeOK'
  <2>1. invoices[s] \in Seq(InvoiceRecord) /\ invoices[s][i] \in InvoiceRecord
    BY DEF TypeOK
  <2>2. WithStatus(invoices[s][i], st) \in InvoiceRecord
    BY <2>1, StatusOnly
  <2>3. [invoices[s] EXCEPT ![i] = WithStatus(invoices[s][i], st)]
          \in Seq(InvoiceRecord)
    BY <2>1, <2>2
  <2>4. QED
    BY <1>7, <2>3 DEF TypeOK, updateInvoiceStatus
<1>8. CASE NextMonth
  BY <1>8 DEF TypeOK, NextMonth, Month
<1>9. CASE UNCHANGED vars
  BY <1>9 DEF TypeOK, vars
<1>10. QED
  BY <1>1, <1>2, <1>3, <1>4, <1>5, <1>6, <1>7, <1>8, <1>9
     DEF Next, IssueStep

\* Every state of every behaviour is well typed: counters stay natural numbers
\* and every stored record is complete.
THEOREM TypeCorrect == Spec => []TypeOK
BY TypeInit, TypeNext, PTL DEF Spec

-----------------------------------------------------------------------------
(* The inductive invariant, one lemma per conjunct. *)

\* What a step does to the stored records: it leaves them alone, appends the
\* document of a building call, or rewrites one status.
Appends(c) ==
    /\ pc[c] = "building"
    /\ pc' \in {[pc EXCEPT ![c] = "done"], [pc EXCEPT ![c] = "failed"]}
    /\ invoices' = [invoices EXCEPT ![req[c].scope] =
                      Append(invoices[req[c].scope], Built(c))]
    /\ chainHead' = [k \in DOMAIN chainHead |->
         IF k \in {<<req[c].scope, AnyKind>>, <<req[c].scope, Built(c).kind>>}
         THEN Built(c).invoiceHash ELSE chainHead[k]]
    /\ UNCHANGED <<month, counters, req, yearMonth, sequence,
                   previousInvoiceHash, readAt>>

Refuses(c) ==
    /\ pc[c] = "building"
    /\ pc' \in {[pc EXCEPT ![c] = "done"], [pc EXCEPT ![c] = "failed"]}
    /\ pc'[c] = "done" => Stored(req[c].scope, Built(c))
    /\ UNCHANGED <<month, store, req, yearMonth, sequence,
                   previousInvoiceHash, readAt>>

\* What one recordInvoice step does: it stores the record its call built, or
\* leaves the store alone because the id is taken.
LEMMA RecordCases ==
    ASSUME TypeOK, NEW c \in Call, NEW ack \in BOOLEAN, recordInvoice(c, ack)
    PROVE  Appends(c) \/ Refuses(c)
<1>1. CASE Taken(req[c].scope, Built(c).invoiceId)
  BY <1>1 DEF TypeOK, recordInvoice, Refuses, store
<1>2. CASE ~Taken(req[c].scope, Built(c).invoiceId)
  BY <1>2 DEF TypeOK, recordInvoice, Appends
<1>3. QED
  BY <1>1, <1>2

\* Only a call past both guards runs, and only incrementCounter gives a call
\* its number.
LEMMA CallsSoundNext == TypeOK /\ CallsSound /\ [Next]_vars => CallsSound'
<1> SUFFICES ASSUME TypeOK, CallsSound, [Next]_vars PROVE CallsSound'
  OBVIOUS
<1> USE DEF Running, Ended, store, local, TypeOK, CallsSound
<1>1. ASSUME NEW c \in Call, IssueStep(c) PROVE CallsSound'
  <2>1. CASE issueInvoice(c)
    BY <2>1 DEF issueInvoice, assertScope
  <2>2. CASE Reject(c)
    BY <2>2 DEF Reject
  <2>3. CASE incrementCounter(c)
    BY <2>3 DEF incrementCounter, AfterCounter
  <2>4. CASE getPreviousHash(c)
    BY <2>4 DEF getPreviousHash
  <2>5. ASSUME NEW ack \in BOOLEAN, recordInvoice(c, ack) PROVE CallsSound'
    BY <2>5, RecordCases DEF Appends, Refuses
  <2>6. CASE Abort(c)
    BY <2>6 DEF Abort
  <2>7. QED
    BY <1>1, <2>1, <2>2, <2>3, <2>4, <2>5, <2>6 DEF IssueStep
<1>2. ASSUME NEW s \in Scope, NEW st \in Status, NEW i \in DOMAIN invoices[s],
             updateInvoiceStatus(s, i, st)
      PROVE  CallsSound'
  BY <1>2 DEF updateInvoiceStatus
<1>3. CASE NextMonth
  BY <1>3 DEF NextMonth
<1>4. CASE UNCHANGED vars
  BY <1>4 DEF vars
<1>5. QED
  BY <1>1, <1>2, <1>3, <1>4 DEF Next

\* Only incrementCounter moves a counter row, and the value it stores is the one
\* value above all those handed out before.
LEMMA CountersNext ==
    /\ TypeOK /\ CallsSound /\ SerialsUnique /\ NoNumberSkipped
    /\ [Next]_vars
    => SerialsUnique' /\ NoNumberSkipped'
<1> SUFFICES ASSUME TypeOK, CallsSound, SerialsUnique, NoNumberSkipped,
                    [Next]_vars
             PROVE  SerialsUnique' /\ NoNumberSkipped'
  OBVIOUS
<1>1. CASE /\ UNCHANGED <<counters, sequence, req>>
           /\ \A c \in Call : sequence[c] # 0 => yearMonth'[c] = yearMonth[c]
  <2>1. \A s \in Scope, m \in Month : Claimants(s, m)' = Claimants(s, m)
    BY <1>1 DEF Claimants
  <2>2. QED
    BY <1>1, <2>1 DEF SerialsUnique, NoNumberSkipped
<1>2. ASSUME NEW c \in Call, incrementCounter(c)
      PROVE  SerialsUnique' /\ NoNumberSkipped'
  <2> DEFINE s0 == req[c].scope
             m0 == yearMonth[c]
             n == counters[<<s0, m0>>] + 1
  <2>1. /\ s0 \in Scope /\ m0 \in Month /\ n \in Nat /\ n # 0
        /\ sequence[c] = 0
        /\ UNCHANGED <<req, yearMonth>>
        /\ sequence' = [sequence EXCEPT ![c] = n]
        /\ \A s \in Scope, m \in Month :
             counters'[<<s, m>>] = IF s = s0 /\ m = m0 THEN n
                                   ELSE counters[<<s, m>>]
    BY <1>2 DEF incrementCounter, TypeOK, Request, CallsSound
  <2>2. ASSUME NEW s \in Scope, NEW m \in Month
        PROVE  Claimants(s, m)' = IF s = s0 /\ m = m0
                                  THEN Claimants(s, m) \cup {c}
                                  ELSE Claimants(s, m)
    BY <2>1 DEF Claimants, TypeOK
  <2>3. ASSUME NEW s \in Scope, NEW m \in Month
        PROVE  \A d \in Claimants(s, m) :
                 /\ d \in Call /\ d # c /\ sequence'[d] = sequence[d]
                 /\ sequence[d] \in 1 .. counters[<<s, m>>]
    BY <2>1 DEF Claimants, NoNumberSkipped, TypeOK
  <2>4. SerialsUnique'
    <3> SUFFICES ASSUME NEW s \in Scope, NEW m \in Month,
                        NEW d \in Claimants(s, m)', NEW e \in Claimants(s, m)',
                        sequence'[d] = sequence'[e]
                 PROVE  d = e
      BY DEF SerialsUnique
    <3>1. /\ sequence'[c] = n
          /\ counters[<<s0, m0>>] \in Nat
      BY <2>1 DEF TypeOK
    <3>2. CASE d \in Claimants(s, m) /\ e \in Claimants(s, m)
      BY <2>3, <3>2 DEF SerialsUnique
    <3>3. ASSUME NEW x \in Claimants(s, m), c \in Claimants(s, m)'
          PROVE  sequence'[x] # sequence'[c]
      <4>1. s = s0 /\ m = m0
        BY <2>2, <2>3, <3>3
      <4>2. sequence'[x] \in 1 .. counters[<<s0, m0>>]
        BY <2>3, <4>1
      <4>3. QED
        BY <3>1, <4>2
    <3>4. \A x \in Claimants(s, m)' : x \in Claimants(s, m) \/ x = c
      BY <2>2
    <3>5. QED
      BY <3>2, <3>3, <3>4
  <2>5. NoNumberSkipped'
    <3> SUFFICES ASSUME NEW s \in Scope, NEW m \in Month
                 PROVE  {sequence'[d] : d \in Claimants(s, m)'}
                          = 1 .. counters'[<<s, m>>]
      BY DEF NoNumberSkipped
    <3>1. {sequence'[d] : d \in Claimants(s, m)} = 1 .. counters[<<s, m>>]
      BY <2>3 DEF NoNumberSkipped
    <3>2. CASE s = s0 /\ m = m0
      <4>1. {sequence'[d] : d \in Claimants(s, m)'}
              = {sequence'[d] : d \in Claimants(s, m)} \cup {n}
        <5>1. sequence'[c] = n
          BY <2>1 DEF TypeOK
        <5>2. Claimants(s, m)' = Claimants(s, m) \cup {c}
          BY <2>2, <3>2
        <5> HIDE DEF n
        <5>3. QED
          BY <5>1, <5>2
      <4>2. counters[<<s, m>>] \in Nat /\ counters'[<<s, m>>] = n
        BY <2>1, <3>2 DEF TypeOK
      <4>3. 1 .. n = (1 .. counters[<<s, m>>]) \cup {n}
        BY <4>2, <3>2
      <4>4. QED
        BY <3>1, <4>1, <4>2, <4>3
    <3>3. CASE ~(s = s0 /\ m = m0)
      BY <2>1, <2>2, <3>1, <3>3
    <3>4. QED
      BY <3>2, <3>3
  <2>6. QED
    BY <2>4, <2>5
<1>3. ASSUME NEW c \in Call, issueInvoice(c)
      PROVE  SerialsUnique' /\ NoNumberSkipped'
  BY <1>1, <1>3 DEF issueInvoice, CallsSound, TypeOK, store
<1>4. ASSUME NEW c \in Call, NEW ack \in BOOLEAN, recordInvoice(c, ack)
      PROVE  SerialsUnique' /\ NoNumberSkipped'
  BY <1>1, <1>4 DEF recordInvoice
<1>5. QED
  BY <1>1, <1>2, <1>3, <1>4
     DEF Next, IssueStep, Reject, getPreviousHash, Abort, updateInvoiceStatus,
         NextMonth, vars, store, local

\* Two versions of a record that differ at most in their status.
SameDocument(q, r) ==
    /\ q.invoiceId = r.invoiceId
    /\ q.kind = r.kind
    /\ q.yearMonth = r.yearMonth
    /\ q.counterNumber = r.counterNumber
    /\ q.uuid = r.uuid
    /\ q.invoiceHash = r.invoiceHash
    /\ q.previousInvoiceHash = r.previousInvoiceHash

\* What any step does to the records of a scope: those stored stay where they
\* are and keep all but their status, and at most one document is added, that
\* of a building call of the scope.
RecordsKept(s) ==
    /\ Len(invoices'[s]) >= Len(invoices[s])
    /\ \A i \in DOMAIN invoices[s] :
         SameDocument(invoices'[s][i], invoices[s][i])
    /\ \A i \in DOMAIN invoices'[s] :
         \/ i \in DOMAIN invoices[s]
         \/ \E c \in Call : /\ Appends(c)
                            /\ s = req[c].scope
                            /\ i = Len(invoices[s]) + 1
                            /\ invoices'[s][i] = Built(c)

\* Appending a record leaves the earlier ones at their places.
LEMMA AppendKeeps ==
    ASSUME TypeOK, NEW c \in Call, Appends(c), NEW s \in Scope
    PROVE  RecordsKept(s)
<1>1. invoices[s] \in Seq(InvoiceRecord) /\ Built(c) \in InvoiceRecord
  BY BuiltType DEF TypeOK
<1>2. CASE s = req[c].scope
  <2>1. invoices'[s] = Append(invoices[s], Built(c))
    BY <1>2 DEF Appends, TypeOK
  <2>2. /\ Len(invoices'[s]) = Len(invoices[s]) + 1
        /\ \A i \in DOMAIN invoices[s] : invoices'[s][i] = invoices[s][i]
        /\ \A i \in DOMAIN invoices'[s] :
             \/ i \in DOMAIN invoices[s]
             \/ i = Len(invoices[s]) + 1 /\ invoices'[s][i] = Built(c)
    BY <1>1, <2>1
  <2>3. \A i \in DOMAIN invoices'[s] :
          \/ i \in DOMAIN invoices[s]
          \/ /\ Appends(c) /\ s = req[c].scope
             /\ i = Len(invoices[s]) + 1 /\ invoices'[s][i] = Built(c)
    BY <1>2, <2>2
  <2>4. Len(invoices'[s]) >= Len(invoices[s])
    BY <1>1, <2>2
  <2>5. \A i \in DOMAIN invoices[s] :
          SameDocument(invoices'[s][i], invoices[s][i])
    BY <2>2 DEF SameDocument
  <2>6. QED
    BY <2>3, <2>4, <2>5 DEF RecordsKept
<1>3. CASE s # req[c].scope
  <2>1. invoices'[s] = invoices[s]
    BY <1>3 DEF Appends, TypeOK
  <2>2. QED
    BY <1>1, <2>1 DEF RecordsKept, SameDocument
<1>4. QED
  BY <1>2, <1>3

\* A status update leaves the number, the places and the documents of the
\* records of every scope alone.
LEMMA StatusKeeps ==
    ASSUME TypeOK, NEW s0 \in Scope, NEW st \in Status,
           NEW i0 \in DOMAIN invoices[s0], updateInvoiceStatus(s0, i0, st),
           NEW s \in Scope
    PROVE  RecordsKept(s) /\ Len(invoices'[s]) = Len(invoices[s])
<1>1. /\ invoices[s] \in Seq(InvoiceRecord)
      /\ \A i \in DOMAIN invoices[s] : invoices[s][i] \in InvoiceRecord
  BY DEF TypeOK
<1>2. invoices'[s] = IF s = s0
        THEN [invoices[s] EXCEPT ![i0] = WithStatus(invoices[s][i0], st)]
        ELSE invoices[s]
  BY DEF updateInvoiceStatus, TypeOK
<1>3. DOMAIN invoices'[s] = DOMAIN invoices[s]
      /\ Len(invoices'[s]) = Len(invoices[s])
  BY <1>1, <1>2
<1>4. \A i \in DOMAIN invoices[s] :
        SameDocument(invoices'[s][i], invoices[s][i])
  BY <1>1, <1>2, StatusOnly DEF SameDocument
<1>5. QED
  BY <1>1, <1>3, <1>4 DEF RecordsKept

\* How a step may change the records of a scope: not at all, by the status of
\* one of them, or by the record a building call appends.
LEMMA RecordsStep ==
    ASSUME TypeOK, [Next]_vars
    PROVE  \A s \in Scope : RecordsKept(s)
<1> USE DEF store, local
<1>1. CASE invoices' = invoices
  BY <1>1 DEF RecordsKept, SameDocument, TypeOK
<1>2. ASSUME NEW c \in Call, NEW ack \in BOOLEAN, recordInvoice(c, ack)
      PROVE  \A s \in Scope : RecordsKept(s)
  BY <1>1, <1>2, RecordCases, AppendKeeps DEF Refuses
<1>3. ASSUME NEW s0 \in Scope, NEW st \in Status,
             NEW i0 \in DOMAIN invoices[s0], updateInvoiceStatus(s0, i0, st)
      PROVE  \A s \in Scope : RecordsKept(s)
  BY <1>3, StatusKeeps
<1>4. QED
  BY <1>1, <1>2, <1>3
     DEF Next, IssueStep, issueInvoice, Reject, incrementCounter,
         getPreviousHash, Abort, NextMonth, vars

\* What any step does to the local state of a call.
LocalKept(c) ==
    /\ req'[c] = req[c]
    /\ pc[c] # "linking" => /\ readAt'[c] = readAt[c]
                            /\ previousInvoiceHash'[c] = previousInvoiceHash[c]
    /\ pc[c] \in Ended => /\ pc'[c] = pc[c]
                          /\ yearMonth'[c] = yearMonth[c]
                          /\ sequence'[c] = sequence[c]
    /\ pc'[c] = "building" =>
         \/ pc[c] = "building"
         \/ getPreviousHash(c)
         \/ req[c].kind \notin Phase2Kind
    /\ pc'[c] = "done" => \/ pc[c] = "done"
                          \/ Appends(c)
                          \/ Refuses(c)

\* What no step takes back: a call's arguments, what a building call has read
\* and the end of an ended call.
LEMMA LocalStep ==
    ASSUME TypeOK, [Next]_vars, NEW c \in Call
    PROVE  LocalKept(c)
<1> USE DEF store, local, LocalKept, TypeOK, Running, Ended
<1>1. ASSUME NEW d \in Call, IssueStep(d) PROVE LocalKept(c)
  <2>1. CASE issueInvoice(d)
    BY <2>1 DEF issueInvoice
  <2>2. CASE Reject(d)
    BY <2>2 DEF Reject
  <2>3. CASE incrementCounter(d)
    BY <2>3 DEF incrementCounter, AfterCounter
  <2>4. CASE getPreviousHash(d)
    BY <2>4 DEF getPreviousHash
  <2>5. ASSUME NEW ack \in BOOLEAN, recordInvoice(d, ack) PROVE LocalKept(c)
    <3>1. CASE d = c
      BY <2>5, <3>1, RecordCases DEF Appends, Refuses
    <3>2. CASE d # c
      BY <2>5, <3>2, RecordCases DEF Appends, Refuses
    <3>3. QED
      BY <3>1, <3>2
  <2>6. CASE Abort(d)
    BY <2>6 DEF Abort
  <2>7. QED
    BY <1>1, <2>1, <2>2, <2>3, <2>4, <2>5, <2>6 DEF IssueStep
<1>2. ASSUME NEW s \in Scope, NEW st \in Status, NEW i \in DOMAIN invoices[s],
             updateInvoiceStatus(s, i, st)
      PROVE  LocalKept(c)
  BY <1>2 DEF updateInvoiceStatus
<1>3. CASE NextMonth
  BY <1>3 DEF NextMonth
<1>4. CASE UNCHANGED vars
  BY <1>4 DEF vars
<1>5. QED
  BY <1>1, <1>2, <1>3, <1>4 DEF Next

\* The heads getPreviousHash serves follow recordInvoice.
LEMMA HeadsNext == TypeOK /\ HeadIsNewest /\ [Next]_vars => HeadIsNewest'
<1> SUFFICES ASSUME TypeOK, HeadIsNewest, [Next]_vars,
                    NEW s \in Scope, NEW k \in Kind \cup {AnyKind}
             PROVE  IsHead(invoices'[s], Len(invoices'[s]), k,
                           chainHead'[<<s, k>>])
  BY DEF HeadIsNewest
<1>1. /\ invoices[s] \in Seq(InvoiceRecord)
      /\ Len(invoices[s]) \in Nat
      /\ IsHead(invoices[s], Len(invoices[s]), k, chainHead[<<s, k>>])
  BY DEF TypeOK, HeadIsNewest
<1>2. CASE invoices'[s] = invoices[s] /\ chainHead'[<<s, k>>] = chainHead[<<s, k>>]
  BY <1>1, <1>2
<1>3. ASSUME NEW c \in Call, Appends(c)
      PROVE  IsHead(invoices'[s], Len(invoices'[s]), k, chainHead'[<<s, k>>])
  <2> DEFINE r == Built(c)
  <2>1. r \in InvoiceRecord
    BY BuiltType
  <2>2. <<s, k>> \in DOMAIN chainHead
    BY DEF TypeOK
  <2>3. CASE s # req[c].scope
    <3>1. invoices'[s] = invoices[s]
      BY <1>3, <2>3 DEF Appends, TypeOK
    <3>2. chainHead'[<<s, k>>] = chainHead[<<s, k>>]
      BY <1>3, <2>2, <2>3 DEF Appends
    <3>3. QED
      BY <1>2, <3>1, <3>2
  <2>4. CASE s = req[c].scope
    <3>1. /\ invoices'[s] = Append(invoices[s], r)
          /\ Len(invoices'[s]) = Len(invoices[s]) + 1
      BY <1>1, <1>3, <2>1, <2>4 DEF Appends, TypeOK
    <3>2. chainHead'[<<s, k>>] = IF Selects(k, r) THEN r.invoiceHash
                                 ELSE chainHead[<<s, k>>]
      BY <1>3, <2>2, <2>4 DEF Appends, Selects
    <3>3. CASE Selects(k, r)
      BY <1>1, <2>1, <3>1, <3>2, <3>3, AppendedIsHead
    <3>4. CASE ~Selects(k, r)
      BY <1>1, <2>1, <3>1, <3>2, <3>4, AppendedElsewhere
    <3>5. QED
      BY <3>3, <3>4
  <2>5. QED
    BY <2>3, <2>4
<1>4. ASSUME NEW c \in Call, NEW ack \in BOOLEAN, recordInvoice(c, ack)
      PROVE  IsHead(invoices'[s], Len(invoices'[s]), k, chainHead'[<<s, k>>])
  BY <1>2, <1>3, <1>4, RecordCases DEF Refuses, store
<1>5. ASSUME NEW s0 \in Scope, NEW st \in Status,
             NEW i0 \in DOMAIN invoices[s0], updateInvoiceStatus(s0, i0, st)
      PROVE  IsHead(invoices'[s], Len(invoices'[s]), k, chainHead'[<<s, k>>])
  <2>1. RecordsKept(s) /\ Len(invoices'[s]) = Len(invoices[s])
    BY <1>5, StatusKeeps
  <2>2. \A i \in 1 .. Len(invoices[s]) :
          /\ invoices'[s][i].kind = invoices[s][i].kind
          /\ invoices'[s][i].invoiceHash = invoices[s][i].invoiceHash
    BY <1>1, <2>1 DEF RecordsKept, SameDocument
  <2>3. chainHead' = chainHead
    BY <1>5 DEF updateInvoiceStatus
  <2>4. QED
    BY <1>1, <2>1, <2>2, <2>3, HeadDependsOnPrefix
<1>6. QED
  BY <1>2, <1>4, <1>5
     DEF Next, IssueStep, issueInvoice, Reject, incrementCounter,
         getPreviousHash, Abort, NextMonth, vars, store, local

\* A head of the first n records stays the head of the first n records.
LEMMA HeadStable ==
    ASSUME TypeOK, [Next]_vars, NEW s \in Scope, NEW n \in Nat,
           n <= Len(invoices[s]), NEW k, NEW h, IsHead(invoices[s], n, k, h)
    PROVE  IsHead(invoices'[s], n, k, h)
<1>1. RecordsKept(s) /\ DOMAIN invoices[s] = 1 .. Len(invoices[s])
      /\ Len(invoices[s]) \in Nat
  BY RecordsStep DEF TypeOK
<1>2. \A i \in 1 .. n : /\ invoices'[s][i].kind = invoices[s][i].kind
                        /\ invoices'[s][i].invoiceHash
                             = invoices[s][i].invoiceHash
  BY <1>1 DEF RecordsKept, SameDocument
<1>3. QED
  BY <1>2, HeadDependsOnPrefix

\* What a building call read stays the head of the records it then saw.
LEMMA ReadsNext ==
    TypeOK /\ HeadIsNewest /\ ReadsAreHeads /\ [Next]_vars => ReadsAreHeads'
<1> SUFFICES ASSUME TypeOK, HeadIsNewest, ReadsAreHeads, [Next]_vars,
                    NEW c \in Call, pc'[c] = "building",
                    req'[c].kind \in Phase2Kind
             PROVE  /\ readAt'[c] <= Len(invoices'[req'[c].scope])
                    /\ IsHead(invoices'[req'[c].scope], readAt'[c],
                              req'[c].kind, previousInvoiceHash'[c])
  BY DEF ReadsAreHeads
<1> DEFINE s == req[c].scope
<1>1. LocalKept(c) /\ s \in Scope
  BY LocalStep DEF TypeOK, Request
<1>2. /\ Len(invoices[s]) \in Nat /\ Len(invoices'[s]) \in Nat
      /\ Len(invoices'[s]) >= Len(invoices[s])
  BY <1>1, RecordsStep, TypeNext DEF RecordsKept, TypeOK
<1>3. CASE pc[c] = "building"
  <2>1. /\ readAt[c] \in Nat /\ readAt[c] <= Len(invoices[s])
        /\ IsHead(invoices[s], readAt[c], req[c].kind, previousInvoiceHash[c])
    BY <1>1, <1>3 DEF ReadsAreHeads, LocalKept, TypeOK
  <2>2. IsHead(invoices'[s], readAt[c], req[c].kind, previousInvoiceHash[c])
    BY <1>1, <2>1, HeadStable
  <2>3. QED
    BY <1>1, <1>2, <1>3, <2>1, <2>2 DEF LocalKept
<1>4. CASE getPreviousHash(c)
  <2>1. /\ invoices' = invoices
        /\ readAt'[c] = Len(invoices[s])
        /\ previousInvoiceHash'[c] = chainHead[<<s, req[c].kind>>]
        /\ req' = req
    BY <1>4 DEF getPreviousHash, TypeOK, store
  <2>2. req[c].kind \in Kind
    BY DEF TypeOK, Request
  <2>3. QED
    BY <1>1, <1>2, <2>1, <2>2 DEF HeadIsNewest
<1>5. QED
  BY <1>1, <1>3, <1>4 DEF LocalKept

\* A document is recorded once, by the step that ends its call.
LEMMA StoredNext == TypeOK /\ StoredOnce /\ [Next]_vars => StoredOnce'
<1> SUFFICES ASSUME TypeOK, StoredOnce, [Next]_vars, NEW s \in Scope,
                    NEW i \in DOMAIN invoices'[s],
                    invoices'[s][i].kind \in Phase2Kind
             PROVE  /\ invoices'[s][i].invoiceHash \in Call
                    /\ pc'[invoices'[s][i].invoiceHash] \in Ended
                    /\ \A j \in DOMAIN invoices'[s] :
                         /\ invoices'[s][j].kind \in Phase2Kind
                         /\ invoices'[s][j].invoiceHash
                              = invoices'[s][i].invoiceHash
                         => i = j
  BY DEF StoredOnce
<1>1. RecordsKept(s)
  BY RecordsStep
<1>2. ASSUME NEW j \in DOMAIN invoices[s],
             invoices'[s][j].kind \in Phase2Kind
      PROVE  /\ invoices'[s][j].invoiceHash = invoices[s][j].invoiceHash
             /\ invoices[s][j].kind \in Phase2Kind
             /\ invoices'[s][j].invoiceHash \in Call
             /\ pc[invoices'[s][j].invoiceHash] \in Ended
             /\ pc'[invoices'[s][j].invoiceHash] \in Ended
  BY <1>1, <1>2, LocalStep DEF RecordsKept, SameDocument, StoredOnce, LocalKept
<1>3. ASSUME NEW j \in DOMAIN invoices'[s], j \notin DOMAIN invoices[s],
             invoices'[s][j].kind \in Phase2Kind
      PROVE  /\ j = Len(invoices[s]) + 1
             /\ invoices'[s][j].invoiceHash \in Call
             /\ pc[invoices'[s][j].invoiceHash] = "building"
             /\ pc'[invoices'[s][j].invoiceHash] \in Ended
  <2>1. PICK c \in Call : /\ Appends(c)
                          /\ j = Len(invoices[s]) + 1
                          /\ invoices'[s][j] = Built(c)
    BY <1>1, <1>3 DEF RecordsKept
  <2>2. invoices'[s][j].invoiceHash = c
    BY <1>3, <2>1 DEF Built
  <2>3. QED
    BY <2>1, <2>2 DEF Appends, Ended, TypeOK
<1>4. \A j \in DOMAIN invoices'[s] :
        /\ invoices'[s][j].kind \in Phase2Kind
        /\ invoices'[s][j].invoiceHash = invoices'[s][i].invoiceHash
        => i = j
  <2> SUFFICES ASSUME NEW j \in DOMAIN invoices'[s],
                      invoices'[s][j].kind \in Phase2Kind,
                      invoices'[s][j].invoiceHash = invoices'[s][i].invoiceHash
               PROVE  i = j
    OBVIOUS
  <2>1. CASE i \in DOMAIN invoices[s] /\ j \in DOMAIN invoices[s]
    BY <1>2, <2>1 DEF StoredOnce
  <2>2. CASE i \notin DOMAIN invoices[s] /\ j \notin DOMAIN invoices[s]
    BY <1>3, <2>2
  <2>3. "building" \notin Ended
    BY DEF Ended
  <2>4. QED
    BY <1>2, <1>3, <2>1, <2>2, <2>3
<1>5. QED
  BY <1>2, <1>3, <1>4

\* A stored document's link stays the head its issuer was served.
LEMMA LinksNext ==
    /\ TypeOK /\ StoredOnce /\ ReadsAreHeads /\ LinkIsSnapshot
    /\ [Next]_vars
    => LinkIsSnapshot'
<1> SUFFICES ASSUME TypeOK, StoredOnce, ReadsAreHeads, LinkIsSnapshot,
                    [Next]_vars, NEW s \in Scope,
                    NEW i \in DOMAIN invoices'[s],
                    invoices'[s][i].kind \in Phase2Kind
             PROVE  /\ invoices'[s][i].invoiceHash \in Call
                    /\ readAt'[invoices'[s][i].invoiceHash] < i
                    /\ IsHead(invoices'[s],
                              readAt'[invoices'[s][i].invoiceHash],
                              invoices'[s][i].kind,
                              invoices'[s][i].previousInvoiceHash)
  BY DEF LinkIsSnapshot
<1>1. /\ RecordsKept(s)
      /\ Len(invoices[s]) \in Nat
      /\ DOMAIN invoices[s] = 1 .. Len(invoices[s])
  BY RecordsStep DEF TypeOK
<1>2. CASE i \in DOMAIN invoices[s]
  <2> DEFINE r == invoices[s][i]
             h == r.invoiceHash
  <2>1. SameDocument(invoices'[s][i], r)
    BY <1>1, <1>2 DEF RecordsKept
  <2>2. /\ h \in Call /\ pc[h] \in Ended /\ readAt[h] < i
        /\ IsHead(invoices[s], readAt[h], r.kind, r.previousInvoiceHash)
    BY <1>2, <2>1 DEF SameDocument, StoredOnce, LinkIsSnapshot
  <2>3. readAt'[h] = readAt[h] /\ readAt[h] \in Nat
    BY <2>2, LocalStep DEF LocalKept, Ended, TypeOK
  <2>4. readAt[h] <= Len(invoices[s])
    BY <1>1, <1>2, <2>2, <2>3
  <2>5. IsHead(invoices'[s], readAt[h], r.kind, r.previousInvoiceHash)
    BY <2>2, <2>3, <2>4, HeadStable
  <2>6. QED
    BY <2>1, <2>2, <2>3, <2>5 DEF SameDocument
<1>3. CASE i \notin DOMAIN invoices[s]
  <2>1. PICK c \in Call : /\ Appends(c)
                          /\ s = req[c].scope
                          /\ i = Len(invoices[s]) + 1
                          /\ invoices'[s][i] = Built(c)
    BY <1>1, <1>3 DEF RecordsKept
  <2>2. /\ invoices'[s][i].invoiceHash = c
        /\ invoices'[s][i].kind = req[c].kind
        /\ invoices'[s][i].previousInvoiceHash = previousInvoiceHash[c]
    BY <2>1 DEF Built
  <2>3. /\ readAt'[c] = readAt[c] /\ readAt[c] \in Nat
        /\ pc[c] = "building"
    BY <2>1 DEF Appends, TypeOK
  <2>4. /\ readAt[c] <= Len(invoices[s])
        /\ IsHead(invoices[s], readAt[c], req[c].kind, previousInvoiceHash[c])
    BY <2>1, <2>2, <2>3 DEF ReadsAreHeads
  <2>5. IsHead(invoices'[s], readAt[c], req[c].kind, previousInvoiceHash[c])
    BY <2>3, <2>4, HeadStable
  <2>6. QED
    BY <1>1, <2>1, <2>2, <2>3, <2>4, <2>5
<1>4. QED
  BY <1>2, <1>3

\* The record a returned call relies on is never removed or replaced.
LEMMA DoneNext == TypeOK /\ DoneIsRecorded /\ [Next]_vars => DoneIsRecorded'
<1> SUFFICES ASSUME TypeOK, DoneIsRecorded, [Next]_vars,
                    NEW c \in Call, pc'[c] = "done"
             PROVE  \E i \in DOMAIN invoices'[req'[c].scope] :
                      LET r == invoices'[req'[c].scope][i]
                      IN  /\ r.invoiceId = req'[c].invoiceId
                          /\ r.kind = req'[c].kind
                          /\ r.yearMonth = yearMonth'[c]
                          /\ r.counterNumber = sequence'[c]
  BY DEF DoneIsRecorded
<1> DEFINE s == req[c].scope
<1>1. /\ LocalKept(c) /\ s \in Scope /\ req'[c] = req[c]
  BY LocalStep DEF LocalKept, TypeOK, Request
<1>2. /\ RecordsKept(s)
      /\ \A i \in DOMAIN invoices[s] : i \in DOMAIN invoices'[s]
  <2>1. invoices[s] \in Seq(InvoiceRecord) /\ invoices'[s] \in Seq(InvoiceRecord)
    BY <1>1, TypeNext DEF TypeOK
  <2>2. QED
    BY <1>1, <2>1, RecordsStep DEF RecordsKept
<1>3. CASE pc[c] = "done"
  <2>1. PICK i \in DOMAIN invoices[s] :
          /\ invoices[s][i].invoiceId = req[c].invoiceId
          /\ invoices[s][i].kind = req[c].kind
          /\ invoices[s][i].yearMonth = yearMonth[c]
          /\ invoices[s][i].counterNumber = sequence[c]
    BY <1>3 DEF DoneIsRecorded
  <2>2. yearMonth'[c] = yearMonth[c] /\ sequence'[c] = sequence[c]
    BY <1>1, <1>3 DEF LocalKept, Ended
  <2>3. QED
    BY <1>1, <1>2, <2>1, <2>2 DEF RecordsKept, SameDocument
<1>4. ASSUME NEW i \in DOMAIN invoices'[s], invoices'[s][i] = Built(c),
             UNCHANGED <<yearMonth, sequence>>
      PROVE  \E j \in DOMAIN invoices'[req'[c].scope] :
               LET r == invoices'[req'[c].scope][j]
               IN  /\ r.invoiceId = req'[c].invoiceId
                   /\ r.kind = req'[c].kind
                   /\ r.yearMonth = yearMonth'[c]
                   /\ r.counterNumber = sequence'[c]
  BY <1>1, <1>4 DEF Built
<1>5. CASE Appends(c)
  <2>1. /\ invoices'[s] = Append(invoices[s], Built(c))
        /\ invoices[s] \in Seq(InvoiceRecord)
    BY <1>1, <1>5 DEF Appends, TypeOK
  <2>2. /\ Len(invoices[s]) + 1 \in DOMAIN invoices'[s]
        /\ invoices'[s][Len(invoices[s]) + 1] = Built(c)
    BY <2>1
  <2>3. UNCHANGED <<yearMonth, sequence>>
    BY <1>5 DEF Appends
  <2>4. QED
    BY <1>4, <2>2, <2>3
<1>6. CASE Refuses(c)
  <2>1. PICK i \in DOMAIN invoices[s] : invoices[s][i] = Built(c)
    BY <1>6 DEF Refuses, Stored
  <2>2. invoices' = invoices /\ UNCHANGED <<yearMonth, sequence>>
    BY <1>6 DEF Refuses, store
  <2>3. QED
    BY <1>4, <2>1, <2>2
<1>7. QED
  BY <1>1, <1>3, <1>5, <1>6 DEF LocalKept

\* The inductive invariant holds initially.
LEMMA InvInit == Init => IInv
<1> SUFFICES ASSUME Init PROVE IInv
  OBVIOUS
<1>1. TypeOK
  BY TypeInit
<1>2. \A s \in Scope : invoices[s] = <<>>
  BY DEF Init
<1>3. \A s \in Scope, m \in Month :
        Claimants(s, m) = {} /\ counters[<<s, m>>] = 0
  BY DEF Init, Claimants
<1>4. SerialsUnique /\ NoNumberSkipped
  <2>1. 1 .. 0 = {}
    OBVIOUS
  <2>2. \A s \in Scope, m \in Month :
          {sequence[c] : c \in Claimants(s, m)} = {}
    BY <1>3
  <2>3. NoNumberSkipped
    BY <1>3, <2>1, <2>2 DEF NoNumberSkipped
  <2>4. QED
    BY <1>3, <2>3 DEF SerialsUnique
<1>5. HeadIsNewest
  BY <1>2 DEF Init, HeadIsNewest, IsHead
<1>6. CallsSound /\ ReadsAreHeads /\ DoneIsRecorded
  BY DEF Init, CallsSound, ReadsAreHeads, DoneIsRecorded, Running
<1>7. StoredOnce /\ LinkIsSnapshot
  BY <1>2 DEF StoredOnce, LinkIsSnapshot
<1>8. QED
  BY <1>1, <1>4, <1>5, <1>6, <1>7 DEF IInv

\* Every step preserves the inductive invariant.
LEMMA InvNext == IInv /\ [Next]_vars => IInv'
BY TypeNext, CallsSoundNext, CountersNext, HeadsNext, ReadsNext, StoredNext,
   LinksNext, DoneNext
   DEF IInv

-----------------------------------------------------------------------------
(* The theorems. *)

\* The inductive invariant holds in every reachable state.
THEOREM Invariance == Spec => []IInv
BY InvInit, InvNext, PTL DEF Spec

\* However issue calls of any number interleave, fail or crash, no two of them
\* print the same serial, and every number a counter row handed out belongs to
\* one of them.
THEOREM NumbersExact == Spec => [](SerialsUnique /\ NoNumberSkipped)
<1>1. IInv => SerialsUnique /\ NoNumberSkipped
  BY DEF IInv
<1>2. QED
  BY <1>1, Invariance, PTL

\* getPreviousHash always serves the hash of the newest stored document of the
\* kind, and every stored document embeds the one its issuer was served.
THEOREM ChainLinks == Spec => [](HeadIsNewest /\ LinkIsSnapshot)
<1>1. IInv => HeadIsNewest /\ LinkIsSnapshot
  BY DEF IInv
<1>2. QED
  BY <1>1, Invariance, PTL

\* An issue call that returned has its own document stored under its invoiceId,
\* however many calls were given the same one.
THEOREM ReturnedIsStored == Spec => []DoneIsRecorded
<1>1. IInv => DoneIsRecorded
  BY DEF IInv
<1>2. QED
  BY <1>1, Invariance, PTL

\* Chains fork by overlapping calls only.
LEMMA OverlapFromInv == IInv => ForkNeedsOverlap
<1> SUFFICES ASSUME IInv, NEW s \in Scope,
                    NEW i \in DOMAIN invoices[s], NEW j \in DOMAIN invoices[s],
                    i < j, invoices[s][i].kind = invoices[s][j].kind,
                    invoices[s][i].kind \in Phase2Kind,
                    invoices[s][i].previousInvoiceHash
                      = invoices[s][j].previousInvoiceHash
             PROVE  readAt[invoices[s][j].invoiceHash] < i
  BY DEF ForkNeedsOverlap
<1> DEFINE log == invoices[s]
           k == log[i].kind
           p == log[i].previousInvoiceHash
           m == readAt[log[i].invoiceHash]
           n == readAt[log[j].invoiceHash]
<1>1. /\ DOMAIN log = 1 .. Len(log) /\ Len(log) \in Nat
      /\ k \in Kind
  <2>1. invoices[s] \in Seq(InvoiceRecord)
    BY DEF IInv, TypeOK
  <2>2. QED
    BY <2>1 DEF Kind
<1>2. k # AnyKind /\ BaseHash \notin Call
  BY <1>1, ConstantsAssumption
<1>3. /\ log[i].invoiceHash \in Call /\ log[j].invoiceHash \in Call
      /\ m < i /\ n < j
      /\ IsHead(log, m, k, p) /\ IsHead(log, n, k, p)
  BY DEF IInv, LinkIsSnapshot
<1>4. m \in Nat /\ n \in Nat
  BY <1>3 DEF IInv, TypeOK
<1>5. \A x \in 1 .. Len(log) : log[x].kind = k => log[x].invoiceHash \in Call
  BY <1>1 DEF IInv, StoredOnce
<1>6. \A x, y \in 1 .. Len(log) :
        /\ log[x].kind = k /\ log[y].kind = k
        /\ log[x].invoiceHash = log[y].invoiceHash
        => x = y
  BY <1>1 DEF IInv, StoredOnce
<1>7. SUFFICES ASSUME n >= i PROVE FALSE
  BY <1>1, <1>4
<1>8. i \in 1 .. n /\ Selects(k, log[i])
  BY <1>1, <1>4, <1>7 DEF Selects
<1>9. PICK x \in 1 .. n : /\ Selects(k, log[x])
                          /\ p = log[x].invoiceHash
                          /\ \A y \in 1 .. n : y > x => ~Selects(k, log[y])
  BY <1>3, <1>8 DEF IsHead
<1>10. x \in 1 .. Len(log) /\ x >= i /\ log[x].kind = k
  BY <1>1, <1>2, <1>3, <1>4, <1>8, <1>9 DEF Selects
<1>11. p # BaseHash
  BY <1>2, <1>5, <1>9, <1>10
<1>12. PICK y \in 1 .. m : Selects(k, log[y]) /\ p = log[y].invoiceHash
  BY <1>3, <1>11 DEF IsHead
<1>13. y \in 1 .. Len(log) /\ y < i /\ log[y].kind = k
  BY <1>1, <1>2, <1>3, <1>4, <1>12 DEF Selects
<1>14. x = y
  BY <1>6, <1>9, <1>10, <1>12, <1>13
<1>15. QED
  BY <1>1, <1>10, <1>13, <1>14

\* Two documents of one chain share a predecessor only if their issuers
\* overlapped: issuing one document at a time per scope and kind gives a
\* linear chain.
THEOREM ForksExplained == Spec => []ForkNeedsOverlap
BY OverlapFromInv, Invariance, PTL

\* A record is determined by its document and its status.
LEMMA DocumentAndStatus ==
    ASSUME NEW q \in InvoiceRecord, NEW r \in InvoiceRecord, SameDocument(q, r)
    PROVE  q = WithStatus(r, q.status)
<1>1. q.status \in Status
  BY DEF InvoiceRecord
<1>2. WithStatus(r, q.status) \in InvoiceRecord
  BY <1>1, StatusOnly
<1>3. SameDocument(q, WithStatus(r, q.status))
      /\ WithStatus(r, q.status).status = q.status
  BY <1>1, StatusOnly DEF SameDocument
<1>4. \A w \in InvoiceRecord : SameDocument(q, w) /\ w.status = q.status => q = w
  BY DEF InvoiceRecord, SameDocument
<1>5. QED
  BY <1>2, <1>3, <1>4

\* A stored record is never moved, removed or rewritten but for its status.
THEOREM RecordsNeverRewritten == Spec => RecordsImmutable
<1>1. ASSUME TypeOK, [Next]_vars
      PROVE  [\A s \in Scope : \A i \in DOMAIN invoices[s] :
                /\ i \in DOMAIN invoices'[s]
                /\ invoices'[s][i]
                     = WithStatus(invoices[s][i], invoices'[s][i].status)]_vars
  <2> SUFFICES ASSUME NEW s \in Scope, NEW i \in DOMAIN invoices[s]
               PROVE  /\ i \in DOMAIN invoices'[s]
                      /\ invoices'[s][i] = WithStatus(invoices[s][i],
                                                      invoices'[s][i].status)
    OBVIOUS
  <2>1. invoices[s] \in Seq(InvoiceRecord) /\ invoices'[s] \in Seq(InvoiceRecord)
    BY <1>1, TypeNext DEF TypeOK
  <2>2. RecordsKept(s)
    BY <1>1, RecordsStep
  <2>3. i \in DOMAIN invoices'[s]
    BY <2>1, <2>2 DEF RecordsKept
  <2>4. invoices[s][i] \in InvoiceRecord /\ invoices'[s][i] \in InvoiceRecord
    BY <2>1, <2>3
  <2>5. SameDocument(invoices'[s][i], invoices[s][i])
    BY <2>2 DEF RecordsKept
  <2>6. QED
    BY <2>3, <2>4, <2>5, DocumentAndStatus
<1>2. QED
  BY <1>1, TypeCorrect, PTL DEF Spec, RecordsImmutable
=============================================================================
