----------------------- MODULE RecordInvoice_proofs -----------------------
(***************************************************************************)
(* Proofs about RecordInvoice for any number of calls, ids and documents:  *)
(* the three-query protocol implements the atomic store, and the head of   *)
(* the chain lags only behind overlapping calls.                           *)
(***************************************************************************)
EXTENDS RecordInvoice, TLAPS

\* The initial states satisfy the inductive invariant.
LEMMA InvInit == Init => IInv
  BY RecordAssumption
     DEF RecordAssumption, Init, IInv, TypeOK, WinnerExists, AckedIsStored,
         StampsFollow, Rows, Waiting, Ended

\* Every step keeps the table and the calls well typed.
LEMMA TypeNext == TypeOK /\ [Next]_vars => TypeOK'
<1> SUFFICES ASSUME TypeOK, [Next]_vars PROVE TypeOK'
  OBVIOUS
<1> USE RecordAssumption DEF RecordAssumption, TypeOK, table, Waiting, Ended
<1>1. ASSUME NEW c \in Call, recordInvoice(c) PROVE TypeOK'
  BY <1>1 DEF recordInvoice
<1>2. ASSUME NEW c \in Call, SelectExisting(c) PROVE TypeOK'
  <2>1. CASE document[args[c].id] # NoDoc
    <3>1. Verdict(c) \in Ended
      BY DEF Verdict
    <3>2. QED
      BY <1>2, <2>1, <3>1 DEF SelectExisting
  <2>2. CASE document[args[c].id] = NoDoc
    BY <1>2, <2>2 DEF SelectExisting
  <2>3. QED
    BY <2>1, <2>2
<1>3. ASSUME NEW c \in Call, NEW answer \in {"ok", "error"},
             InsertRow(c, answer)
      PROVE  TypeOK'
  BY <1>3 DEF InsertRow
<1>4. ASSUME NEW c \in Call, UniqueViolation(c) PROVE TypeOK'
  BY <1>4 DEF UniqueViolation
<1>5. ASSUME NEW c \in Call, RereadWinner(c) PROVE TypeOK'
  BY <1>5 DEF RereadWinner, Verdict
<1>6. ASSUME NEW c \in Call, QueryFails(c) PROVE TypeOK'
  BY <1>6 DEF QueryFails
<1>7. ASSUME NEW i \in Id, NEW st \in Status, updateInvoiceStatus(i, st)
      PROVE  TypeOK'
  BY <1>7 DEF updateInvoiceStatus
<1>8. CASE Tick
  BY <1>8 DEF Tick
<1>9. CASE UNCHANGED vars
  BY <1>9 DEF vars
<1>10. QED
  BY <1>1, <1>2, <1>3, <1>4, <1>5, <1>6, <1>7, <1>8, <1>9 DEF Next, QueryStep

\* A row is never removed or replaced, so a refused INSERT keeps its winner
\* and an acknowledged document stays.
LEMMA RowsStay ==
    TypeOK /\ [Next]_vars =>
        /\ args' = args
        /\ \A i \in Id : document[i] # NoDoc => document'[i] = document[i]
<1> SUFFICES ASSUME TypeOK, [Next]_vars
             PROVE  /\ args' = args
                    /\ \A i \in Id : document[i] # NoDoc
                                       => document'[i] = document[i]
  OBVIOUS
<1> USE DEF table
<1>1. ASSUME NEW c \in Call, NEW answer \in {"ok", "error"},
             InsertRow(c, answer)
      PROVE  /\ args' = args
             /\ \A i \in Id : document[i] # NoDoc
                                => document'[i] = document[i]
  BY <1>1 DEF InsertRow, TypeOK
<1>2. QED
  BY <1>1
     DEF Next, QueryStep, recordInvoice, SelectExisting, UniqueViolation,
         RereadWinner, QueryFails, updateInvoiceStatus, Tick, vars

\* The calls' view of the table: winners exist, acknowledged documents are
\* stored.
LEMMA CallsNext ==
    IInv /\ [Next]_vars => WinnerExists' /\ AckedIsStored'
<1> SUFFICES ASSUME IInv, [Next]_vars PROVE WinnerExists' /\ AckedIsStored'
  OBVIOUS
<1> USE RecordAssumption
    DEF RecordAssumption, IInv, TypeOK, WinnerExists, AckedIsStored, table
<1>0. /\ args' = args
      /\ \A i \in Id : document[i] # NoDoc => document'[i] = document[i]
  BY RowsStay
<1>1. ASSUME NEW c \in Call, recordInvoice(c)
      PROVE  WinnerExists' /\ AckedIsStored'
  BY <1>1 DEF recordInvoice
<1>2. ASSUME NEW c \in Call, SelectExisting(c)
      PROVE  WinnerExists' /\ AckedIsStored'
  BY <1>2 DEF SelectExisting, Verdict, recordsEqual
<1>3. ASSUME NEW c \in Call, NEW answer \in {"ok", "error"},
             InsertRow(c, answer)
      PROVE  WinnerExists' /\ AckedIsStored'
  BY <1>0, <1>3 DEF InsertRow
<1>4. ASSUME NEW c \in Call, UniqueViolation(c)
      PROVE  WinnerExists' /\ AckedIsStored'
  BY <1>4 DEF UniqueViolation
<1>5. ASSUME NEW c \in Call, RereadWinner(c)
      PROVE  WinnerExists' /\ AckedIsStored'
  BY <1>5 DEF RereadWinner, Verdict, recordsEqual
<1>6. ASSUME NEW c \in Call, QueryFails(c)
      PROVE  WinnerExists' /\ AckedIsStored'
  BY <1>6 DEF QueryFails
<1>7. CASE UNCHANGED <<args, document, pc>>
  BY <1>7
<1>8. QED
  BY <1>1, <1>2, <1>3, <1>4, <1>5, <1>6, <1>7
     DEF Next, QueryStep, updateInvoiceStatus, Tick, vars

\* Stamps follow the clock: only SelectExisting takes a stamp, when every row
\* it can see is at most as old as the clock, and only InsertRow adds a row.
LEMMA StampsNext == IInv /\ [Next]_vars => StampsFollow'
<1> SUFFICES ASSUME IInv, [Next]_vars PROVE StampsFollow'
  OBVIOUS
<1> USE RecordAssumption
    DEF RecordAssumption, IInv, TypeOK, StampsFollow, Rows, table
<1>1. ASSUME NEW c \in Call, SelectExisting(c) PROVE StampsFollow'
  <2>1. UNCHANGED <<document, createdAt, rowId, rowSeen, rows, clock>>
    BY <1>1 DEF SelectExisting
  <2>2. Rows' = Rows
    BY <2>1
  <2>3. ASSUME NEW d \in Call, pc'[d] = "inserting"
        PROVE  \/ stamp'[d] = clock /\ seen'[d] = rows
               \/ /\ pc[d] = "inserting"
                  /\ stamp'[d] = stamp[d] /\ seen'[d] = seen[d]
    BY <1>1, <2>3 DEF SelectExisting, Verdict
  <2>4. \A i \in Rows : createdAt[i] <= clock
    OBVIOUS
  <2>5. ASSUME NEW d \in Call, pc'[d] = "inserting"
        PROVE  /\ stamp'[d] <= clock /\ seen'[d] <= rows
               /\ \A i \in Rows : rowId[i] <= seen'[d] => createdAt[i] <= stamp'[d]
    <3>1. CASE stamp'[d] = clock /\ seen'[d] = rows
      BY <2>4, <3>1
    <3>2. CASE /\ pc[d] = "inserting"
               /\ stamp'[d] = stamp[d] /\ seen'[d] = seen[d]
      BY <3>2
    <3>3. QED
      BY <2>3, <2>5, <3>1, <3>2
  <2>6. QED
    BY <2>1, <2>2, <2>5
<1>2. ASSUME NEW c \in Call, NEW answer \in {"ok", "error"},
             InsertRow(c, answer)
      PROVE  StampsFollow'
  <2> DEFINE r == args[c].id
  <2>1. /\ r \in Id /\ r \notin Rows /\ Rows' = Rows \cup {r}
        /\ rowId'[r] = rows + 1 /\ rows' = rows + 1 /\ clock' = clock
        /\ createdAt'[r] = stamp[c] /\ rowSeen'[r] = seen[c]
        /\ \A i \in Rows : /\ rowId'[i] = rowId[i] /\ i # r
                           /\ createdAt'[i] = createdAt[i]
                           /\ rowSeen'[i] = rowSeen[i]
        /\ stamp' = stamp /\ seen' = seen
        /\ \A d \in Call : pc'[d] = "inserting" => pc[d] = "inserting"
    BY <1>2 DEF InsertRow
  <2>2. /\ stamp[c] \in 0 .. MaxClock /\ stamp[c] <= clock
        /\ seen[c] \in Nat /\ seen[c] <= rows
        /\ \A i \in Rows : rowId[i] <= seen[c] => createdAt[i] <= stamp[c]
    BY <1>2 DEF InsertRow
  <2>3. \A i \in Rows : rowId[i] <= rows /\ rowSeen[i] < rowId[i]
    OBVIOUS
  <2> HIDE DEF r
  <2>4. \A i \in Rows' : /\ rowId'[i] \in 1 .. rows'
                        /\ rowSeen'[i] < rowId'[i]
                        /\ createdAt'[i] <= clock'
    BY <2>1, <2>2
  <2>5. \A i, j \in Rows' : rowId'[i] = rowId'[j] => i = j
    BY <2>1, <2>3
  <2>6. \A d \in Call : pc'[d] = "inserting" =>
          /\ stamp'[d] <= clock'
          /\ seen'[d] <= rows'
          /\ \A i \in Rows' : rowId'[i] <= seen'[d] => createdAt'[i] <= stamp'[d]
    <3> SUFFICES ASSUME NEW d \in Call, pc'[d] = "inserting"
                 PROVE  /\ stamp'[d] <= clock'
                        /\ seen'[d] <= rows'
                        /\ \A i \in Rows' : rowId'[i] <= seen'[d]
                                             => createdAt'[i] <= stamp'[d]
      OBVIOUS
    <3>1. /\ stamp[d] <= clock /\ seen[d] <= rows /\ seen[d] \in Nat
          /\ \A i \in Rows : rowId[i] <= seen[d] => createdAt[i] <= stamp[d]
      BY <2>1
    <3>2. ~(rowId'[r] <= seen[d])
      BY <2>1, <3>1
    <3>3. QED
      BY <2>1, <3>1, <3>2
  <2>7. \A i, j \in Rows' :
          rowId'[i] <= rowSeen'[j] => createdAt'[i] <= createdAt'[j]
    <3> SUFFICES ASSUME NEW i \in Rows', NEW j \in Rows',
                        rowId'[i] <= rowSeen'[j]
                 PROVE  createdAt'[i] <= createdAt'[j]
      OBVIOUS
    <3>1. CASE i # r /\ j # r
      BY <2>1, <3>1
    <3>2. CASE i # r /\ j = r
      BY <2>1, <2>2, <3>2
    <3>3. CASE i = r /\ j = r
      BY <2>1, <2>2, <3>3
    <3>4. CASE i = r /\ j # r
      BY <2>1, <2>3, <3>4
    <3>5. QED
      BY <3>1, <3>2, <3>3, <3>4
  <2>8. QED
    BY <2>4, <2>5, <2>6, <2>7 DEF StampsFollow
<1>3. ASSUME UNCHANGED <<document, createdAt, rowId, rows, rowSeen>>,
             UNCHANGED <<stamp, seen>>, clock' \in {clock, clock + 1},
             \A c \in Call : pc'[c] = "inserting" => pc[c] = "inserting"
      PROVE  StampsFollow'
  BY <1>3
<1>4. ASSUME NEW c \in Call,
             \/ recordInvoice(c) \/ UniqueViolation(c)
             \/ RereadWinner(c) \/ QueryFails(c)
      PROVE  StampsFollow'
  BY <1>3, <1>4
     DEF recordInvoice, UniqueViolation, RereadWinner, QueryFails, Verdict
<1>5. QED
  BY <1>1, <1>2, <1>3, <1>4
     DEF Next, QueryStep, updateInvoiceStatus, Tick, vars

\* The inductive invariant holds in every reachable state.
THEOREM Invariance == Spec => []IInv
<1>1. IInv /\ [Next]_vars => IInv'
  BY TypeNext, CallsNext, StampsNext DEF IInv
<1>2. QED
  BY InvInit, <1>1, PTL DEF Spec

\* Whatever two calls race for one invoiceId, a call that returned has its own
\* document stored.
THEOREM AckedDocuments == Spec => []AckedIsStored
  BY Invariance, PTL DEF IInv

\* The head served by getPreviousHash misses a later row only if the calls
\* overlapped or, in Mongo, fell into one millisecond.
THEOREM HeadLag == Spec => []HeadLagsByOverlap
<1>1. IInv => HeadLagsByOverlap
  <2> SUFFICES ASSUME IInv, NEW h \in getPreviousHash, NEW i \in Rows,
                      rowId[i] > rowId[h], ~(rowSeen[i] < rowId[h])
               PROVE  ~SortsById /\ createdAt[i] = createdAt[h]
    BY DEF HeadLagsByOverlap
  <2>1. /\ h \in Rows /\ h \in Id /\ i \in Id
        /\ ~(createdAt[i] > createdAt[h])
        /\ createdAt[i] = createdAt[h] => ~SortsById
    BY DEF getPreviousHash, SortsBefore, Rows
  <2>2. /\ createdAt[h] \in Nat /\ createdAt[i] \in Nat
        /\ rowId[h] \in Nat /\ rowSeen[i] \in Nat
    BY <2>1 DEF IInv, TypeOK
  <2>3. createdAt[h] <= createdAt[i]
    BY <2>1, <2>2 DEF IInv, StampsFollow
  <2>4. QED
    BY <2>1, <2>2, <2>3
<1>2. QED
  BY Invariance, <1>1, PTL

(***************************************************************************)
(* The refinement: every step of the three-query protocol is a step of the *)
(* atomic store or leaves it alone.                                        *)
(***************************************************************************)

\* What a step does to one call's result in the store.
LEMMA OutcomeStep ==
    ASSUME TypeOK, NEW c \in Call, NEW s, pc' = [pc EXCEPT ![c] = s]
    PROVE  [d \in Call |-> Outcome(pc'[d])]
             = [[d \in Call |-> Outcome(pc[d])] EXCEPT ![c] = Outcome(s)]
  BY DEF TypeOK

\* The initial states of the protocol are initial states of the store.
LEMMA StoreInit == Init => Store!Init
  BY DEF Init, Store!Init, Outcome, Waiting

\* Under the invariant every step maps to a step of the store or a stutter.
LEMMA StoreNext ==
    IInv /\ [Next]_vars => [Store!Next]_(Store!storeVars)
<1> SUFFICES ASSUME IInv, [Next]_vars
             PROVE  [Store!Next]_(Store!storeVars)
  OBVIOUS
<1> DEFINE result == [d \in Call |-> Outcome(pc[d])]
<1> USE DEF table
<1>1. ASSUME NEW c \in Call, recordInvoice(c) PROVE Store!Begin(c)
  <2>1. /\ result' = [result EXCEPT ![c] = "pending"]
        /\ result[c] \in {"idle", "ok", "error"}
    BY <1>1, OutcomeStep DEF recordInvoice, Outcome, Waiting, IInv, TypeOK
  <2>2. QED
    BY <1>1, <2>1 DEF recordInvoice, Store!Begin
<1>2. ASSUME NEW c \in Call, SelectExisting(c)
      PROVE  Store!Compare(c) \/ UNCHANGED Store!storeVars
  <2>1. CASE document[args[c].id] # NoDoc
    <3>1. Outcome(Verdict(c)) = Verdict(c)
      BY DEF Verdict, Outcome, Waiting
    <3>2. /\ result' = [result EXCEPT ![c] = Verdict(c)]
          /\ result[c] = "pending"
      BY <1>2, <2>1, <3>1, OutcomeStep
         DEF SelectExisting, Outcome, Waiting, IInv, TypeOK
    <3>3. QED
      BY <1>2, <2>1, <3>2
         DEF SelectExisting, Store!Compare, Verdict, recordsEqual
  <2>2. CASE document[args[c].id] = NoDoc
    <3>1. result' = [result EXCEPT ![c] = "pending"] /\ result[c] = "pending"
      BY <1>2, <2>2, OutcomeStep
         DEF SelectExisting, Outcome, Waiting, IInv, TypeOK
    <3>2. result' = result
      BY <3>1
    <3>3. QED
      BY <1>2, <3>2 DEF SelectExisting, Store!storeVars
  <2>3. QED
    BY <2>1, <2>2
<1>3. ASSUME NEW c \in Call, NEW answer \in {"ok", "error"},
             InsertRow(c, answer)
      PROVE  Store!Record(c, answer)
  <2>1. /\ result' = [result EXCEPT ![c] = answer]
        /\ result[c] = "pending"
    BY <1>3, OutcomeStep DEF InsertRow, Outcome, Waiting, IInv, TypeOK
  <2>2. QED
    BY <1>3, <2>1 DEF InsertRow, Store!Record
<1>4. ASSUME NEW c \in Call, UniqueViolation(c)
      PROVE  UNCHANGED Store!storeVars
  <2>1. result' = [result EXCEPT ![c] = "pending"] /\ result[c] = "pending"
    BY <1>4, OutcomeStep DEF UniqueViolation, Outcome, Waiting, IInv, TypeOK
  <2>2. result' = result
    BY <2>1
  <2>3. QED
    BY <1>4, <2>2 DEF UniqueViolation, Store!storeVars
<1>5. ASSUME NEW c \in Call, RereadWinner(c) PROVE Store!Compare(c)
  <2>1. document[args[c].id] # NoDoc
    BY <1>5 DEF RereadWinner, IInv, WinnerExists
  <2>2. Outcome(Verdict(c)) = Verdict(c)
    BY DEF Verdict, Outcome, Waiting
  <2>3. /\ result' = [result EXCEPT ![c] = Verdict(c)]
        /\ result[c] = "pending"
    BY <1>5, <2>1, <2>2, OutcomeStep
       DEF RereadWinner, Outcome, Waiting, IInv, TypeOK
  <2>4. QED
    BY <1>5, <2>1, <2>3 DEF RereadWinner, Store!Compare, Verdict, recordsEqual
<1>6. ASSUME NEW c \in Call, QueryFails(c) PROVE Store!Fail(c)
  <2>1. /\ result' = [result EXCEPT ![c] = "error"]
        /\ result[c] = "pending"
    BY <1>6, OutcomeStep DEF QueryFails, Outcome, Waiting, IInv, TypeOK
  <2>2. QED
    BY <1>6, <2>1 DEF QueryFails, Store!Fail
<1>7. ASSUME NEW i \in Id, NEW st \in Status, updateInvoiceStatus(i, st)
      PROVE  Store!SetStatus(i, st)
  BY <1>7 DEF updateInvoiceStatus, Store!SetStatus
<1>8. CASE Tick \/ UNCHANGED vars
  BY <1>8 DEF Tick, vars, Store!storeVars
<1>9. QED
  BY <1>1, <1>2, <1>3, <1>4, <1>5, <1>6, <1>7, <1>8
     DEF Next, QueryStep, Store!Next

\* SELECT, INSERT and re-read implement the atomic recordInvoice, and the
\* rethrow of a violation without a winner is unreachable.
THEOREM Refinement == Spec => AtomicRecord
  BY StoreInit, StoreNext, Invariance, PTL DEF Spec, AtomicRecord, Store!Spec
=============================================================================
