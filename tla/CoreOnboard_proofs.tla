------------------------- MODULE CoreOnboard_proofs -------------------------
(***************************************************************************)
(* The safety properties of CoreOnboard, for any number of runs, OTPs,     *)
(* scenarios and retries.                                                  *)
(***************************************************************************)
EXTENDS CoreOnboard, FiniteSetTheorems, TLAPS

-----------------------------------------------------------------------------
(* The inductive invariant. *)

\* Where a run awaits a call, and where it has its compliance certificate.
Calling   == {"certifying", "checking", "exchanging"}
Certified == {"issuing", "checking", "reporting", "writing", "exchanging",
              "returned"}
Place     == {"idle", "preparing", "thrown", "marking", "failed", "certifying"}
               \cup Certified

Progress == [scenarios : [Names -> {"none", "passed", "failed"}],
             lastError : Run \cup {NoError}]

Total(f) == f = [r \in Run |-> f[r]]

\* The shape of the state.
Shape ==
    /\ HttpTypeOK /\ Total(http)
    /\ GenTypeOK
    /\ used \subseteq Otp
    /\ otp \in [Run -> Otp]
    /\ row \in Progress
    /\ pc \in [Run -> Place]
    /\ results \in [Run -> Seq(BOOLEAN)]
    /\ read \in [Run -> Progress \cup {NoError}]
    /\ Total(answer) /\ Total(cert) /\ Total(bundle) /\ Total(missed)

\* A call returns only with success, and is under way only where the code
\* awaits one.
CallsAwaited ==
    \A r \in Run : /\ http[r].phase = "returned" => http[r].status = "ok"
                   /\ http[r].phase # "none" => pc[r] \in Calling

\* A key file holds the key of the run it is named after, and so a CSR that was
\* made is for the run's own key.
OwnKey ==
    /\ \A f \in files : /\ f.key \in Run
                        /\ \A g \in Run : f.name = KeyFile(g) => f.key = g
    /\ \A r \in Run : /\ gen[r].csr \in {NoCsr, r}
                      /\ gen[r].phase = "made" => gen[r].csr = r
                      /\ pc[r] \in Certified \cup {"certifying"}
                           => gen[r].phase = "made"

\* The head of a successful answer has been received and is not lost yet.
Heard(r) == http[r].phase \in {"reading", "returned"} /\ http[r].status = "ok"

\* The certificate a run holds, or is about to read, is its own.
OwnCertificate ==
    /\ \A c \in certs : c.key = c.run
    /\ \A r \in Run :
         /\ pc[r] \in Certified => cert[r] \in certs /\ cert[r].run = r
         /\ pc[r] = "certifying" /\ Heard(r) =>
              answer[r] \in certs /\ answer[r].run = r

\* The results of a run that may ask for its CSID.
AllPassed == [i \in DOMAIN Scenarios |-> TRUE]

\* How far the scenarios are.
ScenarioCount ==
    \A r \in Run :
        /\ pc[r] \in {"idle", "preparing", "certifying"} => Len(results[r]) = 0
        /\ Len(results[r]) <= Len(Scenarios)
        /\ pc[r] \in {"issuing", "checking"} => Len(results[r]) < Len(Scenarios)
        /\ pc[r] \in {"reporting", "writing"} => Len(results[r]) # 0
        /\ pc[r] \in {"exchanging", "returned"} =>
             results[r] = AllPassed

\* A scenario passes only after ZATCA has checked its invoice.
PassedWasChecked ==
    \A r \in Run :
        /\ \A i \in DOMAIN results[r] :
             results[r][i] => <<cert[r].id, Scenarios[i]>> \in handled
        /\ pc[r] = "checking" /\ Heard(r) =>
             <<cert[r].id, Scenarios[Len(results[r]) + 1]>> \in handled

\* A CSID stands on the certificate of the run it was issued to, which had
\* passed every scenario; the one a run is about to read, or returned, is its
\* own.
OwnCsid ==
    /\ \A k \in csids :
         /\ k.run \in Run
         /\ k.cert = cert[k.run].id
         /\ pc[k.run] \in {"exchanging", "returned", "thrown", "marking", "failed"}
         /\ results[k.run] = AllPassed
    /\ \A r \in Run :
         /\ pc[r] = "exchanging" /\ Heard(r) =>
              answer[r] \in csids /\ answer[r].run = r
         /\ pc[r] = "returned" =>
              /\ bundle[r].key = r
              /\ bundle[r].cert = cert[r]
              /\ bundle[r].csid \in csids
              /\ bundle[r].csid.run = r

\* A run all of whose effective attempts were heard has at most one CSID: the
\* one it is about to read or has returned.
HeardOnce ==
    \A r \in Run : r \notin unheard =>
        \A k \in csids : k.run = r =>
            \/ pc[r] = "exchanging" /\ Heard(r) /\ k = answer[r]
            \/ pc[r] = "returned" /\ k = bundle[r].csid

BundleInv ==
    /\ CallsAwaited
    /\ OwnKey
    /\ OwnCertificate
    /\ ScenarioCount
    /\ PassedWasChecked
    /\ OwnCsid
    /\ HeardOnce

\* The run began last and no other run was under way with it.
Alone(r) == latest = r /\ pc[r] # "idle" /\ ~ \E q \in Run : <<r, q>> \in overlap

Written(r, i) ==
    \/ Scenarios[i] \in missed[r]
    \/ row.scenarios[Scenarios[i]] = IF results[r][i] THEN "passed" ELSE "failed"

\* Nobody writes the progress row under a run that is alone, so what it read is
\* what it writes back, and every scenario it has left behind is in the row.
RowInv ==
    \A r \in Run :
        /\ pc[r] \in {"writing", "marking"} => read[r] \in Progress
        /\ Alone(r) =>
             /\ \A q \in Run : q # r => ~Running(q)
             /\ pc[r] \in {"writing", "marking"} => read[r] = row
             /\ \A i \in DOMAIN results[r] :
                  \/ i = Len(results[r]) /\ pc[r] \in {"reporting", "writing"}
                  \/ Written(r, i)
             /\ pc[r] = "failed" =>
                  row.lastError = r \/ "lastError" \in missed[r]

-----------------------------------------------------------------------------
(* The HTTP client. *)

\* The loop of request() makes an attempt more only while one is left.
LEMMA CallShape ==
    ASSUME HttpTypeOK, Total(http), NEW r \in Run
    PROVE  /\ request(r) => HttpTypeOK' /\ Total(http)'
           /\ Taken(r) => HttpTypeOK' /\ Total(http)'
           /\ http[r].phase # "none" /\ RetryOrThrow(r)
                => HttpTypeOK' /\ Total(http)'
<1> USE RetriesAssumption DEF Run, HttpTypeOK, Total, maxAttempts
<1>1. Retries[r] + 1 \in Nat /\ 1 \in 0 .. (Retries[r] + 1)
  OBVIOUS
<1>2. ASSUME request(r) PROVE HttpTypeOK' /\ Total(http)'
  BY <1>1, <1>2 DEF request
<1>3. ASSUME Taken(r) PROVE HttpTypeOK' /\ Total(http)'
  BY <1>1, <1>3 DEF Taken, NoCall
<1>4. ASSUME RetryOrThrow(r) PROVE HttpTypeOK' /\ Total(http)'
  <2>1. http[r].attempt \in Nat
    BY <1>1
  <2>2. CASE TryAgain(r) /\ http[r].attempt < maxAttempts(r)
    <3>1. http[r].attempt + 1 \in 0 .. (Retries[r] + 1)
      BY <1>1, <2>1, <2>2
    <3>2. QED
      BY <2>2, <3>1 DEF TryAgain
  <2>3. CASE Settle(r, "thrown")
    BY <2>3 DEF Settle
  <2>4. QED
    BY <1>4, <2>2, <2>3 DEF RetryOrThrow
<1>5. QED
  BY <1>2, <1>3, <1>4

\* What a call becomes when it starts and when its result is taken.
LEMMA CallEffect ==
    ASSUME Total(http), NEW r \in Run
    PROVE  /\ request(r) => http'[r].phase = "sending"
           /\ Taken(r) => http'[r].phase = "none"
BY DEF Total, request, Taken, NoCall

\* fetch: only an ok answer is heard, and the other callers' calls stay.
LEMMA FetchEffect ==
    ASSUME HttpTypeOK, Total(http), NEW r \in Run,
           NEW outcome \in Answers \cup Failures, fetch(r, outcome)
    PROVE  /\ HttpTypeOK' /\ Total(http)'
           /\ http[r].phase = "sending"
           /\ http'[r].phase \in {"sending", "reading", "thrown"}
           /\ Heard(r)' <=> outcome = "ok"
           /\ \A q \in Run : q # r => http'[q] = http[q]
<1> USE DEF Total, Answers, Failures
<1>1. CASE outcome = "lost"
  <2>1. RetryOrThrow(r) /\ http[r].phase = "sending"
    BY <1>1 DEF fetch
  <2>2. HttpTypeOK' /\ Total(http)'
    BY <2>1, CallShape
  <2>3. http'[r].phase \in {"sending", "thrown"}
    BY <2>1 DEF RetryOrThrow, TryAgain, Settle, HttpTypeOK, Run
  <2>4. \A q \in Run : q # r => http'[q] = http[q]
    BY <2>1 DEF RetryOrThrow, TryAgain, Settle
  <2>5. QED
    BY <1>1, <2>1, <2>2, <2>3, <2>4 DEF Heard
<1>2. CASE outcome = "fault"
  <2>1. Settle(r, "thrown") /\ http[r].phase = "sending"
    BY <1>2 DEF fetch
  <2>2. QED
    BY <1>2, <2>1 DEF Settle, HttpTypeOK, Heard, Run
<1>3. CASE outcome \in Answers
  <2>1. /\ http[r].phase = "sending"
        /\ http' = [http EXCEPT ![r].phase = "reading", ![r].status = outcome]
    BY <1>3 DEF fetch
  <2>2. QED
    BY <1>3, <2>1 DEF HttpTypeOK, Heard, Run
<1>4. QED
  BY <1>1, <1>2, <1>3

\* readBody: the call returns exactly when an ok answer is read whole.
LEMMA ReadEffect ==
    ASSUME HttpTypeOK, Total(http), NEW r \in Run, NEW intact \in BOOLEAN,
           readBody(r, intact)
    PROVE  /\ HttpTypeOK' /\ Total(http)'
           /\ http[r].phase = "reading"
           /\ IF http[r].status = "ok" /\ intact
              THEN http'[r].phase = "returned" /\ http'[r].status = "ok"
              ELSE http'[r].phase \in {"sending", "thrown"}
           /\ \A q \in Run : q # r => http'[q] = http[q]
<1> USE DEF Total
<1>1. http[r].phase = "reading"
  BY DEF readBody
<1>2. ASSUME RetryOrThrow(r), ~(http[r].status = "ok" /\ intact)
      PROVE  /\ HttpTypeOK' /\ Total(http)'
             /\ http'[r].phase \in {"sending", "thrown"}
             /\ \A q \in Run : q # r => http'[q] = http[q]
  <2>1. HttpTypeOK' /\ Total(http)'
    BY <1>1, <1>2, CallShape
  <2>2. /\ http'[r].phase \in {"sending", "thrown"}
        /\ \A q \in Run : q # r => http'[q] = http[q]
    BY <1>2 DEF RetryOrThrow, TryAgain, Settle, HttpTypeOK, Run
  <2>3. QED
    BY <2>1, <2>2
<1>3. CASE http[r].status = "server" /\ http[r].attempt < maxAttempts(r)
  <2>1. RetryOrThrow(r)
    BY <1>3 DEF readBody, RetryOrThrow
  <2>2. QED
    BY <1>1, <1>2, <1>3, <2>1
<1>4. CASE /\ ~(http[r].status = "server" /\ http[r].attempt < maxAttempts(r))
           /\ ~intact
  <2>1. RetryOrThrow(r)
    BY <1>4 DEF readBody
  <2>2. QED
    BY <1>1, <1>2, <1>4, <2>1
<1>5. CASE /\ ~(http[r].status = "server" /\ http[r].attempt < maxAttempts(r))
           /\ intact
  <2>1. Settle(r, IF http[r].status = "ok" THEN "returned" ELSE "thrown")
    BY <1>5 DEF readBody
  <2>2. CASE http[r].status = "ok"
    BY <1>1, <1>5, <2>1, <2>2 DEF Settle, HttpTypeOK, Run
  <2>3. CASE http[r].status # "ok"
    BY <1>1, <1>5, <2>1, <2>3 DEF Settle, HttpTypeOK, Run
  <2>4. QED
    BY <2>2, <2>3
<1>6. QED
  BY <1>3, <1>4, <1>5

-----------------------------------------------------------------------------
(* What every step of a run leaves alone. *)

\* A step of run r does not touch the locals, the call and the CSR of another
\* run; ZATCA forgets nothing and issues only to r.
Elsewhere(r) ==
    /\ \A q \in Run \ {r} :
         /\ http'[q] = http[q] /\ gen'[q] = gen[q] /\ pc'[q] = pc[q]
         /\ answer'[q] = answer[q] /\ cert'[q] = cert[q]
         /\ results'[q] = results[q] /\ read'[q] = read[q]
         /\ bundle'[q] = bundle[q] /\ missed'[q] = missed[q]
    /\ certs \subseteq certs' /\ \A c \in certs' \ certs : c.run = r
    /\ csids \subseteq csids' /\ \A k \in csids' \ csids : k.run = r
    /\ handled \subseteq handled'
    /\ unheard \subseteq unheard' /\ unheard' \subseteq unheard \cup {r}

\* The steps of the openssl calls change the generator only.
LEMMA GenSame ==
    ASSUME Shape, NEW r \in Run, GenStep(r)
    PROVE  \A q \in Run \ {r} : gen'[q] = gen[q]
<1> USE RunAssumption DEF Shape, GenTypeOK, Enter, Run
<1>1. CASE ensureOpenssl(r)
  BY <1>1 DEF ensureOpenssl
<1>2. CASE generateSecp256k1KeyPair(r)
  BY <1>2 DEF generateSecp256k1KeyPair
<1>3. CASE writeKeyFile(r)
  BY <1>3 DEF writeKeyFile
<1>4. CASE writeConfigFile(r)
  BY <1>4 DEF writeConfigFile
<1>5. CASE executeOpenSSL(r)
  BY <1>5 DEF executeOpenSSL
<1>6. CASE safeUnlink(r)
  BY <1>6 DEF safeUnlink, Finished
<1>7. QED
  BY <1>1, <1>2, <1>3, <1>4, <1>5, <1>6 DEF GenStep

\* Every step of the specification is a step of some run that touches no other.
LEMMA StepElsewhere ==
    ASSUME Shape, NEW r \in Run,
           onboard(r) \/ Prepare(r) \/ (Step(r) /\ UNCHANGED openssl)
    PROVE  Elsewhere(r)
<1> USE DEF Shape, Total, Elsewhere, zatca, local, history, GoTo, Forget
<1>1. CASE onboard(r)
  BY <1>1, RunAssumption DEF onboard, Generate, Enter, GenTypeOK, Run
<1>2. CASE Prepare(r)
  BY <1>2, GenSame DEF Prepare
<1> USE DEF openssl
<1>3. CASE Prepared(r) /\ UNCHANGED openssl
  BY <1>3 DEF Prepared, request
<1>4. CASE Attempt(r) /\ UNCHANGED openssl
  <2>1. PICK outcome \in Answers \cup Failures :
          /\ fetch(r, outcome)
          /\ \/ /\ TakesEffect(r, outcome)
                /\ unheard' = IF outcome = "ok" THEN unheard ELSE unheard \cup {r}
             \/ outcome # "ok" /\ UNCHANGED <<zatca, answer, unheard>>
    BY <1>4 DEF Attempt
  <2>2. \A q \in Run : q # r => http'[q] = http[q]
    BY <2>1, FetchEffect
  <2>3. UNCHANGED <<gen, pc, cert, results, read, bundle, missed>>
    BY <1>4 DEF Attempt
  <2>4. CASE UNCHANGED <<zatca, answer, unheard>>
    BY <2>2, <2>3, <2>4
  <2>5. CASE TakesEffect(r, outcome) /\ unheard' \in {unheard, unheard \cup {r}}
    <3>1. CASE IssueCertificate(r, outcome)
      BY <2>2, <2>3, <2>5, <3>1 DEF IssueCertificate, Answered
    <3>2. CASE CheckInvoice(r)
      BY <2>2, <2>3, <2>5, <3>2 DEF CheckInvoice
    <3>3. CASE IssueCsid(r, outcome)
      BY <2>2, <2>3, <2>5, <3>3 DEF IssueCsid, Answered
    <3>4. QED
      BY <2>5, <3>1, <3>2, <3>3 DEF TakesEffect
  <2>6. QED
    BY <2>1, <2>4, <2>5
<1>5. CASE Read(r) /\ UNCHANGED openssl
  <2>1. PICK intact \in BOOLEAN :
          /\ readBody(r, intact)
          /\ unheard' \in {unheard, unheard \cup {r}}
          /\ answer' \in {answer, [answer EXCEPT ![r] = None]}
    BY <1>5 DEF Read
  <2>2. \A q \in Run : q # r => http'[q] = http[q]
    BY <2>1, ReadEffect
  <2>3. QED
    BY <1>5, <2>1, <2>2 DEF Read
<1>6. CASE takeCertificate(r) /\ UNCHANGED openssl
  BY <1>6 DEF takeCertificate, Taken
<1>7. CASE callThrows(r) /\ UNCHANGED openssl
  BY <1>7 DEF callThrows, Taken
<1>8. CASE issueScenario(r) /\ UNCHANGED openssl
  BY <1>8 DEF issueScenario, Report, request
<1>9. CASE classifyResponse(r) /\ UNCHANGED openssl
  BY <1>9 DEF classifyResponse, Report, Taken
<1>10. CASE readProgress(r) /\ UNCHANGED openssl
  BY <1>10 DEF readProgress
<1>11. CASE writeProgress(r) /\ UNCHANGED openssl
  BY <1>11 DEF writeProgress, Onward, request
<1>12. CASE progressThrows(r) /\ UNCHANGED openssl
  BY <1>12 DEF progressThrows, Onward, request
<1>13. CASE takeCsid(r) /\ UNCHANGED openssl
  BY <1>13 DEF takeCsid, Taken
<1>14. CASE readForError(r) /\ UNCHANGED openssl
  BY <1>14 DEF readForError
<1>15. CASE writeError(r) /\ UNCHANGED openssl
  BY <1>15 DEF writeError
<1>16. QED
  BY <1>1, <1>2, <1>3, <1>4, <1>5, <1>6, <1>7, <1>8, <1>9, <1>10, <1>11, <1>12,
     <1>13, <1>14, <1>15 DEF Step

-----------------------------------------------------------------------------
(* The shape of the state. *)

\* The initial states have it.
LEMMA ShapeInit == Init => Shape
<1> SUFFICES ASSUME Init PROVE Shape
  OBVIOUS
<1> USE DEF Init, Total
<1>1. HttpTypeOK /\ Total(http)
  BY RetriesAssumption DEF HttpTypeOK, HttpInit, NoCall, Run, maxAttempts
<1>2. GenTypeOK
  BY DEF GenInit, GenTypeOK, GenPhase
<1>3. row \in Progress
  BY DEF Progress
<1>4. otp \in [Run -> Otp] /\ used \subseteq Otp
  BY DEF Assigned
<1>5. pc \in [Run -> Place] /\ results \in [Run -> Seq(BOOLEAN)]
  BY DEF Place
<1>6. Total(answer) /\ Total(cert) /\ Total(bundle) /\ Total(missed)
      /\ read \in [Run -> Progress \cup {NoError}]
  OBVIOUS
<1>7. QED
  BY <1>1, <1>2, <1>3, <1>4, <1>5, <1>6 DEF Shape

\* The openssl steps keep the shape of the generator.
LEMMA GenShapeNext ==
    ASSUME GenTypeOK, NEW r \in Run, Generate(r) \/ GenStep(r),
           \A f \in files : f.key \in Run
    PROVE  GenTypeOK'
<1> USE RunAssumption DEF GenTypeOK, GenPhase, Enter, Run
<1>1. CASE Generate(r)
  BY <1>1 DEF Generate
<1>2. CASE ensureOpenssl(r)
  BY <1>2 DEF ensureOpenssl
<1>3. CASE generateSecp256k1KeyPair(r)
  BY <1>3 DEF generateSecp256k1KeyPair
<1>4. CASE writeKeyFile(r)
  BY <1>4 DEF writeKeyFile
<1>5. CASE writeConfigFile(r)
  BY <1>5 DEF writeConfigFile
<1>6. CASE executeOpenSSL(r)
  BY <1>6 DEF executeOpenSSL
<1>7. CASE safeUnlink(r)
  BY <1>7 DEF safeUnlink, Finished
<1>8. QED
  BY <1>1, <1>2, <1>3, <1>4, <1>5, <1>6, <1>7 DEF GenStep

\* The current scenario is one of the scenarios.
LEMMA CurrentType ==
    ASSUME Shape, ScenarioCount, NEW r \in Run, pc[r] \in {"reporting", "writing"}
    PROVE  /\ Len(results[r]) \in DOMAIN results[r]
           /\ Len(results[r]) \in DOMAIN Scenarios
           /\ Current(r) \in Names
<1>1. results[r] \in Seq(BOOLEAN) /\ Len(results[r]) # 0
      /\ Len(results[r]) <= Len(Scenarios)
  BY DEF Shape, ScenarioCount
<1>2. Len(results[r]) \in Nat \ {0} /\ Len(Scenarios) \in Nat
  BY <1>1, ScenariosAssumption
<1>3. Len(results[r]) \in DOMAIN results[r] /\ Len(results[r]) \in DOMAIN Scenarios
  BY <1>1, <1>2, ScenariosAssumption
<1>4. QED
  BY <1>3 DEF Current, Names

\* What recordOnboardingProgress writes back is the progress it read with one
\* entry changed.
LEMMA MergedType ==
    ASSUME Shape, ScenarioCount, NEW r \in Run, pc[r] = "writing",
           read[r] \in Progress
    PROVE  /\ Merged(r) \in Progress
           /\ Merged(r).lastError = read[r].lastError
           /\ Merged(r).scenarios[Current(r)] = Verdict(r)
           /\ \A s \in Names : s # Current(r) =>
                Merged(r).scenarios[s] = read[r].scenarios[s]
<1>1. Current(r) \in Names
  BY CurrentType
<1>2. Verdict(r) \in {"passed", "failed"}
  BY DEF Verdict
<1>3. QED
  BY <1>1, <1>2 DEF Merged, Progress

\* Every step keeps the shape.
LEMMA ShapeNext ==
    ASSUME Shape, ScenarioCount, RowInv, OwnKey, [Next]_vars
    PROVE  Shape'
<1> USE DEF Shape, Total, zatca, local, history, GoTo, Forget
<1>1. ASSUME NEW r \in Run, onboard(r) PROVE Shape'
  <2>1. GenTypeOK'
    BY <1>1, GenShapeNext DEF onboard, OwnKey
  <2>2. HttpTypeOK'
    BY <1>1 DEF onboard, HttpTypeOK
  <2>3. QED
    BY <1>1, <2>1, <2>2 DEF onboard, Place
<1>2. ASSUME NEW r \in Run, Prepare(r) PROVE Shape'
  <2>1. GenTypeOK'
    BY <1>2, GenShapeNext DEF Prepare, OwnKey
  <2>2. HttpTypeOK'
    BY <1>2 DEF Prepare, HttpTypeOK
  <2>3. QED
    BY <1>2, <2>1, <2>2 DEF Prepare
<1>3. ASSUME NEW r \in Run, Step(r), UNCHANGED openssl PROVE Shape'
  <2>1. GenTypeOK'
    BY <1>3 DEF openssl, GenTypeOK
  <2>2. CASE Prepared(r)
    <3>1. HttpTypeOK' /\ Total(http)'
      BY <2>2, CallShape DEF Prepared, HttpTypeOK
    <3>2. QED
      BY <2>1, <2>2, <3>1 DEF Prepared, Place
  <2>3. CASE Attempt(r)
    <3>1. PICK outcome \in Answers \cup Failures :
            /\ fetch(r, outcome)
            /\ TakesEffect(r, outcome) \/ UNCHANGED <<zatca, answer>>
      BY <2>3 DEF Attempt
    <3>2. HttpTypeOK' /\ Total(http)'
      BY <3>1, FetchEffect
    <3>3. used' \subseteq Otp /\ Total(answer)'
      BY <3>1 DEF TakesEffect, IssueCertificate, CheckInvoice, IssueCsid, Answered
    <3>4. QED
      BY <2>1, <2>3, <3>2, <3>3 DEF Attempt
  <2>4. CASE Read(r)
    <3>1. PICK intact \in BOOLEAN :
            /\ readBody(r, intact)
            /\ answer' \in {answer, [answer EXCEPT ![r] = None]}
      BY <2>4 DEF Read
    <3>2. HttpTypeOK' /\ Total(http)'
      BY <3>1, ReadEffect
    <3>3. Total(answer)'
      BY <3>1
    <3>4. QED
      BY <2>1, <2>4, <3>2, <3>3 DEF Read
  <2>5. CASE takeCertificate(r)
    <3>1. HttpTypeOK' /\ Total(http)'
      BY <2>5, CallShape DEF takeCertificate
    <3>2. QED
      BY <2>1, <2>5, <3>1 DEF takeCertificate, Place, Certified
  <2>6. CASE callThrows(r)
    <3>1. HttpTypeOK' /\ Total(http)'
      BY <2>6, CallShape DEF callThrows
    <3>2. QED
      BY <2>1, <2>6, <3>1 DEF callThrows, Place
  <2>7. CASE issueScenario(r)
    <3>1. HttpTypeOK' /\ Total(http)'
      BY <2>7, CallShape DEF issueScenario, HttpTypeOK
    <3>2. Append(results[r], FALSE) \in Seq(BOOLEAN)
      OBVIOUS
    <3>3. results' \in [Run -> Seq(BOOLEAN)]
      BY <2>7, <3>2 DEF issueScenario, Report
    <3>4. pc' \in [Run -> Place]
      BY <2>7 DEF issueScenario, Report, Place, Certified
    <3>5. QED
      BY <2>1, <2>7, <3>1, <3>3, <3>4 DEF issueScenario
  <2>8. CASE classifyResponse(r)
    <3>1. HttpTypeOK' /\ Total(http)'
      BY <2>8, CallShape DEF classifyResponse
    <3>2. \A b \in BOOLEAN : Append(results[r], b) \in Seq(BOOLEAN)
      OBVIOUS
    <3>3. results' \in [Run -> Seq(BOOLEAN)]
      BY <2>8, <3>2 DEF classifyResponse, Report
    <3>4. pc' \in [Run -> Place]
      BY <2>8 DEF classifyResponse, Report, Place, Certified
    <3>5. QED
      BY <2>1, <2>8, <3>1, <3>3, <3>4 DEF classifyResponse
  <2>9. CASE readProgress(r)
    <3>1. HttpTypeOK'
      BY <2>9 DEF readProgress, HttpTypeOK
    <3>2. QED
      BY <2>1, <2>9, <3>1 DEF readProgress, Place, Certified
  <2>10. ASSUME Onward(r)
         PROVE  HttpTypeOK' /\ Total(http)' /\ pc' \in [Run -> Place]
    <3>1. HttpTypeOK' /\ Total(http)'
      BY <2>10, CallShape DEF Onward, HttpTypeOK
    <3>2. QED
      BY <2>10, <3>1 DEF Onward, Place, Certified
  <2>11. CASE writeProgress(r)
    <3>1. Merged(r) \in Progress
      BY <2>11, MergedType DEF writeProgress, RowInv
    <3>2. QED
      BY <2>1, <2>10, <2>11, <3>1 DEF writeProgress
  <2>12. CASE progressThrows(r)
    BY <2>1, <2>10, <2>12 DEF progressThrows
  <2>13. CASE takeCsid(r)
    <3>1. HttpTypeOK' /\ Total(http)'
      BY <2>13, CallShape DEF takeCsid
    <3>2. QED
      BY <2>1, <2>13, <3>1 DEF takeCsid, Place, Certified
  <2>14. CASE readForError(r)
    <3>1. HttpTypeOK'
      BY <2>14 DEF readForError, HttpTypeOK
    <3>2. QED
      BY <2>1, <2>14, <3>1 DEF readForError, Place
  <2>15. CASE writeError(r)
    <3>1. HttpTypeOK'
      BY <2>15 DEF writeError, HttpTypeOK
    <3>2. row' \in Progress
      BY <2>15 DEF writeError, RowInv, Progress
    <3>3. QED
      BY <2>1, <2>15, <3>1, <3>2 DEF writeError, Place
  <2>16. QED
    BY <1>3, <2>2, <2>3, <2>4, <2>5, <2>6, <2>7, <2>8, <2>9, <2>11, <2>12,
       <2>13, <2>14, <2>15 DEF Step
<1>4. CASE UNCHANGED vars
  BY <1>4 DEF vars, openssl, HttpTypeOK, GenTypeOK
<1>5. QED
  BY <1>1, <1>2, <1>3, <1>4 DEF Next

-----------------------------------------------------------------------------
(* Keys, certificates, scenarios and CSIDs. *)

\* Before any run there is nothing to hold.
LEMMA BundleInit == Init => BundleInv /\ RowInv
<1> SUFFICES ASSUME Init PROVE BundleInv /\ RowInv
  OBVIOUS
<1> USE DEF Init, HttpInit, NoCall, GenInit, Certified, Calling
<1>1. CallsAwaited /\ OwnKey
  BY RunAssumption DEF CallsAwaited, OwnKey, Run
<1>2. OwnCertificate /\ OwnCsid /\ HeardOnce
  BY DEF OwnCertificate, OwnCsid, HeardOnce
<1>3. ScenarioCount /\ PassedWasChecked
  BY ScenariosAssumption DEF ScenarioCount, PassedWasChecked
<1>4. RowInv
  BY DEF RowInv, Alone
<1>5. QED
  BY <1>1, <1>2, <1>3, <1>4 DEF BundleInv

\* request() is called where its result is awaited, and its result is taken
\* before anything else happens.
LEMMA CallsNext ==
    ASSUME Shape, CallsAwaited, NEW r \in Run,
           onboard(r) \/ Prepare(r) \/ (Step(r) /\ UNCHANGED openssl)
    PROVE  CallsAwaited'
<1> SUFFICES ASSUME NEW q \in Run
             PROVE  /\ http'[q].phase = "returned" => http'[q].status = "ok"
                    /\ http'[q].phase # "none" => pc'[q] \in Calling
  BY DEF CallsAwaited
<1>1. CASE q # r
  BY <1>1, StepElsewhere DEF Elsewhere, CallsAwaited
<1> USE CallEffect DEF Shape, CallsAwaited, Calling, GoTo
<1>2. CASE onboard(r) \/ Prepare(r)
  BY <1>2, <1>1 DEF onboard, Prepare
<1>3. CASE Prepared(r)
  <2>1. \/ http'[r].phase = "sending" /\ pc'[r] = "certifying"
        \/ http'[r].phase = "none"
    BY <1>3 DEF Prepared
  <2>2. QED
    BY <1>1, <2>1
<1>4. CASE Attempt(r)
  <2>1. PICK outcome \in Answers \cup Failures : fetch(r, outcome)
    BY <1>4 DEF Attempt
  <2>2. /\ http[r].phase = "sending"
        /\ http'[r].phase \in {"sending", "reading", "thrown"}
    BY <2>1, FetchEffect
  <2>3. QED
    BY <1>1, <1>4, <2>2 DEF Attempt
<1>5. CASE Read(r)
  <2>1. PICK intact \in BOOLEAN : readBody(r, intact)
    BY <1>5 DEF Read
  <2>2. /\ http[r].phase = "reading"
        /\ \/ http'[r].phase \in {"sending", "thrown"}
           \/ http'[r].status = "ok"
    BY <2>1, ReadEffect
  <2>3. QED
    BY <1>1, <1>5, <2>2 DEF Read
<1>6. CASE takeCertificate(r) \/ callThrows(r) \/ classifyResponse(r) \/ takeCsid(r)
  <2>1. http'[r].phase = "none"
    BY <1>6 DEF takeCertificate, callThrows, classifyResponse, takeCsid
  <2>2. QED
    BY <1>1, <2>1
<1>7. CASE issueScenario(r)
  <2>1. \/ http'[r].phase = "sending" /\ pc'[r] = "checking"
        \/ http'[r].phase = "none"
    BY <1>7 DEF issueScenario, Report
  <2>2. QED
    BY <1>1, <2>1
<1>8. CASE readProgress(r) \/ readForError(r) \/ writeError(r)
  BY <1>1, <1>8 DEF readProgress, readForError, writeError
<1>9. CASE writeProgress(r) \/ progressThrows(r)
  <2>1. Onward(r) /\ pc[r] \in {"reporting", "writing"}
    BY <1>9 DEF writeProgress, progressThrows
  <2>2. \/ http'[r].phase = "sending" /\ pc'[r] = "exchanging"
        \/ http'[r].phase = "none"
    BY <2>1 DEF Onward
  <2>3. QED
    BY <1>1, <2>2
<1>10. QED
  BY <1>2, <1>3, <1>4, <1>5, <1>6, <1>7, <1>8, <1>9 DEF Step

\* The names of the key files are different, so that openssl req signs with the
\* caller's key and with no other's.
LEMMA OwnKeyNext ==
    ASSUME Shape, CallsAwaited, OwnKey, NEW r \in Run,
           onboard(r) \/ Prepare(r) \/ (Step(r) /\ UNCHANGED openssl)
    PROVE  OwnKey'
<1> USE RunAssumption
<1>1. \A g, h \in Run : /\ KeyFile(g) = KeyFile(h) => g = h
                        /\ KeyFile(g) # ConfigFile(h)
  BY DEF KeyFile, ConfigFile
<1>2. \A f \in files' : /\ f.key \in Run
                        /\ \A g \in Run : f.name = KeyFile(g) => f.key = g
  <2>1. CASE files' \subseteq files
    BY <2>1 DEF OwnKey
  <2>2. CASE Write(KeyFile(r), r) \/ Write(ConfigFile(r), r)
    BY <1>1, <2>2 DEF OwnKey, Write
  <2>3. CASE onboard(r) \/ UNCHANGED openssl
    BY <2>1, <2>3 DEF onboard, Generate, openssl
  <2>4. CASE Prepare(r)
    BY <2>1, <2>2, <2>4 DEF Prepare, GenStep, ensureOpenssl,
       generateSecp256k1KeyPair, writeKeyFile, writeConfigFile, executeOpenSSL,
       safeUnlink, Others
  <2>5. QED
    BY <2>3, <2>4
<1>3. gen'[r].csr \in {NoCsr, r} /\ (gen'[r].phase = "made" => gen'[r].csr = r)
  <2> USE DEF Shape, GenTypeOK, Run, Enter
  <2>1. CASE onboard(r)
    BY <2>1 DEF onboard, Generate, OwnKey
  <2>2. CASE UNCHANGED openssl
    BY <2>2 DEF openssl, OwnKey
  <2>3. CASE Prepare(r)
    <3>1. CASE ensureOpenssl(r)
      BY <3>1 DEF ensureOpenssl, OwnKey
    <3>2. CASE generateSecp256k1KeyPair(r)
      BY <3>2 DEF generateSecp256k1KeyPair, OwnKey
    <3>3. CASE writeKeyFile(r) \/ writeConfigFile(r)
      BY <3>3 DEF writeKeyFile, writeConfigFile, OwnKey
    <3>4. CASE executeOpenSSL(r)
      BY <3>4 DEF executeOpenSSL, OwnKey
    <3>5. CASE safeUnlink(r)
      BY <3>5 DEF safeUnlink, Finished, OwnKey
    <3>6. QED
      BY <2>3, <3>1, <3>2, <3>3, <3>4, <3>5 DEF Prepare, GenStep
  <2>4. QED
    BY <2>1, <2>2, <2>3
<1>4. pc'[r] \in Certified \cup {"certifying"} => gen'[r].phase = "made"
  <2> USE DEF Shape, Certified, GoTo
  <2>1. CASE onboard(r)
    BY <2>1 DEF onboard
  <2>2. CASE Prepare(r)
    BY <2>2 DEF Prepare, OwnKey, GenStep, ensureOpenssl,
       generateSecp256k1KeyPair, writeKeyFile, writeConfigFile, executeOpenSSL,
       safeUnlink
  <2>3. CASE Prepared(r) /\ UNCHANGED openssl
    BY <2>3 DEF Prepared, openssl
  <2>4. CASE /\ Attempt(r) \/ Read(r) \/ readForError(r) \/ writeError(r)
             /\ UNCHANGED openssl
    BY <2>4 DEF Attempt, Read, readForError, writeError, OwnKey, openssl
  <2>5. CASE /\ \/ takeCertificate(r) \/ callThrows(r) \/ issueScenario(r)
                \/ classifyResponse(r) \/ readProgress(r) \/ writeProgress(r)
                \/ progressThrows(r) \/ takeCsid(r)
             /\ UNCHANGED openssl
    <3>1. pc[r] \in Certified \cup {"certifying"}
      BY <2>5 DEF takeCertificate, callThrows, issueScenario, classifyResponse,
         readProgress, writeProgress, progressThrows, takeCsid, Called
    <3>2. QED
      BY <2>5, <3>1 DEF OwnKey, openssl
  <2>6. QED
    BY <2>1, <2>2, <2>3, <2>4, <2>5 DEF Step
<1>5. QED
  BY <1>2, <1>3, <1>4, StepElsewhere DEF OwnKey, Elsewhere

\* A certificate is issued for the key of the CSR it was asked with, and a run
\* reads only the answer to its own request.
LEMMA OwnCertificateNext ==
    ASSUME Shape, CallsAwaited, OwnKey, OwnCertificate, NEW r \in Run,
           onboard(r) \/ Prepare(r) \/ (Step(r) /\ UNCHANGED openssl)
    PROVE  OwnCertificate'
<1>1. Elsewhere(r)
  BY StepElsewhere
<1>2. SUFFICES /\ \A c \in certs' \ certs : c.key = r
               /\ pc'[r] \in Certified => cert'[r] \in certs' /\ cert'[r].run = r
               /\ pc'[r] = "certifying" /\ Heard(r)' =>
                    answer'[r] \in certs' /\ answer'[r].run = r
  <2>1. ASSUME NEW q \in Run, q # r
        PROVE  /\ pc'[q] \in Certified => cert'[q] \in certs' /\ cert'[q].run = q
               /\ pc'[q] = "certifying" /\ Heard(q)' =>
                    answer'[q] \in certs' /\ answer'[q].run = q
    BY <1>1, <2>1 DEF OwnCertificate, Elsewhere, Heard
  <2>2. \A c \in certs' : c.key = c.run
    BY <1>1, <1>2 DEF OwnCertificate, Elsewhere
  <2>3. QED
    BY <1>2, <2>1, <2>2 DEF OwnCertificate
<1> USE CallEffect DEF Shape, GoTo, zatca, local
<1> DEFINE Good ==
      /\ certs' = certs
      /\ pc'[r] \in Certified => cert'[r] \in certs /\ cert'[r].run = r
      /\ pc'[r] = "certifying" => ~Heard(r)'
<1>3. CASE onboard(r) \/ Prepare(r)
  BY <1>3 DEF onboard, Prepare, Certified, OwnCertificate, Heard
<1>4. CASE Prepared(r)
  BY <1>4 DEF Prepared, Certified, Heard
<1>5. CASE Attempt(r) /\ UNCHANGED openssl
  <2>1. PICK outcome \in Answers \cup Failures :
          /\ fetch(r, outcome)
          /\ \/ TakesEffect(r, outcome)
             \/ outcome # "ok" /\ UNCHANGED <<zatca, answer>>
    BY <1>5 DEF Attempt
  <2>2. UNCHANGED <<pc, cert>> /\ (Heard(r)' <=> outcome = "ok")
    BY <1>5, <2>1, FetchEffect DEF Attempt
  <2>3. CASE outcome # "ok" /\ UNCHANGED <<zatca, answer>>
    BY <2>2, <2>3 DEF OwnCertificate
  <2>4. CASE IssueCertificate(r, outcome)
    <3> DEFINE new == [id |-> Fresh(r, certs), run |-> r, key |-> gen[r].csr]
    <3>1. pc[r] = "certifying" /\ certs' = certs \cup {new}
          /\ (outcome = "ok" => answer' = [answer EXCEPT ![r] = new])
      BY <2>4 DEF IssueCertificate, Answered
    <3>2. gen[r].csr = r
      BY <3>1 DEF OwnKey
    <3>3. new.key = r /\ new.run = r
      BY <3>2
    <3>4. outcome = "ok" => answer'[r] = new
      BY <3>1 DEF Total
    <3> HIDE DEF new
    <3>5. QED
      BY <2>2, <3>1, <3>3, <3>4 DEF Certified
  <2>5. CASE CheckInvoice(r) \/ IssueCsid(r, outcome)
    <3>1. certs' = certs /\ pc[r] \in {"checking", "exchanging"}
      BY <2>5 DEF CheckInvoice, IssueCsid
    <3>2. QED
      BY <2>2, <3>1 DEF OwnCertificate
  <2>6. QED
    BY <2>1, <2>3, <2>4, <2>5 DEF TakesEffect
<1>6. CASE Read(r)
  <2>1. PICK intact \in BOOLEAN :
          /\ readBody(r, intact)
          /\ intact => answer' = answer
    BY <1>6 DEF Read
  <2>2. Heard(r)' => intact /\ Heard(r)
    BY <2>1, ReadEffect DEF Heard
  <2>3. UNCHANGED <<pc, cert, certs>>
    BY <1>6 DEF Read
  <2>4. QED
    BY <2>1, <2>2, <2>3 DEF OwnCertificate
<1>7. CASE takeCertificate(r)
  <2>1. pc[r] = "certifying" /\ Heard(r)
    BY <1>7 DEF takeCertificate, Called, CallsAwaited, Heard
  <2>2. answer[r] \in certs /\ answer[r].run = r
    BY <2>1 DEF OwnCertificate
  <2>3. certs' = certs /\ pc'[r] \in {"issuing", "thrown"}
        /\ (pc'[r] = "issuing" => cert'[r] = answer[r])
    BY <1>7 DEF takeCertificate, Total
  <2>4. QED
    BY <2>2, <2>3 DEF Certified
<1>8. CASE callThrows(r)
  BY <1>8 DEF callThrows, Certified
<1>9. CASE issueScenario(r) \/ classifyResponse(r)
  BY <1>9 DEF issueScenario, classifyResponse, Called, Report, Certified,
              OwnCertificate
<1>10. CASE readProgress(r) \/ readForError(r) \/ writeError(r)
  BY <1>10 DEF readProgress, readForError, writeError, Certified, OwnCertificate
<1>11. CASE writeProgress(r) \/ progressThrows(r)
  BY <1>11 DEF writeProgress, progressThrows, Onward, Certified, OwnCertificate
<1>12. CASE takeCsid(r)
  BY <1>12 DEF takeCsid, Called, Certified, OwnCertificate
<1>13. QED
  BY <1>3, <1>4, <1>5, <1>6, <1>7, <1>8, <1>9, <1>10, <1>11, <1>12 DEF Step

\* The runner goes through the scenarios in order, and asks for a CSID when it
\* has passed them all.
LEMMA ScenarioCountNext ==
    ASSUME Shape, CallsAwaited, ScenarioCount, NEW r \in Run,
           onboard(r) \/ Prepare(r) \/ (Step(r) /\ UNCHANGED openssl)
    PROVE  ScenarioCount'
<1>1. Elsewhere(r)
  BY StepElsewhere
<1> DEFINE R == results[r]
           Good ==
             /\ pc'[r] \in {"idle", "preparing", "certifying"} =>
                  Len(results'[r]) = 0
             /\ Len(results'[r]) <= Len(Scenarios)
             /\ pc'[r] \in {"issuing", "checking"} =>
                  Len(results'[r]) < Len(Scenarios)
             /\ pc'[r] \in {"reporting", "writing"} => Len(results'[r]) # 0
             /\ pc'[r] \in {"exchanging", "returned"} =>
                  results'[r] = AllPassed
<1>2. SUFFICES Good
  <2>1. \A q \in Run \ {r} : pc'[q] = pc[q] /\ results'[q] = results[q]
    BY <1>1 DEF Elsewhere
  <2>2. QED
    BY <1>2, <2>1 DEF ScenarioCount
<1>3. /\ R \in Seq(BOOLEAN) /\ Len(R) \in Nat /\ Len(Scenarios) \in Nat \ {0}
      /\ Len(R) <= Len(Scenarios)
  <2>1. R \in Seq(BOOLEAN) /\ Len(R) <= Len(Scenarios)
    BY DEF Shape, ScenarioCount
  <2>2. Scenarios \in Seq(STRING) /\ Scenarios # << >>
    BY ScenariosAssumption
  <2>3. QED
    BY <2>1, <2>2
<1>4. ASSUME NEW b \in BOOLEAN, Report(r, b), pc[r] \in {"issuing", "checking"}
      PROVE  Good
  <2>1. results'[r] = Append(R, b) /\ pc'[r] = "reporting"
    BY <1>4 DEF Report, GoTo, Shape
  <2>2. Len(R) < Len(Scenarios)
    BY <1>4 DEF ScenarioCount
  <2>3. Len(Append(R, b)) = Len(R) + 1
    BY <1>3
  <2>4. QED
    BY <1>3, <2>1, <2>2, <2>3
<1>5. ASSUME Onward(r), UNCHANGED results PROVE Good
  <2>1. CASE Len(R) < Len(Scenarios)
    <3>1. pc'[r] = "issuing"
      BY <1>5, <2>1 DEF Onward, GoTo, Shape
    <3>2. QED
      BY <1>3, <1>5, <2>1, <3>1
  <2>2. CASE ~(Len(R) < Len(Scenarios)) /\ overallStatus(R)
    <3>1. pc'[r] = "exchanging"
      BY <1>5, <2>2 DEF Onward, GoTo, Shape
    <3>2. Len(R) = Len(Scenarios)
      BY <1>3, <2>2
    <3>3. /\ DOMAIN R = 1 .. Len(R) /\ DOMAIN Scenarios = 1 .. Len(Scenarios)
          /\ R = [i \in DOMAIN R |-> R[i]]
      BY <1>3, ScenariosAssumption
    <3>4. \A i \in DOMAIN R : R[i] = TRUE
      BY <1>3, <2>2 DEF overallStatus
    <3>5. R = AllPassed
      BY <3>2, <3>3, <3>4 DEF AllPassed
    <3>6. QED
      BY <1>3, <1>5, <3>1, <3>2, <3>5
  <2>3. CASE ~(Len(R) < Len(Scenarios)) /\ ~overallStatus(R)
    <3>1. pc'[r] = "thrown"
      BY <1>5, <2>3 DEF Onward, GoTo, Shape
    <3>2. QED
      BY <1>3, <1>5, <3>1
  <2>4. QED
    BY <2>1, <2>2, <2>3
<1> USE DEF Shape, GoTo, local
<1>6. CASE onboard(r) \/ Prepare(r)
  <2>1. /\ results' = results
        /\ pc' = pc \/ (pc[r] = "idle" /\ pc'[r] = "preparing")
    <3>1. CASE onboard(r)
      BY <3>1 DEF onboard
    <3>2. CASE Prepare(r)
      BY <3>2 DEF Prepare
    <3>3. QED
      BY <1>6, <3>1, <3>2
  <2>2. CASE pc' = pc
    BY <2>1, <2>2 DEF ScenarioCount
  <2>3. CASE pc[r] = "idle" /\ pc'[r] = "preparing"
    BY <2>1, <2>3 DEF ScenarioCount
  <2>4. QED
    BY <2>1, <2>2, <2>3
<1>7. CASE Prepared(r)
  BY <1>7 DEF Prepared, ScenarioCount
<1>8. CASE Attempt(r) \/ Read(r)
  <2>1. results' = results /\ pc' = pc
    BY <1>8 DEF Attempt, Read
  <2>2. QED
    BY <2>1 DEF ScenarioCount
<1>9. CASE takeCertificate(r)
  <2>1. results' = results /\ Len(R) = 0 /\ pc'[r] \in {"issuing", "thrown"}
    BY <1>9 DEF takeCertificate, Called, ScenarioCount
  <2>2. QED
    BY <1>3, <2>1
<1>10. CASE callThrows(r)
  BY <1>10 DEF callThrows, ScenarioCount
<1>11. CASE issueScenario(r)
  BY <1>4, <1>11 DEF issueScenario, ScenarioCount
<1>12. CASE classifyResponse(r)
  BY <1>4, <1>12 DEF classifyResponse, Called
<1>13. CASE readProgress(r) \/ readForError(r) \/ writeError(r)
  BY <1>13 DEF readProgress, readForError, writeError, ScenarioCount
<1>14. CASE writeProgress(r) \/ progressThrows(r)
  BY <1>5, <1>14 DEF writeProgress, progressThrows
<1>15. CASE takeCsid(r)
  BY <1>15 DEF takeCsid, Called, ScenarioCount
<1> HIDE DEF Good
<1>16. QED
  BY <1>6, <1>7, <1>8, <1>9, <1>10, <1>11, <1>12, <1>13, <1>14, <1>15 DEF Step

\* The verdict on a scenario is that of ZATCA's answer to its invoice.
LEMMA PassedNext ==
    ASSUME Shape, CallsAwaited, ScenarioCount, PassedWasChecked, NEW r \in Run,
           onboard(r) \/ Prepare(r) \/ (Step(r) /\ UNCHANGED openssl)
    PROVE  PassedWasChecked'
<1>1. Elsewhere(r)
  BY StepElsewhere
<1> DEFINE R == results[r]
           Checked(i) == <<cert'[r].id, Scenarios[i]>> \in handled'
           Good == /\ \A i \in DOMAIN results'[r] : results'[r][i] => Checked(i)
                   /\ pc'[r] = "checking" /\ Heard(r)' =>
                        Checked(Len(results'[r]) + 1)
<1>2. SUFFICES Good
  <2>1. \A q \in Run \ {r} :
          /\ pc'[q] = pc[q] /\ results'[q] = results[q] /\ cert'[q] = cert[q]
          /\ Heard(q)' => Heard(q)
    BY <1>1 DEF Elsewhere, Heard
  <2>2. handled \subseteq handled'
    BY <1>1 DEF Elsewhere
  <2>3. QED
    BY <1>2, <2>1, <2>2 DEF PassedWasChecked
<1>3. R \in Seq(BOOLEAN) /\ handled \subseteq handled'
  BY <1>1 DEF Shape, Elsewhere
<1>4. /\ \A i \in DOMAIN R : R[i] => <<cert[r].id, Scenarios[i]>> \in handled
      /\ pc[r] = "checking" /\ Heard(r) =>
           <<cert[r].id, Scenarios[Len(R) + 1]>> \in handled
  BY DEF PassedWasChecked
<1>5. ASSUME results' = results, cert' = cert,
             pc'[r] = "checking" /\ Heard(r)' => pc[r] = "checking" /\ Heard(r)
      PROVE  Good
  BY <1>3, <1>4, <1>5
<1>6. ASSUME NEW b \in BOOLEAN, Report(r, b), cert' = cert,
             b => <<cert[r].id, Scenarios[Len(R) + 1]>> \in handled
      PROVE  Good
  <2>1. results'[r] = Append(R, b) /\ pc'[r] = "reporting"
    BY <1>6 DEF Report, GoTo, Shape
  <2>2. /\ DOMAIN Append(R, b) = 1 .. (Len(R) + 1)
        /\ DOMAIN R = 1 .. Len(R) /\ Len(R) \in Nat
        /\ \A i \in 1 .. Len(R) : Append(R, b)[i] = R[i]
        /\ Append(R, b)[Len(R) + 1] = b
    BY <1>3
  <2>3. ASSUME NEW i \in 1 .. (Len(R) + 1), Append(R, b)[i] PROVE Checked(i)
    <3>1. CASE i \in 1 .. Len(R)
      <4>1. R[i]
        BY <2>2, <2>3, <3>1
      <4>2. QED
        BY <1>3, <1>4, <1>6, <2>2, <3>1, <4>1
    <3>2. CASE i = Len(R) + 1
      <4>1. b
        BY <2>2, <2>3, <3>2
      <4>2. QED
        BY <1>3, <1>6, <3>2, <4>1
    <3>3. QED
      BY <2>2, <3>1, <3>2
  <2> HIDE DEF Checked
  <2>4. QED
    BY <2>1, <2>2, <2>3
<1> HIDE DEF Good, Checked
<1> USE DEF Shape, GoTo, zatca, local
<1>7. CASE onboard(r)
  <2>1. results' = results /\ cert' = cert /\ pc'[r] = "preparing"
    BY <1>7 DEF onboard
  <2>2. QED
    BY <1>5, <2>1
<1>8. CASE Prepare(r)
  <2>1. results' = results /\ cert' = cert /\ pc' = pc /\ http' = http
    BY <1>8 DEF Prepare
  <2>2. QED
    BY <1>5, <2>1 DEF Heard
<1>9. CASE Attempt(r)
  <2>1. PICK outcome \in Answers \cup Failures :
          /\ fetch(r, outcome)
          /\ \/ TakesEffect(r, outcome)
             \/ outcome # "ok" /\ UNCHANGED <<zatca, answer>>
    BY <1>9 DEF Attempt
  <2>2. UNCHANGED <<pc, cert, results>> /\ (Heard(r)' <=> outcome = "ok")
    BY <1>9, <2>1, FetchEffect DEF Attempt
  <2>3. CASE pc[r] = "checking" /\ outcome = "ok"
    <3>1. CheckInvoice(r)
      BY <2>1, <2>3 DEF TakesEffect, IssueCertificate, IssueCsid
    <3>2. <<cert[r].id, Scenarios[Len(R) + 1]>> \in handled'
      BY <3>1 DEF CheckInvoice
    <3>3. QED
      BY <1>3, <1>4, <2>2, <3>2 DEF Good, Checked
  <2>4. CASE ~(pc[r] = "checking" /\ outcome = "ok")
    BY <1>5, <2>2, <2>4
  <2>5. QED
    BY <2>3, <2>4
<1>10. CASE Read(r)
  <2>1. PICK intact \in BOOLEAN : readBody(r, intact)
    BY <1>10 DEF Read
  <2>2. Heard(r)' => Heard(r)
    BY <2>1, ReadEffect DEF Heard
  <2>3. UNCHANGED <<pc, cert, results>>
    BY <1>10 DEF Read
  <2>4. QED
    BY <1>5, <2>2, <2>3
<1>11. CASE takeCertificate(r)
  <2>1. Len(R) = 0 /\ results' = results /\ pc'[r] # "checking"
    BY <1>11 DEF takeCertificate, Called, ScenarioCount
  <2>2. DOMAIN R = {}
    BY <1>3, <2>1
  <2>3. QED
    BY <2>1, <2>2 DEF Good
<1>12. CASE Prepared(r) \/ callThrows(r)
  <2>1. UNCHANGED <<cert, results>> /\ pc'[r] # "checking"
    BY <1>12 DEF Prepared, callThrows
  <2>2. QED
    BY <1>5, <2>1
<1>13. CASE issueScenario(r)
  <2>1. CASE Report(r, FALSE)
    BY <1>6, <1>13, <2>1 DEF issueScenario
  <2>2. CASE request(r) /\ UNCHANGED results
    <3>1. ~Heard(r)' /\ cert' = cert
      BY <1>13, <2>2, CallEffect DEF issueScenario, Heard
    <3>2. QED
      BY <1>5, <2>2, <3>1
  <2>3. QED
    BY <1>13, <2>1, <2>2 DEF issueScenario
<1>14. CASE classifyResponse(r)
  <2>1. CASE Called(r, "checking", "returned")
    <3>1. pc[r] = "checking" /\ Heard(r)
      BY <2>1 DEF Called, CallsAwaited, Heard
    <3>2. PICK b \in BOOLEAN : Report(r, b)
      BY <1>14 DEF classifyResponse
    <3>3. QED
      BY <1>4, <1>6, <1>14, <3>1, <3>2 DEF classifyResponse
  <2>2. CASE Report(r, FALSE)
    BY <1>6, <1>14, <2>2 DEF classifyResponse
  <2>3. QED
    BY <1>14, <2>1, <2>2 DEF classifyResponse
<1>15. CASE readProgress(r) \/ readForError(r) \/ writeError(r) \/ takeCsid(r)
  <2>1. UNCHANGED <<cert, results>> /\ pc'[r] # "checking"
    BY <1>15 DEF readProgress, readForError, writeError, takeCsid
  <2>2. QED
    BY <1>5, <2>1
<1>16. CASE writeProgress(r) \/ progressThrows(r)
  <2>1. UNCHANGED <<cert, results>> /\ pc'[r] # "checking"
    BY <1>16 DEF writeProgress, progressThrows, Onward
  <2>2. QED
    BY <1>5, <2>1
<1>17. QED
  BY <1>7, <1>8, <1>9, <1>10, <1>11, <1>12, <1>13, <1>14, <1>15, <1>16 DEF Step

\* A CSID is issued to a run that has passed every scenario, on its certificate;
\* what the run does not hear of is remembered in unheard.
LEMMA CsidNext ==
    ASSUME Shape, CallsAwaited, ScenarioCount, OwnCsid, HeardOnce, NEW r \in Run,
           onboard(r) \/ Prepare(r) \/ (Step(r) /\ UNCHANGED openssl)
    PROVE  OwnCsid' /\ HeardOnce'
<1>1. Elsewhere(r)
  BY StepElsewhere
<1> DEFINE
      Late == {"exchanging", "returned", "thrown", "marking", "failed"}
      Good ==
        /\ \A k \in csids' : k.run = r =>
             k.cert = cert'[r].id /\ pc'[r] \in Late /\ results'[r] = AllPassed
        /\ pc'[r] = "exchanging" /\ Heard(r)' =>
             answer'[r] \in csids' /\ answer'[r].run = r
        /\ pc'[r] = "returned" =>
             /\ bundle'[r].key = r
             /\ bundle'[r].cert = cert'[r]
             /\ bundle'[r].csid \in csids'
             /\ bundle'[r].csid.run = r
        /\ r \notin unheard' =>
             \A k \in csids' : k.run = r =>
               \/ pc'[r] = "exchanging" /\ Heard(r)' /\ k = answer'[r]
               \/ pc'[r] = "returned" /\ k = bundle'[r].csid
<1>2. SUFFICES Good
  <2>1. \A q \in Run \ {r} :
          /\ pc'[q] = pc[q] /\ results'[q] = results[q] /\ cert'[q] = cert[q]
          /\ answer'[q] = answer[q] /\ bundle'[q] = bundle[q]
          /\ Heard(q)' <=> Heard(q)
          /\ q \in unheard' <=> q \in unheard
    BY <1>1 DEF Elsewhere, Heard
  <2>2. csids \subseteq csids' /\ \A k \in csids' : k \in csids \/ k.run = r
    BY <1>1 DEF Elsewhere
  <2>3. \A k \in csids' : k.run \in Run /\ (k.run # r => k \in csids)
    BY <2>2 DEF OwnCsid
  <2>4. OwnCsid'
    BY <1>2, <2>1, <2>2, <2>3 DEF OwnCsid
  <2>5. HeardOnce'
    BY <1>2, <2>1, <2>2, <2>3 DEF HeardOnce
  <2>6. QED
    BY <2>4, <2>5
<1>3. ASSUME csids' = csids,
             pc[r] \in Late => /\ cert'[r] = cert[r] /\ results'[r] = results[r]
                               /\ pc'[r] \in Late,
             pc[r] = "returned" => pc'[r] = "returned",
             pc'[r] = "returned" => pc[r] = "returned" /\ bundle'[r] = bundle[r],
             pc'[r] = "exchanging" /\ Heard(r)' =>
               pc[r] = "exchanging" /\ Heard(r) /\ answer'[r] = answer[r],
             pc[r] = "exchanging" /\ Heard(r) =>
               (pc'[r] = "exchanging" /\ Heard(r)') \/ r \in unheard',
             unheard \subseteq unheard'
      PROVE  Good
  <2>1. \A k \in csids : k.run = r =>
          k.cert = cert[r].id /\ pc[r] \in Late /\ results[r] = AllPassed
    BY DEF OwnCsid
  <2>2. pc[r] = "returned" =>
          /\ bundle[r].key = r /\ bundle[r].cert = cert[r]
          /\ bundle[r].csid \in csids /\ bundle[r].csid.run = r
    BY DEF OwnCsid
  <2>3. pc[r] = "exchanging" /\ Heard(r) => answer[r] \in csids /\ answer[r].run = r
    BY DEF OwnCsid
  <2>4. r \notin unheard =>
          \A k \in csids : k.run = r =>
            \/ pc[r] = "exchanging" /\ Heard(r) /\ k = answer[r]
            \/ pc[r] = "returned" /\ k = bundle[r].csid
    BY DEF HeardOnce
  <2>5. pc'[r] = "returned" => cert'[r] = cert[r]
    BY <1>3
  <2>6. QED
    BY <1>3, <2>1, <2>2, <2>3, <2>4, <2>5
<1> HIDE DEF Good
<1>4. unheard \subseteq unheard'
  BY <1>1 DEF Elsewhere
<1> USE DEF Shape, GoTo, zatca, local
<1>5. CASE onboard(r)
  <2>1. /\ UNCHANGED <<csids, cert, results, bundle>>
        /\ pc[r] = "idle" /\ pc'[r] = "preparing"
    BY <1>5 DEF onboard
  <2>2. QED
    BY <1>3, <1>4, <2>1
<1>6. CASE Prepare(r)
  <2>1. UNCHANGED <<csids, cert, results, bundle, pc, http, answer>>
    BY <1>6 DEF Prepare
  <2>2. QED
    BY <1>3, <1>4, <2>1 DEF Heard
<1>7. CASE Prepared(r)
  <2>1. /\ UNCHANGED <<csids, cert, results, bundle>>
        /\ pc[r] = "preparing" /\ pc'[r] \in {"certifying", "thrown"}
    BY <1>7 DEF Prepared
  <2>2. QED
    BY <1>3, <1>4, <2>1
<1>8. CASE Attempt(r)
  <2>1. PICK outcome \in Answers \cup Failures :
          /\ fetch(r, outcome)
          /\ \/ /\ TakesEffect(r, outcome)
                /\ unheard' = IF outcome = "ok" THEN unheard ELSE unheard \cup {r}
             \/ outcome # "ok" /\ UNCHANGED <<zatca, answer, unheard>>
    BY <1>8 DEF Attempt
  <2>2. /\ UNCHANGED <<pc, cert, results, bundle>> /\ ~Heard(r)
        /\ Heard(r)' <=> outcome = "ok"
        /\ pc[r] \in Calling
    BY <1>8, <2>1, FetchEffect DEF Attempt, Heard, CallsAwaited
  <2>3. CASE pc[r] # "exchanging" \/ (outcome # "ok" /\ UNCHANGED <<zatca, answer>>)
    <3>1. csids' = csids
      BY <2>1, <2>3 DEF TakesEffect, IssueCertificate, CheckInvoice, IssueCsid
    <3>2. ~(pc'[r] = "exchanging" /\ Heard(r)') /\ pc[r] # "returned"
      BY <2>2, <2>3 DEF Calling
    <3>3. QED
      BY <1>3, <1>4, <2>2, <3>1, <3>2
  <2>4. CASE /\ pc[r] = "exchanging" /\ IssueCsid(r, outcome)
             /\ outcome # "ok" => r \in unheard'
    <3> DEFINE new == [id |-> Fresh(r, csids), cert |-> cert[r].id, run |-> r]
    <3>1. /\ csids' = csids \cup {new}
          /\ outcome = "ok" => answer' = [answer EXCEPT ![r] = new]
      BY <2>4 DEF IssueCsid, Answered
    <3>2. new.cert = cert[r].id /\ new.run = r
      OBVIOUS
    <3>3. outcome = "ok" => answer'[r] = new
      BY <3>1 DEF Total
    <3>4. results[r] = AllPassed
      BY <2>4 DEF ScenarioCount
    <3>5. \A k \in csids : k.run = r =>
            k.cert = cert[r].id /\ results[r] = AllPassed
      BY DEF OwnCsid
    <3>6. r \notin unheard => \A k \in csids : k.run # r
      BY <2>2, <2>4 DEF HeardOnce
    <3> HIDE DEF new
    <3>7. QED
      BY <1>4, <2>2, <2>4, <3>1, <3>2, <3>3, <3>4, <3>5, <3>6 DEF Good
  <2>5. QED
    BY <2>1, <2>3, <2>4 DEF TakesEffect, IssueCertificate, CheckInvoice
<1>9. CASE Read(r)
  <2>1. PICK intact \in BOOLEAN :
          /\ readBody(r, intact)
          /\ unheard' = IF http[r].status = "ok" /\ ~intact
                        THEN unheard \cup {r} ELSE unheard
          /\ intact => answer' = answer
    BY <1>9 DEF Read
  <2>2. /\ http[r].phase = "reading"
        /\ Heard(r)' => intact /\ Heard(r)
        /\ Heard(r) /\ intact => Heard(r)'
    BY <2>1, ReadEffect DEF Heard
  <2>3. Heard(r) /\ ~intact => r \in unheard'
    BY <2>1 DEF Heard
  <2>4. UNCHANGED <<pc, cert, results, bundle, csids>> /\ pc[r] # "returned"
    BY <1>9, <2>2 DEF Read, CallsAwaited, Calling
  <2>5. QED
    BY <1>3, <1>4, <2>1, <2>2, <2>3, <2>4
<1>10. CASE takeCertificate(r)
  <2>1. /\ UNCHANGED <<csids, bundle>>
        /\ pc[r] = "certifying" /\ pc'[r] \in {"issuing", "thrown"}
    BY <1>10 DEF takeCertificate, Called
  <2>2. QED
    BY <1>3, <1>4, <2>1
<1>11. CASE callThrows(r)
  <2>1. /\ UNCHANGED <<csids, cert, results, bundle>> /\ ~Heard(r)
        /\ pc[r] # "returned" /\ pc'[r] = "thrown"
    BY <1>11 DEF callThrows, Called, Heard
  <2>2. QED
    BY <1>3, <1>4, <2>1
<1>12. CASE issueScenario(r) \/ classifyResponse(r)
  <2>1. /\ UNCHANGED <<csids, cert, bundle>>
        /\ pc[r] \in {"issuing", "checking"} /\ pc'[r] \in {"checking", "reporting"}
    BY <1>12 DEF issueScenario, classifyResponse, Called, Report
  <2>2. QED
    BY <1>3, <1>4, <2>1
<1>13. CASE readProgress(r)
  <2>1. /\ UNCHANGED <<csids, cert, results, bundle>>
        /\ pc[r] = "reporting" /\ pc'[r] = "writing"
    BY <1>13 DEF readProgress
  <2>2. QED
    BY <1>3, <1>4, <2>1
<1>14. CASE writeProgress(r) \/ progressThrows(r)
  <2>1. /\ UNCHANGED <<csids, cert, results, bundle>> /\ Onward(r)
        /\ pc[r] \in {"reporting", "writing"}
    BY <1>14 DEF writeProgress, progressThrows
  <2>2. \/ pc'[r] \in {"issuing", "thrown"}
        \/ pc'[r] = "exchanging" /\ ~Heard(r)'
    BY <2>1, CallEffect DEF Onward, Heard
  <2>3. QED
    BY <1>3, <1>4, <2>1, <2>2
<1>15. CASE takeCsid(r)
  <2>1. /\ UNCHANGED <<csids, cert, results>>
        /\ pc[r] = "exchanging" /\ Heard(r)
    BY <1>15 DEF takeCsid, Called, CallsAwaited, Heard
  <2>2. CASE pc'[r] = "thrown"
    <3>1. r \in unheard'
      BY <1>15, <2>2 DEF takeCsid
    <3>2. QED
      BY <1>3, <1>4, <2>1, <2>2, <3>1
  <2>3. CASE /\ bundle' = [bundle EXCEPT ![r] = [id |-> 1, key |-> r,
                             cert |-> cert[r], csid |-> answer[r]]]
             /\ pc'[r] = "returned"
    <3>1. bundle'[r] = [id |-> 1, key |-> r, cert |-> cert[r], csid |-> answer[r]]
      BY <2>3 DEF Total
    <3>2. /\ bundle'[r].key = r /\ bundle'[r].cert = cert[r]
          /\ bundle'[r].csid = answer[r]
      BY <3>1
    <3>3. answer[r] \in csids /\ answer[r].run = r
      BY <2>1 DEF OwnCsid
    <3>4. \A k \in csids : k.run = r =>
            k.cert = cert[r].id /\ results[r] = AllPassed
      BY DEF OwnCsid
    <3>5. r \notin unheard => \A k \in csids : k.run = r => k = answer[r]
      BY <2>1 DEF HeardOnce
    <3>6. QED
      BY <1>4, <2>1, <2>3, <3>2, <3>3, <3>4, <3>5 DEF Good
  <2>4. QED
    BY <1>15, <2>2, <2>3 DEF takeCsid
<1>16. CASE readForError(r) \/ writeError(r)
  <2>1. /\ UNCHANGED <<csids, cert, results, bundle>>
        /\ pc[r] \in {"thrown", "marking"} /\ pc'[r] \in {"marking", "failed"}
    BY <1>16 DEF readForError, writeError
  <2>2. QED
    BY <1>3, <1>4, <2>1
<1>17. QED
  BY <1>5, <1>6, <1>7, <1>8, <1>9, <1>10, <1>11, <1>12, <1>13, <1>14, <1>15,
     <1>16 DEF Step

-----------------------------------------------------------------------------
(* The progress row. *)

\* A run that has ended takes no step of onboard.
LEMMA StepRuns ==
    ASSUME CallsAwaited, NEW r \in Run, Step(r)
    PROVE  Running(r)
<1> USE DEF Running, Ended, CallsAwaited, Calling
<1>1. CASE Attempt(r) \/ Read(r)
  BY <1>1 DEF Attempt, Read, fetch, readBody
<1>2. CASE \/ Prepared(r) \/ takeCertificate(r) \/ callThrows(r)
           \/ issueScenario(r) \/ classifyResponse(r) \/ takeCsid(r)
  BY <1>2 DEF Prepared, takeCertificate, callThrows, issueScenario,
              classifyResponse, takeCsid, Called
<1>3. CASE \/ readProgress(r) \/ writeProgress(r) \/ progressThrows(r)
           \/ readForError(r) \/ writeError(r)
  BY <1>3 DEF readProgress, writeProgress, progressThrows, readForError,
              writeError
<1>4. QED
  BY <1>1, <1>2, <1>3 DEF Step

\* Steps of another run do not disturb what RowInv says of q.
LEMMA RowElsewhere ==
    ASSUME Shape, CallsAwaited, RowInv, NEW r \in Run,
           onboard(r) \/ Prepare(r) \/ (Step(r) /\ UNCHANGED openssl),
           NEW q \in Run, q # r
    PROVE  /\ pc'[q] \in {"writing", "marking"} => read'[q] \in Progress
           /\ Alone(q)' =>
                /\ \A x \in Run : x # q => ~Running(x)'
                /\ pc'[q] \in {"writing", "marking"} => read'[q] = row'
                /\ \A i \in DOMAIN results'[q] :
                     \/ i = Len(results'[q]) /\ pc'[q] \in {"reporting", "writing"}
                     \/ Written(q, i)'
                /\ pc'[q] = "failed" =>
                     row'.lastError = q \/ "lastError" \in missed'[q]
<1>1. /\ pc'[q] = pc[q] /\ read'[q] = read[q]
      /\ results'[q] = results[q] /\ missed'[q] = missed[q]
  BY StepElsewhere DEF Elsewhere
<1>2. SUFFICES ASSUME Alone(q)'
               PROVE  Alone(q) /\ row' = row /\ pc' = pc
  <2>1. pc[q] \in {"writing", "marking"} => read[q] \in Progress
    BY DEF RowInv
  <2>2. ASSUME Alone(q), row' = row, pc' = pc
        PROVE  /\ \A x \in Run : x # q => ~Running(x)'
               /\ pc'[q] \in {"writing", "marking"} => read'[q] = row'
               /\ \A i \in DOMAIN results'[q] :
                    \/ i = Len(results'[q]) /\ pc'[q] \in {"reporting", "writing"}
                    \/ Written(q, i)'
               /\ pc'[q] = "failed" =>
                    row'.lastError = q \/ "lastError" \in missed'[q]
    BY <1>1, <2>2 DEF RowInv, Running, Written
  <2>3. QED
    BY <1>1, <1>2, <2>1, <2>2
<1>3. ~onboard(r)
  BY <1>2 DEF onboard, Alone
<1>4. Alone(q)
  <2>1. latest' = latest /\ overlap' = overlap
    BY <1>3 DEF Prepare, history, Step, Prepared, Attempt, Read, takeCertificate,
       callThrows, issueScenario, classifyResponse, readProgress, writeProgress,
       progressThrows, takeCsid, readForError, writeError
  <2>2. QED
    BY <1>1, <1>2, <2>1 DEF Alone
<1>5. ~Running(r)
  BY <1>4 DEF RowInv
<1>6. QED
  BY <1>3, <1>4, <1>5, StepRuns DEF Prepare

\* A run that is alone reads the row, changes one entry and writes it back with
\* nobody in between.
LEMMA RowNext ==
    ASSUME Shape, CallsAwaited, ScenarioCount, RowInv, NEW r \in Run,
           onboard(r) \/ Prepare(r) \/ (Step(r) /\ UNCHANGED openssl)
    PROVE  RowInv'
<1> DEFINE R == results[r]
           Solo == \A x \in Run : x # r => ~Running(x)'
           Rest ==
             /\ pc'[r] \in {"writing", "marking"} => read'[r] = row'
             /\ \A i \in DOMAIN results'[r] :
                  \/ i = Len(results'[r]) /\ pc'[r] \in {"reporting", "writing"}
                  \/ Written(r, i)'
             /\ pc'[r] = "failed" =>
                  row'.lastError = r \/ "lastError" \in missed'[r]
           Good == /\ pc'[r] \in {"writing", "marking"} => read'[r] \in Progress
                   /\ Alone(r)' => Solo /\ Rest
<1>1. SUFFICES Good
  BY <1>1, RowElsewhere DEF RowInv
<1>2. CASE onboard(r)
  <2>1. /\ pc'[r] = "preparing" /\ pc[r] = "idle" /\ results' = results
        /\ \A x \in Run : x # r => pc'[x] = pc[x]
    BY <1>2 DEF onboard, GoTo, Shape, local
  <2>2. Len(R) = 0 /\ R \in Seq(BOOLEAN)
    BY <2>1 DEF ScenarioCount, Shape
  <2>3. DOMAIN R = {}
    BY <2>2
  <2>4. ASSUME Alone(r)', NEW x \in Run, x # r PROVE ~Running(x)'
    <3>1. <<r, x>> \notin overlap'
      BY <2>4 DEF Alone
    <3>2. ~Running(x)
      BY <1>2, <3>1 DEF onboard
    <3>3. QED
      BY <2>1, <2>4, <3>2 DEF Running
  <2>5. QED
    BY <2>1, <2>3, <2>4
<1>3. ASSUME ~onboard(r), Alone(r)', pc[r] # "idle" PROVE Alone(r) /\ Solo
  <2>1. latest' = latest /\ overlap' = overlap
    BY <1>3 DEF Prepare, history, Step, Prepared, Attempt, Read, takeCertificate,
       callThrows, issueScenario, classifyResponse, readProgress, writeProgress,
       progressThrows, takeCsid, readForError, writeError
  <2>2. Alone(r)
    BY <1>3, <2>1 DEF Alone
  <2>3. \A x \in Run : x # r => pc'[x] = pc[x] /\ ~Running(x)
    BY <2>2, StepElsewhere DEF Elsewhere, RowInv
  <2>4. QED
    BY <2>2, <2>3 DEF Running
<1>4. Step(r) => pc[r] # "idle"
  BY StepRuns DEF Running, Ended
<1>5. /\ R \in Seq(BOOLEAN)
      /\ Alone(r) => /\ pc[r] \in {"writing", "marking"} => read[r] = row
                     /\ \A i \in DOMAIN R :
                          \/ i = Len(R) /\ pc[r] \in {"reporting", "writing"}
                          \/ Written(r, i)
                     /\ pc[r] = "failed" =>
                          row.lastError = r \/ "lastError" \in missed[r]
  BY DEF RowInv, Shape
<1>6. ASSUME Step(r), ~onboard(r), row' = row, results' = results,
             missed' = missed, pc[r] \notin {"reporting", "writing"},
             pc'[r] \notin {"writing", "marking", "failed"}
      PROVE  Good
  <2>1. ASSUME Alone(r)' PROVE Rest
    <3>1. \A i \in DOMAIN R : Written(r, i)
      BY <1>3, <1>4, <1>5, <1>6, <2>1
    <3>2. \A i \in DOMAIN R : Written(r, i)'
      BY <1>6, <3>1 DEF Written
    <3>3. QED
      BY <1>6, <3>2
  <2>2. QED
    BY <1>3, <1>4, <1>6, <2>1
<1>7. CASE Prepare(r) /\ ~onboard(r)
  <2>1. UNCHANGED <<pc, row, read, results, missed, latest, overlap>>
    BY <1>7 DEF Prepare, local, history
  <2>2. QED
    BY <2>1 DEF RowInv, Alone, Written, Running
<1>8. ASSUME NEW b \in BOOLEAN, Report(r, b), row' = row, missed' = missed,
             Step(r), ~onboard(r), pc[r] \in {"issuing", "checking"}
      PROVE  Good
  <2>1. results'[r] = Append(R, b) /\ pc'[r] = "reporting"
    BY <1>8 DEF Report, GoTo, Shape
  <2>2. /\ DOMAIN Append(R, b) = 1 .. (Len(R) + 1) /\ Len(R) \in Nat
        /\ DOMAIN R = 1 .. Len(R) /\ Len(Append(R, b)) = Len(R) + 1
        /\ \A i \in 1 .. Len(R) : Append(R, b)[i] = R[i]
    BY <1>5
  <2>3. ASSUME Alone(r)', NEW i \in 1 .. (Len(R) + 1), i # Len(R) + 1
        PROVE  Written(r, i)'
    <3>1. i \in DOMAIN R
      BY <2>2, <2>3
    <3>2. Written(r, i)
      BY <1>3, <1>4, <1>5, <1>8, <2>3, <3>1
    <3>3. results'[r][i] = R[i]
      BY <2>1, <2>2, <3>1
    <3>4. QED
      BY <1>8, <3>2, <3>3 DEF Written
  <2>4. QED
    BY <1>3, <1>4, <1>8, <2>1, <2>2, <2>3
<1>9. ASSUME pc[r] \in {"reporting", "writing"}
      PROVE  /\ Len(R) \in DOMAIN R /\ DOMAIN R = 1 .. Len(R) /\ Len(R) \in Nat
             /\ Current(r) = Scenarios[Len(R)] /\ Current(r) \in Names
             /\ \A i \in DOMAIN R : /\ Scenarios[i] \in Names
                                    /\ i # Len(R) => Scenarios[i] # Current(r)
  <2>1. Len(R) <= Len(Scenarios) /\ Scenarios \in Seq(STRING)
    BY ScenariosAssumption DEF ScenarioCount
  <2>2. DOMAIN R = 1 .. Len(R) /\ DOMAIN Scenarios = 1 .. Len(Scenarios)
        /\ Len(R) \in Nat /\ Len(Scenarios) \in Nat
    BY <1>5, <2>1
  <2>3. \A i \in DOMAIN R : i \in DOMAIN Scenarios
    BY <2>1, <2>2
  <2>4. Len(R) \in DOMAIN R /\ Current(r) \in Names
    BY <1>9, CurrentType
  <2>5. QED
    BY <2>2, <2>3, <2>4, ScenariosAssumption DEF Current, Names
<1>10. ASSUME Onward(r)
       PROVE  pc'[r] \in {"issuing", "exchanging", "thrown"}
  BY <1>10 DEF Onward, GoTo, Shape
<1>11. CASE writeProgress(r) /\ Step(r) /\ ~onboard(r)
  <2>1. /\ pc[r] = "writing" /\ row' = Merged(r) /\ Onward(r)
        /\ UNCHANGED <<results, missed>>
    BY <1>11 DEF writeProgress, history
  <2>2. ASSUME Alone(r)' PROVE Rest
    <3>1. Alone(r) /\ read[r] = row
      BY <1>3, <1>4, <1>5, <1>11, <2>1, <2>2
    <3>2. /\ row'.scenarios[Current(r)] = Verdict(r)
          /\ \A s \in Names : s # Current(r) =>
               row'.scenarios[s] = row.scenarios[s]
      BY <2>1, <3>1, MergedType DEF RowInv
    <3>3. ASSUME NEW i \in DOMAIN R PROVE Written(r, i)'
      <4>1. CASE i = Len(R)
        BY <1>9, <2>1, <3>2, <4>1 DEF Written, Verdict
      <4>2. CASE i # Len(R)
        <5>1. Written(r, i)
          BY <1>5, <3>1, <4>2
        <5>2. row'.scenarios[Scenarios[i]] = row.scenarios[Scenarios[i]]
          BY <1>9, <2>1, <3>2, <4>2
        <5>3. QED
          BY <2>1, <5>1, <5>2 DEF Written
      <4>3. QED
        BY <4>1, <4>2
    <3>4. QED
      BY <1>10, <2>1, <3>3
  <2>3. QED
    BY <1>3, <1>4, <1>10, <1>11, <2>1, <2>2
<1>12. CASE progressThrows(r) /\ Step(r) /\ ~onboard(r)
  <2>1. /\ pc[r] \in {"reporting", "writing"} /\ row' = row /\ Onward(r)
        /\ results' = results
        /\ missed' = [missed EXCEPT ![r] = @ \cup {Current(r)}]
    BY <1>12 DEF progressThrows
  <2>2. missed'[r] = missed[r] \cup {Current(r)}
    BY <2>1 DEF Shape, Total
  <2>3. ASSUME Alone(r)', NEW i \in DOMAIN R PROVE Written(r, i)'
    <3>1. CASE i = Len(R)
      BY <1>9, <2>1, <2>2, <3>1 DEF Written
    <3>2. CASE i # Len(R)
      <4>1. Written(r, i)
        BY <1>3, <1>4, <1>5, <1>12, <2>3, <3>2
      <4>2. QED
        BY <2>1, <2>2, <4>1 DEF Written
    <3>3. QED
      BY <3>1, <3>2
  <2>4. QED
    BY <1>3, <1>4, <1>10, <1>12, <2>1, <2>3
<1>13. CASE (readProgress(r) \/ readForError(r)) /\ Step(r) /\ ~onboard(r)
  <2>1. /\ \/ pc[r] = "reporting" /\ pc'[r] = "writing"
           \/ pc[r] = "thrown" /\ pc'[r] = "marking"
        /\ row' = row /\ read'[r] = row /\ results' = results /\ missed' = missed
    BY <1>13 DEF readProgress, readForError, GoTo, Shape, history
  <2>2. row \in Progress
    BY DEF Shape
  <2>3. ASSUME Alone(r)', NEW i \in DOMAIN R
        PROVE  \/ i = Len(R) /\ pc'[r] \in {"reporting", "writing"}
               \/ Written(r, i)'
    <3>1. \/ i = Len(R) /\ pc[r] = "reporting"
          \/ Written(r, i)
      BY <1>3, <1>4, <1>5, <1>13, <2>1, <2>3
    <3>2. QED
      BY <2>1, <3>1 DEF Written
  <2>4. QED
    BY <1>3, <1>4, <1>13, <2>1, <2>2, <2>3
<1>14. CASE writeError(r) /\ Step(r) /\ ~onboard(r)
  <2>1. /\ pc[r] = "marking" /\ pc'[r] = "failed" /\ results' = results
        /\ \/ row' = [read[r] EXCEPT !.lastError = r] /\ missed' = missed
           \/ row' = row /\ missed' = [missed EXCEPT ![r] = @ \cup {"lastError"}]
    BY <1>14 DEF writeError, GoTo, Shape
  <2>2. ASSUME Alone(r)' PROVE Rest
    <3>1. Alone(r) /\ read[r] = row /\ row \in Progress
      BY <1>3, <1>4, <1>5, <1>14, <2>1, <2>2 DEF Shape
    <3>2. /\ row'.scenarios = row.scenarios
          /\ missed[r] \subseteq missed'[r]
          /\ row'.lastError = r \/ "lastError" \in missed'[r]
      BY <2>1, <3>1 DEF Progress, Shape, Total
    <3>3. \A i \in DOMAIN R : Written(r, i)'
      BY <1>5, <2>1, <3>1, <3>2 DEF Written
    <3>4. QED
      BY <2>1, <3>2, <3>3
  <2>3. QED
    BY <1>3, <1>4, <1>14, <2>1, <2>2
<1> HIDE DEF Good
<1> USE DEF Shape, GoTo, local, history
<1>15. CASE (Attempt(r) \/ Read(r)) /\ Step(r) /\ ~onboard(r)
  <2>1. UNCHANGED <<row, results, missed, pc>>
    BY <1>15 DEF Attempt, Read
  <2>2. pc[r] \in Calling
    BY <1>15 DEF Attempt, Read, fetch, readBody, CallsAwaited
  <2>3. QED
    BY <1>6, <1>15, <2>1, <2>2 DEF Calling
<1>16. CASE Prepared(r) /\ Step(r) /\ ~onboard(r)
  BY <1>6, <1>16 DEF Prepared
<1>17. CASE takeCertificate(r) /\ Step(r) /\ ~onboard(r)
  BY <1>6, <1>17 DEF takeCertificate, Called
<1>18. CASE callThrows(r) /\ Step(r) /\ ~onboard(r)
  BY <1>6, <1>18 DEF callThrows, Called
<1>19. CASE takeCsid(r) /\ Step(r) /\ ~onboard(r)
  BY <1>6, <1>19 DEF takeCsid, Called
<1>20. CASE issueScenario(r) /\ Step(r) /\ ~onboard(r)
  BY <1>6, <1>8, <1>20 DEF issueScenario
<1>21. CASE classifyResponse(r) /\ Step(r) /\ ~onboard(r)
  BY <1>8, <1>21 DEF classifyResponse, Called
<1>22. QED
  BY <1>2, <1>7, <1>11, <1>12, <1>13, <1>14, <1>15, <1>16, <1>17, <1>18, <1>19,
     <1>20, <1>21 DEF Step

-----------------------------------------------------------------------------
(* The invariant as a whole. *)

\* What the runs hold was issued: certificates, checks and CSIDs.
Issued ==
    /\ handled \subseteq {c.id : c \in certs} \X Names
    /\ \A k \in csids : \E c \in certs : c.id = k.cert
    /\ \A r \in Run : cert[r] # None => cert[r] \in certs

\* Every step of a run keeps the artifacts that are held among those that
\* were issued.
LEMMA IssuedNext ==
    ASSUME Shape, ScenarioCount, OwnCertificate, OwnCertificate', Issued,
           NEW r \in Run,
           onboard(r) \/ Prepare(r) \/ (Step(r) /\ UNCHANGED openssl)
    PROVE  Issued'
<1>1. Elsewhere(r)
  BY StepElsewhere
<1>2. certs \subseteq certs'
  BY <1>1 DEF Elsewhere
<1>3. ASSUME cert'[r] = cert[r], handled' = handled, csids' = csids
      PROVE  Issued'
  <2>1. \A q \in Run : cert'[q] = cert[q]
    BY <1>1, <1>3 DEF Elsewhere
  <2>2. QED
    BY <1>2, <1>3, <2>1 DEF Issued
<1>4. CASE takeCertificate(r)
  <2>1. /\ UNCHANGED <<handled, csids>>
        /\ cert' = cert \/ pc'[r] = "issuing"
    BY <1>4 DEF takeCertificate, zatca, GoTo, Shape
  <2>2. cert'[r] = cert[r] \/ cert'[r] \in certs'
    BY <2>1 DEF OwnCertificate, Certified
  <2>3. \A q \in Run : q # r => cert'[q] = cert[q]
    BY <1>1 DEF Elsewhere
  <2>4. \A q \in Run : cert'[q] # None => cert'[q] \in certs'
    BY <1>2, <2>2, <2>3 DEF Issued
  <2>5. QED
    BY <1>2, <2>1, <2>4 DEF Issued
<1>5. CASE Attempt(r)
  <2>1. PICK outcome \in Answers \cup Failures :
             TakesEffect(r, outcome) \/ UNCHANGED zatca
    BY <1>5 DEF Attempt
  <2>2. cert' = cert
    BY <1>5 DEF Attempt
  <2>3. CASE UNCHANGED zatca \/ IssueCertificate(r, outcome)
    BY <1>3, <2>2, <2>3 DEF zatca, IssueCertificate
  <2>4. CASE CheckInvoice(r)
    <3>1. /\ UNCHANGED <<csids, certs>> /\ pc[r] = "checking"
          /\ handled' = handled \cup
               {<<cert[r].id, Scenarios[Len(results[r]) + 1]>>}
      BY <2>4 DEF CheckInvoice
    <3>2. cert[r] \in certs
      BY <3>1 DEF OwnCertificate, Certified
    <3>3. Len(results[r]) \in Nat /\ Len(results[r]) < Len(Scenarios)
      BY <3>1 DEF ScenarioCount, Shape
    <3>4. Len(results[r]) + 1 \in DOMAIN Scenarios
      BY <3>3, ScenariosAssumption
    <3>5. Scenarios[Len(results[r]) + 1] \in Names
      BY <3>4 DEF Names
    <3>6. QED
      BY <2>2, <3>1, <3>2, <3>5 DEF Issued
  <2>5. CASE IssueCsid(r, outcome)
    <3>1. /\ UNCHANGED <<certs, handled>> /\ pc[r] = "exchanging"
          /\ \A k \in csids' \ csids : k.cert = cert[r].id
      BY <2>5 DEF IssueCsid
    <3>2. cert[r] \in certs
      BY <3>1 DEF OwnCertificate, Certified
    <3>3. QED
      BY <2>2, <3>1, <3>2 DEF Issued
  <2>6. QED
    BY <2>1, <2>3, <2>4, <2>5 DEF TakesEffect
<1>6. CASE onboard(r) \/ Prepare(r)
  BY <1>3, <1>6 DEF onboard, Prepare, zatca, local
<1>7. CASE \/ Prepared(r) \/ Read(r) \/ callThrows(r)
           \/ issueScenario(r) \/ classifyResponse(r) \/ takeCsid(r)
  BY <1>3, <1>7 DEF Prepared, Read, callThrows, issueScenario, classifyResponse,
     takeCsid, zatca, local
<1>8. CASE \/ readProgress(r) \/ writeProgress(r) \/ progressThrows(r)
           \/ readForError(r) \/ writeError(r)
  BY <1>3, <1>8 DEF readProgress, writeProgress, progressThrows, readForError,
     writeError, zatca
<1>9. QED
  BY <1>4, <1>5, <1>6, <1>7, <1>8 DEF Step

OnboardInv == Shape /\ BundleInv /\ RowInv /\ Issued

\* The inductive invariant of onboard, its parts put together.
LEMMA OnboardInductive ==
    ASSUME OnboardInv, [Next]_vars
    PROVE  OnboardInv'
<1>1. Shape'
  BY ShapeNext DEF OnboardInv, BundleInv
<1>2. CASE UNCHANGED vars
  <2>1. UNCHANGED <<http, used, certs, handled, csids, row, pc, otp, answer, cert,
                    results, read, bundle, unheard, missed, overlap, latest>>
    BY <1>2 DEF vars, zatca, local, history
  <2>2. UNCHANGED <<cachedProbe, files, gen>>
    BY <1>2 DEF vars, openssl
  <2>3. CallsAwaited' /\ OwnKey' /\ OwnCertificate'
    BY <2>1, <2>2 DEF OnboardInv, BundleInv, CallsAwaited, OwnKey, OwnCertificate,
       Heard
  <2>4. ScenarioCount' /\ PassedWasChecked'
    BY <2>1 DEF OnboardInv, BundleInv, ScenarioCount, PassedWasChecked, Heard
  <2>5. OwnCsid' /\ HeardOnce'
    BY <2>1 DEF OnboardInv, BundleInv, OwnCsid, HeardOnce, Heard
  <2>6. RowInv' /\ Issued'
    BY <2>1 DEF OnboardInv, RowInv, Alone, Written, Running, Issued
  <2>7. QED
    BY <1>1, <2>3, <2>4, <2>5, <2>6 DEF OnboardInv, BundleInv
<1>3. ASSUME NEW r \in Run,
             onboard(r) \/ Prepare(r) \/ (Step(r) /\ UNCHANGED openssl)
      PROVE  BundleInv' /\ RowInv' /\ Issued'
  <2>1. /\ Shape /\ CallsAwaited /\ OwnKey /\ OwnCertificate /\ ScenarioCount
        /\ PassedWasChecked /\ OwnCsid /\ HeardOnce /\ RowInv /\ Issued
    BY DEF OnboardInv, BundleInv
  <2>2. CallsAwaited' /\ OwnKey'
    BY <1>3, <2>1, CallsNext, OwnKeyNext
  <2>3. OwnCertificate'
    BY <1>3, <2>1, OwnCertificateNext
  <2>4. ScenarioCount' /\ PassedWasChecked'
    BY <1>3, <2>1, ScenarioCountNext, PassedNext
  <2>5. OwnCsid' /\ HeardOnce'
    BY <1>3, <2>1, CsidNext
  <2>6. RowInv'
    BY <1>3, <2>1, RowNext
  <2>7. Issued'
    BY <1>3, <2>1, <2>3, IssuedNext
  <2>8. QED
    BY <2>2, <2>3, <2>4, <2>5, <2>6, <2>7 DEF BundleInv
<1>4. QED
  BY <1>1, <1>2, <1>3 DEF Next, OnboardInv

\* It holds in every behaviour.
LEMMA OnboardInvariance == Spec => []OnboardInv
<1>1. Init => OnboardInv
  <2>1. Init => Issued
    BY DEF Init, Issued
  <2>2. QED
    BY <2>1, ShapeInit, BundleInit DEF OnboardInv
<1>2. OnboardInv /\ [Next]_vars => OnboardInv'
  BY OnboardInductive
<1>3. QED
  BY <1>1, <1>2, PTL DEF Spec

-----------------------------------------------------------------------------
(* The properties. *)

\* Whatever interleaving of runs, retries and lost answers: the artifacts that
\* onboard holds were issued, a CSID stands on a certificate, no call makes more
\* attempts than its retries allow, and a call is under way only where it is
\* awaited.
THEOREM TypeCorrect == Spec => []TypeOK
<1>1. OnboardInv => TypeOK
  BY DEF OnboardInv, BundleInv, Shape, Issued, ScenarioCount, CallsAwaited,
         Calling, TypeOK
<1>2. QED
  BY <1>1, OnboardInvariance, PTL

\* The key, the certificate and the CSID that onboard returns belong together.
THEOREM BundlesBelongTogether == Spec => []BundleCoherent
<1>1. OnboardInv => BundleCoherent
  <2> SUFFICES ASSUME OnboardInv, NEW r \in Run, pc[r] = "returned"
               PROVE  /\ bundle[r].cert \in certs /\ bundle[r].cert.key = bundle[r].key
                      /\ bundle[r].csid \in csids
                      /\ bundle[r].csid.cert = bundle[r].cert.id
    BY DEF BundleCoherent
  <2>1. /\ bundle[r].key = r /\ bundle[r].cert = cert[r]
        /\ bundle[r].csid \in csids /\ bundle[r].csid.run = r
    BY DEF OnboardInv, BundleInv, OwnCsid
  <2>2. cert[r] \in certs /\ cert[r].run = r /\ cert[r].key = cert[r].run
    BY DEF OnboardInv, BundleInv, OwnCertificate, Certified
  <2>3. bundle[r].csid.cert = cert[r].id
    BY <2>1 DEF OnboardInv, BundleInv, OwnCsid
  <2>4. QED
    BY <2>1, <2>2, <2>3
<1>2. QED
  BY <1>1, OnboardInvariance, PTL

\* A production CSID is issued only on a certificate with which ZATCA has checked
\* every scenario, all of them passed in that run.
THEOREM CsidNeedsPass == Spec => []CsidAfterPass
<1>1. OnboardInv => CsidAfterPass
  <2> SUFFICES ASSUME OnboardInv, NEW k \in csids
               PROVE  /\ \A s \in Names : <<k.cert, s>> \in handled
                      /\ results[k.run] = AllPassed
    BY DEF CsidAfterPass, AllPassed
  <2>1. k.run \in Run /\ k.cert = cert[k.run].id /\ results[k.run] = AllPassed
    BY DEF OnboardInv, BundleInv, OwnCsid
  <2>2. ASSUME NEW i \in DOMAIN Scenarios
        PROVE  i \in DOMAIN AllPassed /\ AllPassed[i]
    BY DEF AllPassed
  <2>3. \A i \in DOMAIN Scenarios : <<cert[k.run].id, Scenarios[i]>> \in handled
    BY <2>1, <2>2 DEF OnboardInv, BundleInv, PassedWasChecked
  <2>4. QED
    BY <2>1, <2>3 DEF Names
<1>2. QED
  BY <1>1, OnboardInvariance, PTL

\* A second CSID for a run, or one the run never learns of, needs an answer that
\* took effect and was not heard.
THEOREM ReissueExplained == Spec => []ReissueNeedsLoss
<1>1. OnboardInv => ReissueNeedsLoss
  <2> SUFFICES ASSUME OnboardInv, NEW r \in Run, r \notin unheard
               PROVE  LET issued == {k \in csids : k.run = r}
                      IN  /\ ~(Cardinality(issued) > 1)
                          /\ issued # {} =>
                               pc[r] \notin {"thrown", "marking", "failed"}
    BY DEF ReissueNeedsLoss
  <2> DEFINE issued == {k \in csids : k.run = r}
  <2>1. \A k \in issued : \/ pc[r] = "exchanging" /\ k = answer[r]
                          \/ pc[r] = "returned" /\ k = bundle[r].csid
    BY DEF OnboardInv, BundleInv, HeardOnce
  <2>2. \A j, k \in issued : j = k
    BY <2>1
  <2>3. CASE issued = {}
    <3>1. Cardinality(issued) = 0
      BY <2>3, FS_EmptySet
    <3>2. QED
      BY <2>3, <3>1
  <2>4. CASE issued # {}
    <3>1. PICK k : issued = {k}
      BY <2>2, <2>4
    <3>2. Cardinality(issued) = 1
      BY <3>1, FS_Singleton
    <3>3. pc[r] \notin {"thrown", "marking", "failed"}
      BY <2>1, <2>4
    <3>4. QED
      BY <3>2, <3>3
  <2>5. QED
    BY <2>3, <2>4
<1>2. QED
  BY <1>1, OnboardInvariance, PTL

\* The row shows the results and the error of the run that began last, if it
\* overlapped with no other, but for what could not be written.
THEOREM ProgressIsFaithful == Spec => []ProgressFaithful
<1>1. OnboardInv => ProgressFaithful
  <2> SUFFICES ASSUME OnboardInv, NEW r \in Run,
                      latest = r, pc[r] \in {"returned", "failed"},
                      ~ \E q \in Run : <<r, q>> \in overlap
               PROVE  /\ \A i \in DOMAIN results[r] : Written(r, i)
                      /\ pc[r] = "failed" =>
                           row.lastError = r \/ "lastError" \in missed[r]
    BY DEF ProgressFaithful, Written
  <2>1. Alone(r)
    BY DEF Alone
  <2>2. QED
    BY <2>1 DEF OnboardInv, RowInv
<1>2. QED
  BY <1>1, OnboardInvariance, PTL

=============================================================================
