---------------------------- MODULE CoreOnboard ----------------------------
(***************************************************************************)
(* core.onboard, the handshake with ZATCA, as the server runs it: openssl  *)
(* makes a key and, from temporary files, a CSR for it; OTP and CSR are    *)
(* exchanged for a compliance certificate, the compliance scenarios are    *)
(* issued and checked, the certificate is exchanged for the production     *)
(* CSID; after every scenario the server's onProgress callback updates the *)
(* tenant's progress row by reading and rewriting it, and a run that       *)
(* throws leaves its error there.                                          *)
(*                                                                         *)
(* Runs of one tenant can overlap: a run that outlasts its lock goes on    *)
(* (see Onboarding).  ZATCA accepts an OTP once; it is not assumed to      *)
(* check anything else.                                                    *)
(***************************************************************************)
EXTENDS HttpClient, CsrGeneration, Sequences, FiniteSets

CONSTANTS Otp,         \* one-time passwords
          Scenarios,   \* the scenarios in their order; the code has six
          NoError      \* no lastError

ASSUME ScenariosAssumption ==
    /\ Scenarios \in Seq(STRING) \ {<< >>}
    /\ \A i, j \in DOMAIN Scenarios : Scenarios[i] = Scenarios[j] => i = j

ASSUME RunAssumption == Generator = Caller

Run == Caller
Names == {Scenarios[i] : i \in DOMAIN Scenarios}

VARIABLES
    used,      \* ZATCA: OTPs that were exchanged
    certs,     \* ZATCA: compliance certificates it issued
    handled,   \* ZATCA: <<certificate, scenario>> that it has checked
    csids,     \* ZATCA: production CSIDs it issued
    row,       \* the tenant's onboarding_progress
    pc,        \* run -> where onboard is
    otp,       \* run -> its OTP
    answer,    \* run -> what the head of the current answer stands for
    cert,      \* run -> the compliance certificate it received
    results,   \* run -> results of the scenarios so far
    read,      \* run -> the progress it read and has not written back yet
    bundle,    \* run -> the artifacts it returned
    unheard,   \* history: runs with an attempt that took effect and had no
               \* 200 or 202 that was read
    missed,    \* history: run -> scenarios whose progress was not written
    overlap,   \* history: pairs of runs that overlapped
    latest     \* history: the run that began last

zatca   == <<used, certs, handled, csids>>
local   == <<otp, answer, cert, results, read, bundle>>
history == <<unheard, missed, overlap, latest>>
vars    == <<http, openssl, zatca, row, pc, local, history>>

None == [id |-> 0]
Ended == {"idle", "returned", "failed"}
Running(r) == pc[r] \notin Ended

\* All runs have one OTP, or each has its own.
Assigned == {f \in [Run -> Otp] : \A q, r \in Run :
               f[q] = f[r] => q = r \/ f[q] = CHOOSE o \in Otp : TRUE}

Init ==
    /\ HttpInit /\ GenInit
    /\ used = {} /\ certs = {} /\ handled = {} /\ csids = {}
    /\ row = [scenarios |-> [s \in Names |-> "none"], lastError |-> NoError]
    /\ pc = [r \in Run |-> "idle"]
    /\ otp \in Assigned
    /\ answer = [r \in Run |-> None]
    /\ cert = [r \in Run |-> None]
    /\ results = [r \in Run |-> << >>]
    /\ read = [r \in Run |-> NoError]
    /\ bundle = [r \in Run |-> None]
    /\ unheard = {}
    /\ missed = [r \in Run |-> {}]
    /\ overlap = {}
    /\ latest = NoError

GoTo(r, place) == pc' = [pc EXCEPT ![r] = place]

\* onboard: first the key pair and the CSR.
onboard(r) ==
    /\ pc[r] = "idle"
    /\ GoTo(r, "preparing")
    /\ Generate(r)
    /\ overlap' = overlap \cup
         UNION {{<<r, q>>, <<q, r>>} : q \in {x \in Run : Running(x)}}
    /\ latest' = r
    /\ UNCHANGED <<http, zatca, row, local, unheard, missed>>

Prepare(r) ==
    /\ GenStep(r)
    /\ UNCHANGED <<http, zatca, row, pc, local, history>>

\* With the CSR in hand it calls ZATCA; without it, it throws.
Prepared(r) ==
    /\ pc[r] = "preparing"
    /\ \/ gen[r].phase = "made" /\ GoTo(r, "certifying") /\ request(r)
       \/ gen[r].phase = "thrown" /\ GoTo(r, "thrown") /\ UNCHANGED http
    /\ UNCHANGED <<zatca, row, local, history>>

-----------------------------------------------------------------------------
(***************************************************************************)
(* ZATCA.  An attempt takes effect if it is answered with 200 or 202; if   *)
(* its answer is lost or another (a 5xx, or a 201, which the client takes  *)
(* for a failure), it may have.                                            *)
(***************************************************************************)
Fresh(r, issued) == <<r, Cardinality({x \in issued : x.run = r}) + 1>>

\* What the caller will read, if the answer reaches it.
Answered(r, outcome, new) ==
    answer' = IF outcome = "ok" THEN [answer EXCEPT ![r] = new] ELSE answer

\* The exchange of OTP and CSR.
IssueCertificate(r, outcome) ==
    /\ pc[r] = "certifying"
    /\ otp[r] \notin used
    /\ used' = used \cup {otp[r]}
    /\ LET new == [id |-> Fresh(r, certs), run |-> r, key |-> gen[r].csr]
       IN  /\ certs' = certs \cup {new}
           /\ Answered(r, outcome, new)
    /\ UNCHANGED <<handled, csids>>

\* The check of a scenario's invoice.
CheckInvoice(r) ==
    /\ pc[r] = "checking"
    /\ handled' = handled \cup {<<cert[r].id, Scenarios[Len(results[r]) + 1]>>}
    /\ UNCHANGED <<used, certs, csids, answer>>

\* The exchange of the certificate for a production CSID.
IssueCsid(r, outcome) ==
    /\ pc[r] = "exchanging"
    /\ LET new == [id |-> Fresh(r, csids), cert |-> cert[r].id, run |-> r]
       IN  /\ csids' = csids \cup {new}
           /\ Answered(r, outcome, new)
    /\ UNCHANGED <<used, certs, handled>>

TakesEffect(r, outcome) ==
    IssueCertificate(r, outcome) \/ CheckInvoice(r) \/ IssueCsid(r, outcome)

Attempt(r) ==
    /\ \E outcome \in Answers \cup Failures :
         /\ fetch(r, outcome)
         /\ \/ /\ TakesEffect(r, outcome)
               /\ unheard' = IF outcome = "ok" THEN unheard ELSE unheard \cup {r}
            \/ outcome # "ok" /\ UNCHANGED <<zatca, answer, unheard>>
    /\ UNCHANGED <<row, pc, otp, cert, results, read, bundle, missed, overlap,
                   latest>>

Read(r) ==
    /\ \E intact \in BOOLEAN :
         /\ readBody(r, intact)
         /\ unheard' = IF http[r].status = "ok" /\ ~intact
                       THEN unheard \cup {r} ELSE unheard
         /\ answer' = IF intact THEN answer ELSE [answer EXCEPT ![r] = None]
    /\ UNCHANGED <<zatca, row, pc, otp, cert, results, read, bundle, missed,
                   overlap, latest>>
-----------------------------------------------------------------------------
(***************************************************************************)
(* What the code makes of the answers.                                     *)
(***************************************************************************)
Called(r, place, phase) == pc[r] = place /\ http[r].phase = phase

\* issueComplianceCertificate: an answer without token, secret or request id
\* is an error.
takeCertificate(r) ==
    /\ Called(r, "certifying", "returned")
    /\ \/ cert' = [cert EXCEPT ![r] = answer[r]] /\ GoTo(r, "issuing")
       \/ GoTo(r, "thrown") /\ UNCHANGED cert
    /\ unheard' = IF pc'[r] = "thrown" THEN unheard \cup {r} ELSE unheard
    /\ answer' = [answer EXCEPT ![r] = None]
    /\ Taken(r)
    /\ UNCHANGED <<zatca, row, otp, results, read, bundle, missed, overlap, latest>>

\* A call outside the scenarios throws, and onboard with it.
callThrows(r) ==
    /\ Called(r, "certifying", "thrown") \/ Called(r, "exchanging", "thrown")
    /\ GoTo(r, "thrown")
    /\ Taken(r)
    /\ UNCHANGED <<zatca, row, local, history>>

Report(r, passed) ==
    /\ results' = [results EXCEPT ![r] = Append(@, passed)]
    /\ GoTo(r, "reporting")

\* A scenario: the invoice is issued in the runner's own store and submitted.
\* A failure to issue it is a failed scenario.
issueScenario(r) ==
    /\ pc[r] = "issuing"
    /\ \/ GoTo(r, "checking") /\ request(r) /\ UNCHANGED results
       \/ Report(r, FALSE) /\ UNCHANGED http
    /\ UNCHANGED <<zatca, row, otp, answer, cert, read, bundle, history>>

\* It passes if the call returns and the answer has no errorMessages; an error
\* is caught and fails it.
classifyResponse(r) ==
    /\ \/ Called(r, "checking", "returned") /\ \E passed \in BOOLEAN : Report(r, passed)
       \/ Called(r, "checking", "thrown") /\ Report(r, FALSE)
    /\ Taken(r)
    /\ UNCHANGED <<zatca, row, otp, answer, cert, read, bundle, history>>

(***************************************************************************)
(* onProgress: recordOnboardingProgress reads the progress and writes it   *)
(* back with one entry changed.  Whatever it throws is swallowed.          *)
(***************************************************************************)
\* Faulty variant: the scenarios that did pass are enough.
overallStatus_Some(rs) == \E i \in DOMAIN rs : rs[i]

overallStatus(rs) == \A i \in DOMAIN rs : rs[i]

\* The next scenario; after the last one the CSID, or an error.
Onward(r) ==
    IF Len(results[r]) < Len(Scenarios) THEN GoTo(r, "issuing") /\ UNCHANGED http
    ELSE IF overallStatus(results[r])
         THEN GoTo(r, "exchanging") /\ request(r)
         ELSE GoTo(r, "thrown") /\ UNCHANGED http

Current(r) == Scenarios[Len(results[r])]

Forget(r) == read' = [read EXCEPT ![r] = NoError]

readProgress(r) ==
    /\ pc[r] = "reporting"
    /\ read' = [read EXCEPT ![r] = row]
    /\ GoTo(r, "writing")
    /\ UNCHANGED <<http, zatca, row, otp, answer, cert, results, bundle, history>>

Verdict(r) == IF results[r][Len(results[r])] THEN "passed" ELSE "failed"

\* Faulty variant: the entries of the other scenarios are not kept.
Merged_Replaces(r) ==
    [read[r] EXCEPT !.scenarios =
        [s \in Names |-> IF s = Current(r) THEN Verdict(r) ELSE "none"]]

Merged(r) == [read[r] EXCEPT !.scenarios[Current(r)] = Verdict(r)]

writeProgress(r) ==
    /\ pc[r] = "writing"
    /\ row' = Merged(r)
    /\ Onward(r) /\ Forget(r)
    /\ UNCHANGED <<zatca, otp, answer, cert, results, bundle, history>>

progressThrows(r) ==
    /\ pc[r] \in {"reporting", "writing"}
    /\ missed' = [missed EXCEPT ![r] = @ \cup {Current(r)}]
    /\ Onward(r) /\ Forget(r)
    /\ UNCHANGED <<zatca, row, otp, answer, cert, results, bundle, unheard,
                   overlap, latest>>

\* issueCSIDS: as issueComplianceCertificate; onboard returns the artifacts.
takeCsid(r) ==
    /\ Called(r, "exchanging", "returned")
    /\ \/ /\ bundle' = [bundle EXCEPT ![r] =
                          [id |-> 1, key |-> r, cert |-> cert[r], csid |-> answer[r]]]
          /\ GoTo(r, "returned")
       \/ GoTo(r, "thrown") /\ UNCHANGED bundle
    /\ unheard' = IF pc'[r] = "thrown" THEN unheard \cup {r} ELSE unheard
    /\ answer' = [answer EXCEPT ![r] = None]
    /\ Taken(r)
    /\ UNCHANGED <<zatca, row, otp, cert, results, read, missed, overlap, latest>>

(***************************************************************************)
(* The server's catch block: setState("failed", {lastError}) reads the     *)
(* progress and writes it back with the error; its failure is swallowed.   *)
(***************************************************************************)
readForError(r) ==
    /\ pc[r] = "thrown"
    /\ read' = [read EXCEPT ![r] = row]
    /\ GoTo(r, "marking")
    /\ UNCHANGED <<http, zatca, row, otp, answer, cert, results, bundle, history>>

writeError(r) ==
    /\ pc[r] = "marking"
    /\ \/ /\ row' = [read[r] EXCEPT !.lastError = r]
          /\ UNCHANGED missed
       \/ /\ missed' = [missed EXCEPT ![r] = @ \cup {"lastError"}]
          /\ UNCHANGED row
    /\ GoTo(r, "failed") /\ Forget(r)
    /\ UNCHANGED <<http, zatca, otp, answer, cert, results, bundle, unheard,
                   overlap, latest>>

Step(r) ==
    \/ Prepared(r) \/ Attempt(r) \/ Read(r)
    \/ takeCertificate(r) \/ callThrows(r)
    \/ issueScenario(r) \/ classifyResponse(r)
    \/ readProgress(r) \/ writeProgress(r) \/ progressThrows(r)
    \/ takeCsid(r) \/ readForError(r) \/ writeError(r)

Next == \E r \in Run : onboard(r) \/ Prepare(r) \/ (Step(r) /\ UNCHANGED openssl)

Spec == Init /\ [][Next]_vars

-----------------------------------------------------------------------------
(***************************************************************************)
(* Properties.                                                             *)
(***************************************************************************)
\* onboard: the artifacts a run holds were issued by ZATCA, a CSID stands on a
\* certificate, and a call is under way only where the code awaits one.
TypeOK ==
    /\ HttpTypeOK /\ GenTypeOK
    /\ used \subseteq Otp
    /\ handled \subseteq {c.id : c \in certs} \X Names
    /\ \A k \in csids : \E c \in certs : c.id = k.cert
    /\ \A r \in Run : /\ Len(results[r]) <= Len(Scenarios)
                      /\ cert[r] # None => cert[r] \in certs
                      /\ http[r].phase # "none" =>
                           pc[r] \in {"certifying", "checking", "exchanging"}

\* The private key, the compliance certificate and the production CSID that
\* onboard returns belong together: the certificate was issued for the run's own
\* key and the CSID for that certificate, although the key goes through a file,
\* attempts are repeated and another run of the tenant may use the same OTP.
BundleCoherent ==
    \A r \in Run : pc[r] = "returned" =>
        /\ bundle[r].cert \in certs /\ bundle[r].cert.key = bundle[r].key
        /\ bundle[r].csid \in csids /\ bundle[r].csid.cert = bundle[r].cert.id

\* ZATCA issues a production CSID only for a certificate with which it has
\* checked every scenario, each of them passed in the run that asks.
CsidAfterPass ==
    \A k \in csids : /\ \A s \in Names : <<k.cert, s>> \in handled
                     /\ results[k.run] = [i \in DOMAIN Scenarios |-> TRUE]

\* ZATCA issues a second CSID for a run, or one that the run never learns of,
\* only if the answer to an attempt that took effect was not heard, or was none
\* that the client takes for a success.
ReissueNeedsLoss ==
    \A r \in Run :
        LET issued == {k \in csids : k.run = r}
        IN  \/ Cardinality(issued) > 1
            \/ issued # {} /\ pc[r] \in {"thrown", "marking", "failed"}
            => r \in unheard

\* The lock of runOnboarding is what keeps the progress row right: if the run
\* that began last overlapped with no other, the row shows its results and its
\* error, but for what could not be written.
ProgressFaithful ==
    \A r \in Run :
        /\ latest = r /\ pc[r] \in {"returned", "failed"}
        /\ ~ \E q \in Run : <<r, q>> \in overlap
        =>
            /\ \A i \in DOMAIN results[r] :
                 \/ Scenarios[i] \in missed[r]
                 \/ row.scenarios[Scenarios[i]] =
                        IF results[r][i] THEN "passed" ELSE "failed"
            /\ pc[r] = "failed" => row.lastError = r \/ "lastError" \in missed[r]
=============================================================================
