----------------------------- MODULE HttpClient -----------------------------
(***************************************************************************)
(* The HTTP client of the ZATCA gateway: one call per caller at a time,    *)
(* each an attempt that may be repeated.  What the gateway does with an    *)
(* attempt that reaches it is up to the module that uses this one.         *)
(*                                                                         *)
(* An attempt ends without an answer (the network fails, the timeout       *)
(* aborts it) or with the head of one.  The timeout is cleared at that     *)
(* point, and the body is read after it, which may fail as well.           *)
(***************************************************************************)
EXTENDS Integers

CONSTANTS Caller,
          Retries       \* caller -> the retries.count of its calls

ASSUME RetriesAssumption == Retries \in [Caller -> Nat]

VARIABLE http   \* caller -> its call

maxAttempts(c) == Retries[c] + 1

\* 200 and 202; any other status, such as 4xx, but also 201; 5xx.  "lost" stands for TypeError and AbortError, "fault"
\* for an error that is worth no retry.
Answers  == {"ok", "other", "server"}
Failures == {"lost", "fault"}

NoCall == [phase |-> "none", attempt |-> 0, status |-> "none"]

HttpTypeOK ==
    \A c \in Caller :
        http[c] \in [phase : {"none", "sending", "reading", "returned", "thrown"},
                     attempt : 0 .. maxAttempts(c),
                     status : {"none"} \cup Answers]

HttpInit == http = [c \in Caller |-> NoCall]

request(c) ==
    http' = [http EXCEPT ![c] = [phase |-> "sending", attempt |-> 1,
                                 status |-> "none"]]

Settle(c, phase) == http' = [http EXCEPT ![c].phase = phase]

\* The next turn of the loop, after the backoff.
TryAgain(c) ==
    http' = [http EXCEPT ![c] = [phase |-> "sending", attempt |-> @.attempt + 1,
                                 status |-> "none"]]

RetryOrThrow(c) ==
    IF http[c].attempt < maxAttempts(c) THEN TryAgain(c) ELSE Settle(c, "thrown")

\* fetch, up to the head of the answer.
fetch(c, outcome) ==
    /\ http[c].phase = "sending"
    /\ CASE outcome = "lost"  -> RetryOrThrow(c)
         [] outcome = "fault" -> Settle(c, "thrown")
         [] outcome \in Answers ->
              http' = [http EXCEPT ![c].phase = "reading", ![c].status = outcome]

\* Faulty variant: 202 is not a success.
readBody_Only200(c, intact) ==
    /\ http[c].phase = "reading"
    /\ \/ http[c].status = "ok" /\ intact /\ Settle(c, "returned")
       \/ RetryOrThrow(c)

\* A 5xx is drained, whether that works or not, and tried again; other answers
\* settle the call once they are read.  If they cannot be read, the error
\* counts as a network error, so that even a 4xx is tried again then.
readBody(c, intact) ==
    /\ http[c].phase = "reading"
    /\ IF http[c].status = "server" /\ http[c].attempt < maxAttempts(c)
       THEN TryAgain(c)
       ELSE IF ~intact THEN RetryOrThrow(c)
       ELSE Settle(c, IF http[c].status = "ok" THEN "returned" ELSE "thrown")

\* The caller takes the result.
Taken(c) == http' = [http EXCEPT ![c] = NoCall]
=============================================================================
