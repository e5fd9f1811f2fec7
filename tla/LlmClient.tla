----------------------------- MODULE LlmClient ------------------------------
(* llm/client.py and the scan-generate-scan pipeline of llm/guard.py over it.  *)
(* A request is sent up to MaxRetries + 1 times; every answer moves the        *)
(* backend's circuit.  Only reason() looks at a circuit, that of the reasoning *)
(* model: the circuits of the other backends are written and never read, and   *)
(* are left out.  Callers interleave at every await.                           *)
EXTENDS Naturals, FiniteSetsExt

CONSTANTS Callers, Threshold, MaxRetries

VARIABLES circuit,  \* _circuits["reasoning"]: failures, degraded, and cooled: the cooldown is over
          call,     \* what each caller is waiting for
          verdict,  \* history: scans of the current call the guard service answered with is_valid
          passed,   \* callers whose last call was guarded and returned its answer as passed
          healthy   \* external: the reasoning backend answers well-formed requests

clientVars == <<circuit, call, verdict, passed, healthy>>

\* Entry points that send one request to reasoning whatever its circuit says
\* (tool_call, tokenize), or two rounds of it (reason_structured); the others.
Direct == {"tool_call", "reason_structured"}
Ops == Direct \cup {"reason", "fast", "embed", "guarded_reasoning", "guarded_fast"}
Guarded == {"guarded_reasoning", "guarded_fast"}

Idle == [op |-> "none", at |-> "idle", stage |-> "only", backend |-> "none", attempt |-> 0, good |-> TRUE]

Init == /\ circuit = [failures |-> 0, degraded |-> FALSE, cooled |-> TRUE]
        /\ call = [c \in Callers |-> Idle]
        /\ verdict = [c \in Callers |-> {}]
        /\ passed = {}
        /\ healthy = TRUE

-----------------------------------------------------------------------------
(* _CircuitState.                                                            *)
\* Mutant: a success resets the count and leaves the flag.
record_success_Counts(c) == [c EXCEPT !.failures = 0]
record_success(c) == [c EXCEPT !.failures = 0, !.degraded = FALSE]
\* failures beyond the threshold are not told apart.
record_failure(c) ==
    LET n == Min({c.failures + 1, Threshold})
    IN [failures |-> n, degraded |-> c.degraded \/ n >= Threshold, cooled |-> FALSE]
should_allow_probe == ~circuit.degraded \/ circuit.cooled

\* Time: _CIRCUIT_BREAKER_COOLDOWN has passed since the last failure.
CooledDown == /\ ~circuit.cooled /\ circuit' = [circuit EXCEPT !.cooled = TRUE]
              /\ UNCHANGED <<call, verdict, passed, healthy>>
BackendChanges == healthy' = ~healthy /\ UNCHANGED <<circuit, call, verdict, passed>>

\* reason(): while the circuit is open, the fast model answers.
ReasonBackend == IF circuit.degraded /\ ~should_allow_probe THEN "fast" ELSE "reasoning"

\* The backend that a call's next stage goes to.
Backend(op, stage) ==
    CASE stage \in {"scan_input", "scan_output"} -> "guard"
      [] stage \notin {"scan_input", "scan_output"} /\ op \in {"reason", "guarded_reasoning"} -> ReasonBackend
      [] stage \notin {"scan_input", "scan_output"} /\ op \in Direct -> "reasoning"
      [] stage \notin {"scan_input", "scan_output"} /\ op = "embed" -> "embed"
      [] OTHER -> "fast"

Send(c, op, stage, good) ==
    call' = [call EXCEPT ![c] = [op |-> op, at |-> "sent", stage |-> stage, good |-> good,
                                 backend |-> Backend(op, stage), attempt |-> 0]]
\* The call returns, blocked if it is guarded, or raises.
End(c) == /\ call' = [call EXCEPT ![c] = Idle]
          /\ passed' = passed \ {c}
          /\ verdict' = [verdict EXCEPT ![c] = {}]

\* A caller's next call; good: the backend would not reject the request itself.
Start(c, op, good) ==
    /\ call[c].at = "idle"
    /\ Send(c, op, IF op \in Guarded THEN "scan_input"
                   ELSE IF op = "reason_structured" THEN "guided" ELSE "only", good)
    /\ passed' = passed \ {c}
    /\ verdict' = [verdict EXCEPT ![c] = {}]
    /\ UNCHANGED <<circuit, healthy>>

\* guarded_call returns at once for an empty prompt, and raises for another model.
BlankPrompt(c) ==
    /\ call[c].at = "idle" /\ End(c)
    /\ UNCHANGED <<circuit, healthy>>

-----------------------------------------------------------------------------
(* What the caller does with the answer to its request: GuardPipeline, the   *)
(* second round of reason_structured, or nothing more.                       *)
\* Mutant: a scan that cannot be made is taken for a passed one.
Raised_FailOpen(c, kind) ==
    LET x == call[c] IN
    CASE x.stage = "scan_input" -> Send(c, x.op, "generate", x.good) /\ UNCHANGED <<passed, verdict>>
      [] x.stage = "guided" /\ kind = "status" -> Send(c, x.op, "free", x.good) /\ UNCHANGED <<passed, verdict>>
      [] OTHER -> End(c)
\* An exception: a guarded call is blocked; guided decoding is tried again as
\* free text after HTTPStatusError or ValueError, not after RequestError.
Raised(c, kind) ==
    LET x == call[c] IN
    CASE x.stage = "guided" /\ kind = "status" -> Send(c, x.op, "free", x.good) /\ UNCHANGED <<passed, verdict>>
      [] OTHER -> End(c)

\* Valid JSON.  "odd": is_valid is false or missing, no choices, a schema or a
\* dimension that does not match.
Answered(c, a) ==
    LET x == call[c] IN
    CASE x.stage = "scan_input" /\ a = "ok" ->
            /\ Send(c, x.op, "generate", x.good)
            /\ verdict' = [verdict EXCEPT ![c] = {"input"}] /\ UNCHANGED passed
      [] x.stage = "generate" /\ a = "ok" -> Send(c, x.op, "scan_output", x.good) /\ UNCHANGED <<passed, verdict>>
      [] x.stage = "scan_output" /\ a = "ok" ->
            /\ call' = [call EXCEPT ![c] = Idle]
            /\ passed' = passed \cup {c}
            /\ verdict' = [verdict EXCEPT ![c] = @ \cup {"output"}]
      [] x.stage = "guided" /\ a = "odd" -> Send(c, x.op, "free", x.good) /\ UNCHANGED <<passed, verdict>>
      [] OTHER -> End(c)

-----------------------------------------------------------------------------
(* _request_with_retry and _single_request.                                  *)
\* What a backend can answer: 200 with or without the expected content, 200
\* without JSON, 4xx, 5xx, or nothing (connection error, timeout).
Answers(c) ==
    (IF call[c].good THEN {"ok", "odd"} ELSE {"rejected"}) \cup
    (IF call[c].backend = "reasoning" /\ healthy THEN {} ELSE {"not_json", "5xx", "lost"})

\* A 200 closes the circuit before its body is read.
CircuitAfter(c, a) ==
    IF call[c].backend # "reasoning" THEN circuit
    ELSE CASE a \in {"ok", "odd"} -> record_success(circuit)
           [] a = "not_json" -> record_failure(record_success(circuit))
           [] a \in {"5xx", "lost"} -> record_failure(circuit)
           [] OTHER -> circuit

Respond(c, a) ==
    /\ call[c].at = "sent" /\ a \in Answers(c)
    /\ circuit' = CircuitAfter(c, a)
    /\ CASE a \in {"ok", "odd"} -> Answered(c, a)
         [] a = "rejected" -> Raised(c, "status")
         [] a \in {"not_json", "5xx", "lost"} /\ call[c].attempt < MaxRetries ->
               call' = [call EXCEPT ![c].at = "backoff"] /\ UNCHANGED <<passed, verdict>>
         [] OTHER -> Raised(c, IF a = "5xx" THEN "status" ELSE "request")
    /\ UNCHANGED healthy

\* The back-off sleep is over.  The circuit is not looked at again.
Retry(c) ==
    /\ call[c].at = "backoff"
    /\ call' = [call EXCEPT ![c].at = "sent", ![c].attempt = @ + 1]
    /\ UNCHANGED <<circuit, verdict, passed, healthy>>

Next == \/ CooledDown \/ BackendChanges
        \/ \E c \in Callers :
              \/ BlankPrompt(c) \/ Retry(c)
              \/ \E op \in Ops, good \in BOOLEAN : Start(c, op, good)
              \/ \E a \in {"ok", "odd", "not_json", "rejected", "5xx", "lost"} : Respond(c, a)

\* Requests have timeouts, sleeps end and the cooldown passes.
Fairness == /\ WF_clientVars(CooledDown)
            /\ \A c \in Callers :
                  /\ WF_clientVars(Retry(c))
                  /\ WF_clientVars(\E a \in {"ok", "odd", "not_json", "rejected", "5xx", "lost"} : Respond(c, a))

-----------------------------------------------------------------------------
\* A guarded call hands out an answer as passed only if the guard service itself
\* said is_valid to the prompt and to that answer: an error, a timeout, a
\* malformed or a missing verdict anywhere blocks it.
PassedIsScanned == \A c \in passed : verdict[c] = {"input", "output"}

\* A backend that is well again is used again: once reasoning answers for good
\* and reason() is called again and again, the circuit does not stay open, although
\* late failures of requests from before may open it again and every waiting
\* request probes at the same time.
Asked == \E c \in Callers : call[c].at = "sent" /\ call[c].op = "reason" /\ call[c].good
RecoveryCloses == <>[]healthy /\ []<>Asked => <>[](~circuit.degraded)
=============================================================================
