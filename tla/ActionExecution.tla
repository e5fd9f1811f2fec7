-------------------------- MODULE ActionExecution --------------------------
(***************************************************************************)
(* ActionWorkflow.execute_plan (governance/action_workflow.py) and the     *)
(* Redis lock it executes under (motor/execution_lock.py).                 *)
(*                                                                         *)
(* Workers are concurrent calls of execute_plan, in one process or in      *)
(* several; they share nothing but Redis.  A call locks every action of    *)
(* its plan, one after the other, runs the playbooks, and releases.        *)
(* A lock's TTL may run out at any moment, whatever its owner is doing:    *)
(* the model does not relate the window to the speed of the playbooks, and *)
(* so covers every window, extend included.                                *)
(***************************************************************************)
EXTENDS Integers, Sequences

CONSTANTS
    Workers,
    Actions,       \* the (action_type, target_entity) pairs that occur
    Keys,          \* Redis keys
    LockKey,       \* action -> _lock_key of it; ":" becomes "_", so two
                   \* actions may share a key
    HasPlaybook,   \* the actions whose type is in available_playbooks
    Plans,         \* the plans submitted
    MaxRuns,       \* bound on the plans that get as far as their locks
    MaxFaults      \* bound on Redis errors and crashes

ASSUME ExecutionAssumption ==
    /\ LockKey \in [Actions -> Keys]
    /\ HasPlaybook \subseteq Actions
    /\ Plans \subseteq [risk_class : {"RC-1", "RC-2", "RC-3", "RC-4"},
                        status : {"proposed", "pending_approval", "auto_approved", "blocked"},
                        actions : Seq(Actions)]
    /\ MaxRuns \in Nat
    /\ MaxFaults \in Nat

VARIABLES
    redis,     \* key -> the token stored under it, 0 for no key
    issued,    \* tokens made so far: token n is the n-th uuid4()
    pc,        \* worker -> where its execute_plan is
    plan,      \* worker -> its plan
    tokens,    \* worker -> lock_tokens: the i-th is of the plan's i-th action
    at,        \* worker -> the action a loop is at
    result,    \* worker -> the WorkflowResult so far
    lapsed,    \* history: tokens whose TTL ran out
    orphans,   \* history: tokens nobody will release: lost replies, failed
               \* releases, crashed workers
    runs,      \* plans that got as far as their locks
    faults     \* Redis errors and crashes so far

vars == <<redis, issued, pc, plan, tokens, at, result, lapsed, orphans, runs, faults>>

NoPlan == [risk_class |-> "RC-4", status |-> "blocked", actions |-> <<>>]

KeyOf(w, i) == LockKey[plan[w].actions[i]]

-----------------------------------------------------------------------------
Init ==
    /\ redis   = [k \in Keys |-> 0]
    /\ issued  = 0
    /\ pc      = [w \in Workers |-> "idle"]
    /\ plan    = [w \in Workers |-> NoPlan]
    /\ tokens  = [w \in Workers |-> <<>>]
    /\ at      = [w \in Workers |-> 1]
    /\ result  = [w \in Workers |-> "none"]
    /\ lapsed  = {}
    /\ orphans = {}
    /\ runs    = 0
    /\ faults  = 0

\* execute_plan up to its first await.  compliant is the answer of
\* PolicyEnforcer.check, FALSE too when the policies cannot be read.
Routed(p, compliant) ==
    CASE p.status = "blocked"                 -> "blocked"
      [] p.status # "blocked" /\ ~compliant   -> "blocked"
      [] p.status # "blocked" /\ compliant /\ p.risk_class \in {"RC-2", "RC-3"} -> "hitl"
      [] p.status = "auto_approved" /\ compliant /\ p.risk_class = "RC-1" -> "none"
      [] OTHER                                -> "blocked"

ExecutePlan(w, p, compliant) ==
    /\ pc[w] = "idle"
    /\ Routed(p, compliant) = "none" => runs < MaxRuns
    /\ runs'   = IF Routed(p, compliant) = "none" THEN runs + 1 ELSE runs
    /\ plan'   = [plan EXCEPT ![w] = IF Routed(p, compliant) = "none" THEN p ELSE @]
    /\ result' = [result EXCEPT ![w] = Routed(p, compliant)]
    /\ pc'     = [pc EXCEPT ![w] = IF Routed(p, compliant) = "none"
                                   THEN "acquire" ELSE "idle"]
    /\ UNCHANGED <<redis, issued, tokens, at, lapsed, orphans, faults>>

\* Mutant: a token is not a fresh one.
Acquire_SameToken(w) ==
    /\ pc[w] = "acquire"
    /\ at[w] <= Len(plan[w].actions)
    /\ redis[KeyOf(w, at[w])] = 0
    /\ redis'  = [redis EXCEPT ![KeyOf(w, at[w])] = issued + 1]
    /\ tokens' = [tokens EXCEPT ![w] = Append(@, issued + 1)]
    /\ at'     = [at EXCEPT ![w] = @ + 1]
    /\ UNCHANGED <<issued, pc, plan, result, lapsed, orphans, runs, faults>>

\* acquire: SET key token NX EX window sets the key and answers.
Acquire(w) ==
    /\ pc[w] = "acquire"
    /\ at[w] <= Len(plan[w].actions)
    /\ redis[KeyOf(w, at[w])] = 0
    /\ issued' = issued + 1
    /\ redis'  = [redis EXCEPT ![KeyOf(w, at[w])] = issued + 1]
    /\ tokens' = [tokens EXCEPT ![w] = Append(@, issued + 1)]
    /\ at'     = [at EXCEPT ![w] = @ + 1]
    /\ UNCHANGED <<pc, plan, result, lapsed, orphans, runs, faults>>

\* A lock is refused: give back the ones taken so far, in order.
Denied(w) ==
    /\ pc'     = [pc EXCEPT ![w] = "release"]
    /\ at'     = [at EXCEPT ![w] = 1]
    /\ result' = [result EXCEPT ![w] = "lock_denied"]

\* acquire: the key exists.
AcquireDenied(w) ==
    /\ pc[w] = "acquire"
    /\ at[w] <= Len(plan[w].actions)
    /\ redis[KeyOf(w, at[w])] # 0
    /\ Denied(w)
    /\ UNCHANGED <<redis, issued, plan, tokens, lapsed, orphans, runs, faults>>

\* Mutant: a Redis error does not refuse the lock.
AcquireError_FailOpen(w) ==
    /\ pc[w] = "acquire"
    /\ at[w] <= Len(plan[w].actions)
    /\ faults < MaxFaults
    /\ faults' = faults + 1
    /\ issued' = issued + 1
    /\ tokens' = [tokens EXCEPT ![w] = Append(@, issued + 1)]
    /\ at'     = [at EXCEPT ![w] = @ + 1]
    /\ UNCHANGED <<redis, pc, plan, result, lapsed, orphans, runs>>

\* acquire: the call raises, before or after Redis has set the key.
AcquireError(w) ==
    /\ pc[w] = "acquire"
    /\ at[w] <= Len(plan[w].actions)
    /\ faults < MaxFaults
    /\ faults' = faults + 1
    /\ Denied(w)
    /\ \/ UNCHANGED <<redis, issued, orphans>>
       \/ /\ redis[KeyOf(w, at[w])] = 0
          /\ issued'  = issued + 1
          /\ redis'   = [redis EXCEPT ![KeyOf(w, at[w])] = issued + 1]
          /\ orphans' = orphans \cup {issued + 1}
    /\ UNCHANGED <<plan, tokens, lapsed, runs>>

\* All locks are taken: _run_playbooks begins.
BeginPlaybooks(w) ==
    /\ pc[w] = "acquire"
    /\ at[w] > Len(plan[w].actions)
    /\ pc' = [pc EXCEPT ![w] = "next"]
    /\ at' = [at EXCEPT ![w] = 1]
    /\ UNCHANGED <<redis, issued, plan, tokens, result, lapsed, orphans, runs, faults>>

\* _run_playbooks comes to its next action: its playbook runs from here to
\* PlaybookDone; an action without a playbook is only logged.
NextAction(w) ==
    /\ pc[w] = "next"
    /\ at[w] <= Len(plan[w].actions)
    /\ IF plan[w].actions[at[w]] \in HasPlaybook
       THEN pc' = [pc EXCEPT ![w] = "playbook"] /\ UNCHANGED at
       ELSE at' = [at EXCEPT ![w] = @ + 1] /\ UNCHANGED pc
    /\ UNCHANGED <<redis, issued, plan, tokens, result, lapsed, orphans, runs, faults>>

\* The playbook of the current action succeeds.
PlaybookDone(w) ==
    /\ pc[w] = "playbook"
    /\ pc' = [pc EXCEPT ![w] = "next"]
    /\ at' = [at EXCEPT ![w] = @ + 1]
    /\ UNCHANGED <<redis, issued, plan, tokens, result, lapsed, orphans, runs, faults>>

\* The playbook fails, which ends the plan, or no action is left.
EndPlaybooks(w) ==
    /\ \/ pc[w] = "playbook"
       \/ pc[w] = "next" /\ at[w] > Len(plan[w].actions)
    /\ result' = [result EXCEPT ![w] = IF pc[w] = "playbook" THEN "failed" ELSE "executed"]
    /\ pc' = [pc EXCEPT ![w] = "release"]
    /\ at' = [at EXCEPT ![w] = 1]
    /\ UNCHANGED <<redis, issued, plan, tokens, lapsed, orphans, runs, faults>>

\* Mutant: release without the compare of its Lua script, a plain DEL.
Release_AnyToken(w) ==
    /\ pc[w] = "release"
    /\ at[w] <= Len(tokens[w])
    /\ redis' = [redis EXCEPT ![KeyOf(w, at[w])] = 0]
    /\ at'    = [at EXCEPT ![w] = @ + 1]
    /\ UNCHANGED <<issued, pc, plan, tokens, result, lapsed, orphans, runs, faults>>

\* release: the Lua script deletes the key if it still holds the token.
Release(w) ==
    /\ pc[w] = "release"
    /\ at[w] <= Len(tokens[w])
    /\ LET k == KeyOf(w, at[w]) IN
       redis' = [redis EXCEPT ![k] = IF @ = tokens[w][at[w]] THEN 0 ELSE @]
    /\ at' = [at EXCEPT ![w] = @ + 1]
    /\ UNCHANGED <<issued, pc, plan, tokens, result, lapsed, orphans, runs, faults>>

\* release: the call raises before the script runs.  (An error after it has
\* run is Release: the answer is not used.)
ReleaseError(w) ==
    /\ pc[w] = "release"
    /\ at[w] <= Len(tokens[w])
    /\ faults < MaxFaults
    /\ faults'  = faults + 1
    /\ orphans' = orphans \cup {tokens[w][at[w]]}
    /\ at'      = [at EXCEPT ![w] = @ + 1]
    /\ UNCHANGED <<redis, issued, pc, plan, tokens, result, lapsed, runs>>

\* The local variables of the call are gone.
Forget(w) ==
    /\ plan'   = [plan EXCEPT ![w] = NoPlan]
    /\ tokens' = [tokens EXCEPT ![w] = <<>>]
    /\ at'     = [at EXCEPT ![w] = 1]

\* Mutant: the return for a refused lock forgets the locks already taken.
Return_Early(w) ==
    /\ pc[w] = "release"
    /\ result[w] = "lock_denied" \/ at[w] > Len(tokens[w])
    /\ pc'     = [pc EXCEPT ![w] = "idle"]
    /\ Forget(w)
    /\ UNCHANGED <<redis, issued, result, lapsed, orphans, runs, faults>>

\* execute_plan returns.
Return(w) ==
    /\ pc[w] = "release"
    /\ at[w] > Len(tokens[w])
    /\ pc'     = [pc EXCEPT ![w] = "idle"]
    /\ Forget(w)
    /\ UNCHANGED <<redis, issued, result, lapsed, orphans, runs, faults>>

\* The worker's process dies, or its task is cancelled while it acquires
\* (the locks are released in a finally only around the playbooks).
Crash(w) ==
    /\ pc[w] # "idle"
    /\ faults < MaxFaults
    /\ faults'  = faults + 1
    /\ orphans' = orphans \cup {tokens[w][i] : i \in DOMAIN tokens[w]}
    /\ pc'      = [pc EXCEPT ![w] = "idle"]
    /\ Forget(w)
    /\ result'  = [result EXCEPT ![w] = "none"]
    /\ UNCHANGED <<redis, issued, lapsed, runs>>

\* Redis drops a key whose TTL has run out.
Expire(k) ==
    /\ redis[k] # 0
    /\ redis'  = [redis EXCEPT ![k] = 0]
    /\ lapsed' = lapsed \cup {redis[k]}
    /\ UNCHANGED <<issued, pc, plan, tokens, at, result, orphans, runs, faults>>

Step(w) ==
    \/ Acquire(w) \/ AcquireDenied(w) \/ AcquireError(w)
    \/ BeginPlaybooks(w) \/ NextAction(w) \/ PlaybookDone(w) \/ EndPlaybooks(w)
    \/ Release(w) \/ ReleaseError(w) \/ Return(w)

Next ==
    \/ \E w \in Workers, p \in Plans, c \in BOOLEAN : ExecutePlan(w, p, c)
    \/ \E w \in Workers : Step(w) \/ Crash(w)
    \/ \E k \in Keys : Expire(k)

Spec == Init /\ [][Next]_vars

-----------------------------------------------------------------------------
\* Every variable has its type; tokens are the ones issued, and a worker has
\* no more of them than its plan has actions.
TypeOK ==
    /\ redis \in [Keys -> 0..issued]
    /\ issued \in Nat
    /\ pc \in [Workers -> {"idle", "acquire", "next", "playbook", "release"}]
    /\ plan \in [Workers -> Plans \cup {NoPlan}]
    /\ tokens \in [Workers -> Seq(1..issued)]
    /\ at \in [Workers -> Nat \ {0}]
    /\ result \in [Workers -> {"none", "blocked", "hitl", "lock_denied", "executed", "failed"}]
    /\ lapsed \subseteq 1..issued
    /\ orphans \subseteq 1..issued
    /\ runs \in 0..MaxRuns
    /\ faults \in 0..MaxFaults

\* Worker w is inside the playbook of an action that needs key k.
Runs(w, k) == pc[w] = "playbook" /\ KeyOf(w, at[w]) = k

\* "prevent duplicate playbook executions on the same entity": two workers are
\* in playbooks under the same key only if the lock of one of them has run out
\* of its window -- in spite of lost replies, failed releases, crashes and
\* releases that come after the key has passed to somebody else.
NoDuplicateExecution ==
    \A w, v \in Workers, k \in Keys :
        (w # v /\ Runs(w, k) /\ Runs(v, k))
            => tokens[w][at[w]] \in lapsed \/ tokens[v][at[v]] \in lapsed

\* A key that is set is somebody's: a worker that is still going to release
\* it, or the loss of a reply, of a release or of its owner.  So no plan that
\* was denied, failed or done leaves a lock behind.
NoForgottenLock ==
    \A k \in Keys : redis[k] # 0 =>
        \/ redis[k] \in orphans
        \/ \E w \in Workers : /\ pc[w] # "idle"
                              /\ \E i \in DOMAIN tokens[w] : tokens[w][i] = redis[k]

\* release never takes a lock away from another owner: a key loses a token
\* only when the TTL runs out or when its own holder releases it.
OnlyOwnerReleases ==
    [][\A k \in Keys : (redis[k] # 0 /\ redis'[k] # redis[k]) =>
           \/ redis[k] \in lapsed'
           \/ \E w \in Workers : /\ pc[w] = "release"
                                 /\ \E i \in DOMAIN tokens[w] : tokens[w][i] = redis[k]]_vars
=============================================================================
