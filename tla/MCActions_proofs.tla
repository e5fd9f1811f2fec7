-------------------------- MODULE MCActions_proofs --------------------------
(***************************************************************************)
(* Proofs about what executes.  The execution lock of a plan excludes      *)
(* duplicate executions and is not forgotten, for any number of workers,   *)
(* keys and plans.  Of mediated action requests, whoever races, what is    *)
(* executed was approved and what has a trace was executed, for any number *)
(* of requests and callers and any specs and approval records; and with    *)
(* one caller at a time, the transition methods implement RequestLifecycle.*)
(***************************************************************************)
EXTENDS MCActions, TLAPS

(***************************************************************************)
(* The execution lock.                                                     *)
(***************************************************************************)

\* Where a worker's handler is and how many locks it has taken agree.
Shape(w) ==
    /\ Len(tokens[w]) <= Len(plan[w].actions)
    /\ pc[w] = "idle" => tokens[w] = <<>> /\ at[w] = 1
    /\ pc[w] = "acquire" => at[w] = Len(tokens[w]) + 1
    /\ pc[w] \in {"next", "playbook"} => Len(tokens[w]) = Len(plan[w].actions)
    /\ pc[w] = "playbook" => at[w] <= Len(plan[w].actions)

\* Lock i of worker w has not been given back yet.
Open(w, i) == i \in DOMAIN tokens[w] /\ (pc[w] = "release" => at[w] <= i)

\* No two locks have the same token (uuid4).
Unique ==
    \A w, v \in Workers : \A i \in DOMAIN tokens[w], j \in DOMAIN tokens[v] :
        tokens[w][i] = tokens[v][j] => w = v /\ i = j

\* A lock taken and not given back is in Redis, unless its TTL ran out.
Held ==
    \A w \in Workers : \A i \in DOMAIN tokens[w] :
        Open(w, i) /\ tokens[w][i] \notin lapsed => redis[KeyOf(w, i)] = tokens[w][i]

\* A key that is set is an orphan's, or a lock that is still to be released.
Owned ==
    \A k \in Keys : redis[k] # 0 =>
        \/ redis[k] \in orphans
        \/ \E w \in Workers : \E i \in DOMAIN tokens[w] :
               Open(w, i) /\ KeyOf(w, i) = k /\ tokens[w][i] = redis[k]

Shapes == \A w \in Workers : Shape(w)

LockInv == TypeOK /\ Shapes /\ Unique /\ Held /\ Owned

-----------------------------------------------------------------------------
\* A plan is a list of actions.
LEMMA PlanType ==
    ASSUME TypeOK, NEW w \in Workers
    PROVE  plan[w].actions \in Seq(Actions)
  <1>1. CASE plan[w] \in Plans
    BY <1>1, ExecutionAssumption
  <1>2. CASE plan[w] = NoPlan
    <2>1. plan[w].actions = <<>>
      BY <1>2 DEF NoPlan
    <2> QED BY <2>1
  <1> QED BY <1>1, <1>2 DEF TypeOK

\* A plan's i-th action has a key.
LEMMA KeyType ==
    ASSUME TypeOK, NEW w \in Workers, NEW i \in DOMAIN plan[w].actions
    PROVE  KeyOf(w, i) \in Keys
  <1>1. plan[w].actions \in Seq(Actions)
    BY PlanType
  <1> QED BY <1>1, ExecutionAssumption DEF KeyOf

\* The initial state satisfies the invariant.
LEMMA InitLockInv == Init => LockInv
  BY ExecutionAssumption
  DEF Init, LockInv, TypeOK, Shapes, Shape, Unique, Held, Owned, Open, NoPlan

\* Every step of execute_plan, of Redis and of the environment keeps the types.
LEMMA NextType ==
    ASSUME LockInv, [Next]_vars
    PROVE  TypeOK'
  <1> USE DEF LockInv
  <1>0. MaxRuns \in Nat /\ MaxFaults \in Nat
    BY ExecutionAssumption
  <1>1. ASSUME NEW w \in Workers, NEW p \in Plans, NEW c \in BOOLEAN, ExecutePlan(w, p, c)
        PROVE  TypeOK'
    <2>1. Routed(p, c) \in {"none", "blocked", "hitl"}
      BY DEF Routed
    <2> QED BY <1>0, <1>1, <2>1 DEF ExecutePlan, TypeOK
  <1>2. ASSUME NEW w \in Workers, Acquire(w)
        PROVE  TypeOK'
    <2>1. KeyOf(w, at[w]) \in Keys
      <3>1. at[w] \in DOMAIN plan[w].actions
        BY <1>2, ExecutionAssumption DEF Acquire, TypeOK, NoPlan
      <3> QED BY <3>1, KeyType
    <2>2. tokens' \in [Workers -> Seq(1..(issued + 1))]
      <3>1. \A v \in Workers : tokens[v] \in Seq(1..(issued + 1))
        BY DEF TypeOK
      <3>2. Append(tokens[w], issued + 1) \in Seq(1..(issued + 1))
        BY <3>1 DEF TypeOK
      <3> QED BY <1>2, <3>1, <3>2 DEF Acquire, TypeOK
    <2> QED BY <1>2, <2>1, <2>2 DEF Acquire, TypeOK
  <1>3. ASSUME NEW w \in Workers, AcquireDenied(w)
        PROVE  TypeOK'
    BY <1>3 DEF AcquireDenied, Denied, TypeOK
  <1>4. ASSUME NEW w \in Workers, AcquireError(w)
        PROVE  TypeOK'
    <2>1. \A v \in Workers : tokens[v] \in Seq(1..(issued + 1))
      BY DEF TypeOK
    <2>2. tokens \in [Workers -> Seq(1..(issued + 1))]
      BY <2>1 DEF TypeOK
    <2>3. CASE UNCHANGED <<redis, issued, orphans>>
      BY <1>0, <1>4, <2>3 DEF AcquireError, Denied, TypeOK
    <2>4. CASE /\ issued' = issued + 1
               /\ redis' = [redis EXCEPT ![KeyOf(w, at[w])] = issued + 1]
               /\ orphans' = orphans \cup {issued + 1}
      <3>0. redis \in [Keys -> 0..(issued + 1)] /\ issued + 1 \in 0..(issued + 1)
        BY DEF TypeOK
      <3>1. redis' \in [Keys -> 0..(issued + 1)]
        BY <2>4, <3>0
      <3>2. lapsed \subseteq 1..(issued + 1) /\ orphans' \subseteq 1..(issued + 1)
        BY <2>4 DEF TypeOK
      <3> QED BY <1>0, <1>4, <2>2, <2>4, <3>1, <3>2 DEF AcquireError, Denied, TypeOK
    <2> QED BY <1>4, <2>3, <2>4 DEF AcquireError
  <1>5. ASSUME NEW w \in Workers,
               BeginPlaybooks(w) \/ NextAction(w) \/ PlaybookDone(w) \/ EndPlaybooks(w)
        PROVE  TypeOK'
    <2>1. CASE BeginPlaybooks(w)
      BY <2>1 DEF BeginPlaybooks, TypeOK
    <2>2. CASE NextAction(w)
      <3>1. CASE plan[w].actions[at[w]] \in HasPlaybook
        BY <2>2, <3>1 DEF NextAction, TypeOK
      <3>2. CASE plan[w].actions[at[w]] \notin HasPlaybook
        BY <2>2, <3>2 DEF NextAction, TypeOK
      <3> QED BY <3>1, <3>2
    <2>3. CASE PlaybookDone(w)
      BY <2>3 DEF PlaybookDone, TypeOK
    <2>4. CASE EndPlaybooks(w)
      BY <2>4 DEF EndPlaybooks, TypeOK
    <2> QED BY <1>5, <2>1, <2>2, <2>3, <2>4
  <1>6. ASSUME NEW w \in Workers, Release(w)
        PROVE  TypeOK'
    <2>1. redis' \in [Keys -> 0..issued]
      <3>1. 0 \in 0..issued
        BY DEF TypeOK
      <3> QED BY <1>6, <3>1 DEF Release, TypeOK
    <2> QED BY <1>6, <2>1 DEF Release, TypeOK
  <1>7. ASSUME NEW w \in Workers, ReleaseError(w)
        PROVE  TypeOK'
    <2>1. tokens[w][at[w]] \in 1..issued
      BY <1>7 DEF ReleaseError, TypeOK
    <2>2. orphans' \subseteq 1..issued
      BY <1>7, <2>1 DEF ReleaseError, TypeOK
    <2>3. faults' \in 0..MaxFaults
      BY <1>0, <1>7 DEF ReleaseError, TypeOK
    <2> QED BY <1>7, <2>2, <2>3 DEF ReleaseError, TypeOK
  <1>8. ASSUME NEW w \in Workers, Return(w)
        PROVE  TypeOK'
    BY <1>8 DEF Return, Forget, TypeOK
  <1>9. ASSUME NEW w \in Workers, Crash(w)
        PROVE  TypeOK'
    <2>1. \A i \in DOMAIN tokens[w] : tokens[w][i] \in 1..issued
      BY DEF TypeOK
    <2>2. orphans' \subseteq 1..issued
      BY <1>9, <2>1 DEF Crash, TypeOK
    <2> QED BY <1>0, <1>9, <2>2 DEF Crash, Forget, TypeOK
  <1>10. ASSUME NEW k \in Keys, Expire(k)
         PROVE  TypeOK'
    <2>1. redis[k] \in 1..issued
      BY <1>10 DEF Expire, TypeOK
    <2>2. lapsed' \subseteq 1..issued
      BY <1>10, <2>1 DEF Expire, TypeOK
    <2>3. 0 \in 0..issued
      BY DEF TypeOK
    <2>4. redis' \in [Keys -> 0..issued]
      BY <1>10, <2>3 DEF Expire, TypeOK
    <2> QED BY <1>10, <2>2, <2>4 DEF Expire, TypeOK
  <1>11. CASE UNCHANGED vars
    BY <1>11 DEF vars, TypeOK
  <1> QED
    BY <1>1, <1>2, <1>3, <1>4, <1>5, <1>6, <1>7, <1>8, <1>9, <1>10, <1>11 DEF Next, Step

\* The length, the domain and the elements of a sequence.
LEMMA LengthDomain ==
    ASSUME NEW S, NEW s \in Seq(S)
    PROVE  /\ Len(s) \in Nat
           /\ DOMAIN s = 1..Len(s)
           /\ \A i \in DOMAIN s : s[i] \in S
  OBVIOUS

\* The types of what belongs to one worker.
LEMMA WorkerType ==
    ASSUME TypeOK, NEW w \in Workers
    PROVE  /\ tokens[w] \in Seq(1..issued)
           /\ \A i \in DOMAIN tokens[w] : tokens[w][i] \in 1..issued
           /\ Len(tokens[w]) \in Nat
           /\ DOMAIN tokens[w] = 1..Len(tokens[w])
           /\ plan[w].actions \in Seq(Actions)
           /\ Len(plan[w].actions) \in Nat
           /\ DOMAIN plan[w].actions = 1..Len(plan[w].actions)
           /\ at[w] \in Nat \ {0}
  <1>1. tokens[w] \in Seq(1..issued) /\ at[w] \in Nat \ {0}
    BY DEF TypeOK
  <1>2. /\ Len(tokens[w]) \in Nat
        /\ DOMAIN tokens[w] = 1..Len(tokens[w])
        /\ \A i \in DOMAIN tokens[w] : tokens[w][i] \in 1..issued
    BY <1>1, LengthDomain, Zenon
  <1>3. plan[w].actions \in Seq(Actions)
    BY PlanType
  <1>4. Len(plan[w].actions) \in Nat /\ DOMAIN plan[w].actions = 1..Len(plan[w].actions)
    BY <1>3, LengthDomain, Zenon
  <1> QED BY <1>1, <1>2, <1>3, <1>4

\* Shape is kept: every loop stops at the end of the list it goes through.
LEMMA NextShape ==
    ASSUME LockInv, [Next]_vars
    PROVE  Shapes'
  <1> USE DEF LockInv
  <1> SUFFICES ASSUME NEW v \in Workers
               PROVE  Shape(v)'
    BY DEF Shapes
  <1>0. Shape(v)
    BY DEF Shapes
  <1>1. /\ tokens[v] \in Seq(1..issued) /\ Len(tokens[v]) \in Nat
        /\ Len(plan[v].actions) \in Nat /\ at[v] \in Nat \ {0}
    BY WorkerType
  <1>2. ASSUME NEW w \in Workers, NEW p \in Plans, NEW c \in BOOLEAN, ExecutePlan(w, p, c)
        PROVE  Shape(v)'
    <2>1. Len(p.actions) \in Nat
      BY ExecutionAssumption
    <2>2. CASE v = w
      BY <1>0, <1>1, <1>2, <2>1, <2>2 DEF ExecutePlan, Shape, TypeOK
    <2>3. CASE v # w
      BY <1>0, <1>2, <2>3 DEF ExecutePlan, Shape, TypeOK
    <2> QED BY <2>2, <2>3
  <1>3. ASSUME NEW w \in Workers, Acquire(w)
        PROVE  Shape(v)'
    <2>1. CASE v = w
      <3>1. tokens'[v] = Append(tokens[v], issued + 1) /\ at'[v] = at[v] + 1
        BY <1>3, <2>1 DEF Acquire, TypeOK
      <3>2. Len(tokens'[v]) = Len(tokens[v]) + 1
        BY <1>1, <3>1
      <3> QED BY <1>0, <1>1, <1>3, <2>1, <3>1, <3>2 DEF Acquire, Shape
    <2>2. CASE v # w
      BY <1>0, <1>3, <2>2 DEF Acquire, Shape, TypeOK
    <2> QED BY <2>1, <2>2
  <1>4. ASSUME NEW w \in Workers, AcquireDenied(w) \/ AcquireError(w)
        PROVE  Shape(v)'
    BY <1>0, <1>4 DEF AcquireDenied, AcquireError, Denied, Shape, TypeOK
  <1>5. ASSUME NEW w \in Workers, BeginPlaybooks(w)
        PROVE  Shape(v)'
    BY <1>0, <1>1, <1>5 DEF BeginPlaybooks, Shape, TypeOK
  <1>6. ASSUME NEW w \in Workers, NextAction(w)
        PROVE  Shape(v)'
    BY <1>0, <1>6 DEF NextAction, Shape, TypeOK
  <1>7. ASSUME NEW w \in Workers, PlaybookDone(w)
        PROVE  Shape(v)'
    BY <1>0, <1>7 DEF PlaybookDone, Shape, TypeOK
  <1>8. ASSUME NEW w \in Workers, EndPlaybooks(w)
        PROVE  Shape(v)'
    BY <1>0, <1>8 DEF EndPlaybooks, Shape, TypeOK
  <1>9. ASSUME NEW w \in Workers, Release(w) \/ ReleaseError(w)
        PROVE  Shape(v)'
    BY <1>0, <1>9 DEF Release, ReleaseError, Shape, TypeOK
  <1>10. ASSUME NEW w \in Workers, Return(w) \/ Crash(w)
         PROVE  Shape(v)'
    BY <1>0, <1>10 DEF Return, Crash, Forget, NoPlan, Shape, TypeOK
  <1>11. ASSUME NEW k \in Keys, Expire(k)
         PROVE  Shape(v)'
    BY <1>0, <1>11 DEF Expire, Shape
  <1>12. CASE UNCHANGED vars
    BY <1>0, <1>12 DEF vars, Shape
  <1> QED
    BY <1>2, <1>3, <1>4, <1>5, <1>6, <1>7, <1>8, <1>9, <1>10, <1>11, <1>12 DEF Next, Step

\* Tokens stay unique: acquire appends a fresh one, all others are dropped
\* or left alone.
LEMMA NextUnique ==
    ASSUME LockInv, [Next]_vars
    PROVE  Unique'
  <1> USE DEF LockInv
  <1>1. ASSUME NEW w \in Workers, Acquire(w)
        PROVE  Unique'
    <2> DEFINE t == issued + 1
    <2>1. \A v \in Workers : \A i \in DOMAIN tokens[v] : tokens[v][i] # t
      BY WorkerType DEF TypeOK
    <2>2. tokens' = [tokens EXCEPT ![w] = Append(tokens[w], t)]
      BY <1>1 DEF Acquire
    <2>3. \A v \in Workers : v # w => tokens'[v] = tokens[v]
      BY <2>2 DEF TypeOK
    <2>4. tokens'[w] = Append(tokens[w], t)
      BY <2>2 DEF TypeOK
    <2>5. \A i \in DOMAIN tokens'[w] :
             \/ i \in DOMAIN tokens[w] /\ tokens'[w][i] = tokens[w][i]
             \/ i = Len(tokens[w]) + 1 /\ tokens'[w][i] = t
      <3> HIDE DEF t
      <3>1. tokens[w] \in Seq(1..issued)
        BY WorkerType
      <3> QED BY <2>4, <3>1
    <2> HIDE DEF t
    <2> QED BY <2>1, <2>3, <2>5 DEF Unique
  <1>2. ASSUME NEW w \in Workers, tokens' = [tokens EXCEPT ![w] = <<>>]
        PROVE  Unique'
    BY <1>2 DEF Unique, TypeOK
  <1>3. ASSUME tokens' = tokens
        PROVE  Unique'
    BY <1>3 DEF Unique
  <1>4. \/ tokens' = tokens
        \/ \E w \in Workers : Acquire(w) \/ tokens' = [tokens EXCEPT ![w] = <<>>]
    BY DEF Next, Step, vars, ExecutePlan, AcquireDenied, AcquireError, BeginPlaybooks,
       NextAction, PlaybookDone, EndPlaybooks, Release, ReleaseError, Return, Crash, Forget,
       Expire
  <1> QED BY <1>1, <1>2, <1>3, <1>4

\* The steps that only move a worker along: its locks and Redis stay, and no
\* lock it had given back becomes one it has to give back.
Relocks ==
    /\ redis' = redis /\ tokens' = tokens /\ plan' = plan /\ lapsed' = lapsed
    /\ orphans \subseteq orphans'

\* A refused lock, a step from one playbook to the next and the failure of a
\* release are such steps.
LEMMA MovesOnly ==
    ASSUME LockInv, NEW w \in Workers,
           \/ AcquireDenied(w) \/ BeginPlaybooks(w) \/ NextAction(w) \/ PlaybookDone(w)
           \/ EndPlaybooks(w) \/ ReleaseError(w)
    PROVE  /\ Relocks
           /\ \A v \in Workers, i \in Nat : Open(v, i)' => Open(v, i)
  <1> USE DEF LockInv
  <1>1. Relocks
    BY DEF Relocks, AcquireDenied, Denied, BeginPlaybooks, NextAction, PlaybookDone,
       EndPlaybooks, ReleaseError
  <1>2. ASSUME NEW v \in Workers, NEW i \in Nat, Open(v, i)'
        PROVE  Open(v, i)
    <2>1. at[w] \in Nat /\ i \in DOMAIN tokens[v]
      BY <1>1, <1>2, WorkerType DEF Open, Relocks
    <2>2. CASE v = w /\ ReleaseError(w)
      BY <1>2, <2>1, <2>2 DEF ReleaseError, Open, TypeOK
    <2>3. CASE v = w /\ ~ReleaseError(w)
      <3>1. pc[w] # "release"
        BY <2>3 DEF AcquireDenied, BeginPlaybooks, NextAction, PlaybookDone, EndPlaybooks
      <3> QED BY <2>1, <2>3, <3>1 DEF Open
    <2>4. CASE v # w
      <3>1. pc'[v] = pc[v] /\ at'[v] = at[v]
        BY <2>4 DEF AcquireDenied, Denied, BeginPlaybooks, NextAction, PlaybookDone,
           EndPlaybooks, ReleaseError, TypeOK
      <3> QED BY <1>2, <2>1, <3>1 DEF Open
    <2> QED BY <2>2, <2>3, <2>4
  <1> QED BY <1>1, <1>2

\* A lock that is held and whose window has not run out stays in Redis: SET NX
\* does not overwrite it, and a release deletes only its own token.
LEMMA NextHeld ==
    ASSUME LockInv, [Next]_vars
    PROVE  Held'
  <1> USE DEF LockInv
  <1> SUFFICES ASSUME NEW v \in Workers, NEW i \in DOMAIN tokens'[v], Open(v, i)',
                      tokens'[v][i] \notin lapsed'
               PROVE  redis'[KeyOf(v, i)'] = tokens'[v][i]
    BY DEF Held
  <1> DEFINE Goal == redis'[KeyOf(v, i)'] = tokens'[v][i]
  <1>0. ASSUME NEW x \in Workers
        PROVE  /\ DOMAIN tokens[x] = 1..Len(tokens[x])
               /\ Len(tokens[x]) \in Nat
               /\ at[x] \in Nat \ {0}
               /\ Len(tokens[x]) <= Len(plan[x].actions)
               /\ Len(plan[x].actions) \in Nat
               /\ DOMAIN plan[x].actions = 1..Len(plan[x].actions)
    BY WorkerType DEF Shapes, Shape
  <1>1. ASSUME NEW x \in Workers, NEW j \in DOMAIN tokens[x]
        PROVE  /\ KeyOf(x, j) \in Keys
               /\ j \in Nat
               /\ tokens[x][j] \in Nat \ {0}
    <2>1. tokens[x][j] \in 1..issued /\ issued \in Nat
      BY WorkerType DEF TypeOK
    <2>2. j \in DOMAIN plan[x].actions /\ j \in Nat
      BY <1>0
    <2> QED BY <2>1, <2>2, KeyType
  <1>2. ASSUME NEW w \in Workers, NEW p \in Plans, NEW c \in BOOLEAN, ExecutePlan(w, p, c)
        PROVE  Goal
    <2>1. i \in DOMAIN tokens[v] /\ v # w
      BY <1>2 DEF ExecutePlan, Shapes, Shape
    <2>2. Open(v, i)
      BY <1>2, <2>1 DEF ExecutePlan, Open, TypeOK
    <2>3. plan'[v] = plan[v]
      BY <1>2, <2>1 DEF ExecutePlan, TypeOK
    <2> QED BY <1>2, <2>1, <2>2, <2>3 DEF ExecutePlan, Held, KeyOf
  <1>3. ASSUME NEW w \in Workers, Acquire(w)
        PROVE  Goal
    <2> DEFINE k == KeyOf(w, at[w])
    <2>1. at[w] = Len(tokens[w]) + 1 /\ k \in Keys
      <3>1. at[w] \in DOMAIN plan[w].actions
        BY <1>0, <1>3 DEF Acquire
      <3> QED BY <1>3, <3>1, KeyType DEF Acquire, Shapes, Shape
    <2>2. redis' = [redis EXCEPT ![k] = issued + 1] /\ redis[k] = 0 /\ plan' = plan
          /\ pc' = pc /\ lapsed' = lapsed
      BY <1>3 DEF Acquire
    <2>3. tokens' = [tokens EXCEPT ![w] = Append(tokens[w], issued + 1)]
      BY <1>3 DEF Acquire
    <2>4. \/ i \in DOMAIN tokens[v] /\ tokens'[v][i] = tokens[v][i]
          \/ v = w /\ i = at[w] /\ tokens'[v][i] = issued + 1
      <3>1. CASE v # w
        BY <2>3, <3>1 DEF TypeOK
      <3>2. CASE v = w
        <4>1. tokens'[v] = Append(tokens[v], issued + 1)
          BY <2>3, <3>2 DEF TypeOK
        <4>2. tokens[v] \in Seq(1..issued)
          BY WorkerType
        <4> QED BY <2>1, <3>2, <4>1, <4>2
      <3> QED BY <3>1, <3>2
    <2>5. CASE v = w /\ i = at[w] /\ tokens'[v][i] = issued + 1
      BY <2>1, <2>2, <2>5 DEF KeyOf, TypeOK
    <2>6. CASE i \in DOMAIN tokens[v] /\ tokens'[v][i] = tokens[v][i]
      <3>1. Open(v, i)
        BY <1>3, <2>2, <2>6 DEF Acquire, Open, TypeOK
      <3>2. redis[KeyOf(v, i)] = tokens[v][i]
        BY <2>2, <2>6, <3>1 DEF Held
      <3>3. KeyOf(v, i) # k
        BY <1>1, <2>2, <2>6, <3>2
      <3>4. KeyOf(v, i)' = KeyOf(v, i)
        BY <2>2 DEF KeyOf
      <3> QED BY <1>1, <2>2, <2>6, <3>2, <3>3, <3>4 DEF TypeOK
    <2> QED BY <2>4, <2>5, <2>6
  <1>4. ASSUME NEW w \in Workers, AcquireError(w)
        PROVE  Goal
    <2>1. tokens' = tokens /\ plan' = plan /\ lapsed' = lapsed
      BY <1>4 DEF AcquireError
    <2>2. Open(v, i)
      BY <1>4, <2>1 DEF AcquireError, Denied, Open, TypeOK
    <2>3. redis[KeyOf(v, i)] = tokens[v][i]
      BY <2>1, <2>2 DEF Held
    <2>4. KeyOf(v, i)' = KeyOf(v, i)
      BY <2>1 DEF KeyOf
    <2>5. CASE redis' = redis
      BY <2>1, <2>3, <2>4, <2>5
    <2>6. CASE /\ redis[KeyOf(w, at[w])] = 0
               /\ redis' = [redis EXCEPT ![KeyOf(w, at[w])] = issued + 1]
      <3>1. KeyOf(v, i) # KeyOf(w, at[w])
        BY <1>1, <2>1, <2>3, <2>6
      <3> QED BY <1>1, <2>1, <2>3, <2>4, <2>6, <3>1 DEF TypeOK
    <2> QED BY <1>4, <2>5, <2>6 DEF AcquireError
  <1>5. ASSUME NEW w \in Workers,
               \/ AcquireDenied(w) \/ BeginPlaybooks(w) \/ NextAction(w) \/ PlaybookDone(w)
               \/ EndPlaybooks(w) \/ ReleaseError(w)
        PROVE  Goal
    <2>1. Relocks
      BY <1>5, MovesOnly
    <2>2. Open(v, i)
      BY <1>1, <1>5, <2>1, MovesOnly DEF Relocks
    <2> QED BY <2>1, <2>2 DEF Relocks, Held, KeyOf
  <1>6. ASSUME NEW w \in Workers, Release(w)
        PROVE  Goal
    <2>1. tokens' = tokens /\ plan' = plan /\ lapsed' = lapsed /\ pc' = pc
          /\ at[w] \in DOMAIN tokens[w]
      BY <1>0, <1>6 DEF Release
    <2>2. Open(v, i) /\ ~(v = w /\ i = at[w])
      <3>1. at' = [at EXCEPT ![w] = at[w] + 1] /\ pc[w] = "release" /\ at[w] \in Nat
        BY <1>6, WorkerType DEF Release
      <3>2. at'[v] = IF v = w THEN at[w] + 1 ELSE at[v]
        BY <3>1 DEF TypeOK
      <3> QED BY <1>1, <2>1, <3>1, <3>2 DEF Open
    <2>3. redis[KeyOf(v, i)] = tokens[v][i]
      BY <2>1, <2>2 DEF Held
    <2>4. tokens[v][i] # tokens[w][at[w]]
      BY <2>1, <2>2 DEF Unique
    <2>5. KeyOf(v, i)' = KeyOf(v, i) /\ KeyOf(v, i) \in Keys
      BY <1>1, <2>1 DEF KeyOf
    <2>6. redis'[KeyOf(v, i)] = redis[KeyOf(v, i)]
      BY <1>6, <2>3, <2>4, <2>5 DEF Release, TypeOK
    <2> QED BY <2>1, <2>3, <2>5, <2>6
  <1>7. ASSUME NEW w \in Workers, Return(w) \/ Crash(w)
        PROVE  Goal
    <2>1. v # w
      BY <1>7 DEF Return, Crash, Forget, TypeOK
    <2>2. tokens'[v] = tokens[v] /\ plan'[v] = plan[v] /\ lapsed' = lapsed /\ redis' = redis
          /\ pc'[v] = pc[v] /\ at'[v] = at[v]
      BY <1>7, <2>1 DEF Return, Crash, Forget, TypeOK
    <2>3. Open(v, i)
      BY <2>2 DEF Open
    <2> QED BY <2>2, <2>3 DEF Held, KeyOf
  <1>8. ASSUME NEW k \in Keys, Expire(k)
        PROVE  Goal
    <2>1. tokens' = tokens /\ plan' = plan /\ Open(v, i) /\ lapsed \subseteq lapsed'
      BY <1>8 DEF Expire, Open
    <2>2. redis[KeyOf(v, i)] = tokens[v][i]
      BY <2>1 DEF Held
    <2>3. KeyOf(v, i) # k
      BY <1>8, <2>1, <2>2 DEF Expire
    <2> QED BY <1>8, <2>1, <2>2, <2>3 DEF Expire, KeyOf, TypeOK
  <1>9. CASE UNCHANGED vars
    BY <1>9 DEF vars, Held, Open, KeyOf
  <1> QED
    BY <1>2, <1>3, <1>4, <1>5, <1>6, <1>7, <1>8, <1>9 DEF Next, Step

\* A key that is set belongs to a lock that is still to be released, or is an
\* orphan of a fault.
LEMMA NextOwned ==
    ASSUME LockInv, [Next]_vars
    PROVE  Owned'
  <1> USE DEF LockInv
  <1> DEFINE Owner(k, x, j) == /\ j \in DOMAIN tokens[x] /\ Open(x, j)
                               /\ KeyOf(x, j) = k /\ tokens[x][j] = redis[k]
             Goal(k) == \/ redis'[k] \in orphans'
                        \/ \E x \in Workers : \E j \in DOMAIN tokens'[x] :
                              Open(x, j)' /\ KeyOf(x, j)' = k /\ tokens'[x][j] = redis'[k]
  <1> SUFFICES ASSUME NEW k \in Keys, redis'[k] # 0
               PROVE  Goal(k)
    BY DEF Owned
  <1>0. ASSUME NEW x \in Workers
        PROVE  /\ DOMAIN tokens[x] = 1..Len(tokens[x])
               /\ Len(tokens[x]) \in Nat
               /\ at[x] \in Nat \ {0}
    BY WorkerType
  <1>1. redis[k] # 0 => \/ redis[k] \in orphans
                        \/ \E x \in Workers : \E j \in DOMAIN tokens[x] : Owner(k, x, j)
    BY DEF Owned
  <1>2. \* An owner whose lock is untouched still is one.
        ASSUME NEW x \in Workers, NEW j \in DOMAIN tokens[x], Owner(k, x, j),
               redis'[k] = redis[k], tokens'[x] = tokens[x], plan'[x] = plan[x],
               pc'[x] = "release" => at'[x] <= j
        PROVE  Goal(k)
    BY <1>2 DEF Open, KeyOf
  <1>3. ASSUME NEW w \in Workers, NEW p \in Plans, NEW c \in BOOLEAN, ExecutePlan(w, p, c)
        PROVE  Goal(k)
    <2>1. tokens' = tokens /\ redis' = redis /\ orphans' = orphans /\ at' = at
      BY <1>3 DEF ExecutePlan
    <2>2. ASSUME NEW x \in Workers, NEW j \in DOMAIN tokens[x], Owner(k, x, j)
          PROVE  Goal(k)
      <3>1. x # w
        BY <1>3, <2>2 DEF ExecutePlan, Shapes, Shape
      <3>2. plan'[x] = plan[x] /\ pc'[x] = pc[x]
        BY <1>3, <3>1 DEF ExecutePlan, TypeOK
      <3> QED BY <1>2, <2>1, <2>2, <3>2 DEF Open
    <2> QED BY <1>1, <2>1, <2>2
  <1>4. ASSUME NEW w \in Workers, Acquire(w)
        PROVE  Goal(k)
    <2>1. /\ redis' = [redis EXCEPT ![KeyOf(w, at[w])] = issued + 1]
          /\ plan' = plan /\ pc' = pc /\ orphans' = orphans /\ pc[w] = "acquire"
          /\ tokens' = [tokens EXCEPT ![w] = Append(tokens[w], issued + 1)]
          /\ at' = [at EXCEPT ![w] = at[w] + 1]
      BY <1>4 DEF Acquire
    <2>2. /\ tokens'[w] = Append(tokens[w], issued + 1)
          /\ at[w] = Len(tokens[w]) + 1
          /\ tokens[w] \in Seq(1..issued)
      BY <2>1, WorkerType DEF TypeOK, Shapes, Shape
    <2>3. /\ at[w] \in DOMAIN tokens'[w] /\ tokens'[w][at[w]] = issued + 1
          /\ \A j \in DOMAIN tokens[w] : j \in DOMAIN tokens'[w] /\ tokens'[w][j] = tokens[w][j]
      BY <2>2
    <2>4. CASE k = KeyOf(w, at[w])
      <3>1. redis'[k] = issued + 1
        BY <2>1, <2>4 DEF TypeOK
      <3>2. \E j \in DOMAIN tokens'[w] :
               Open(w, j)' /\ KeyOf(w, j)' = k /\ tokens'[w][j] = redis'[k]
        <4>1. LockKey[plan'[w].actions[at[w]]] = k
          BY <2>1, <2>4 DEF KeyOf
        <4>2. at[w] \in DOMAIN tokens'[w] /\ (pc'[w] = "release" => at'[w] <= at[w])
          BY <2>1, <2>3
        <4> QED BY <2>3, <3>1, <4>1, <4>2 DEF Open, KeyOf
      <3> QED BY <3>2
    <2>5. CASE k # KeyOf(w, at[w])
      <3>1. redis'[k] = redis[k]
        BY <2>1, <2>5 DEF TypeOK
      <3>2. ASSUME NEW x \in Workers, NEW j \in DOMAIN tokens[x], Owner(k, x, j)
            PROVE  Goal(k)
        <4>1. CASE x # w
          <5>1. tokens'[x] = tokens[x] /\ at'[x] = at[x]
            BY <2>1, <4>1 DEF TypeOK
          <5> QED BY <1>2, <2>1, <3>1, <3>2, <5>1 DEF Open
        <4>2. CASE x = w
          BY <2>1, <2>3, <3>1, <3>2, <4>2 DEF Open, KeyOf
        <4> QED BY <4>1, <4>2
      <3> QED BY <1>1, <2>1, <3>1, <3>2
    <2> QED BY <2>4, <2>5
  <1>5. ASSUME NEW w \in Workers, NEW j \in DOMAIN tokens[w], Owner(k, w, j),
               (pc'[w] = "release" /\ at'[w] = 1) \/ pc'[w] # "release",
               redis'[k] = redis[k], tokens' = tokens, plan' = plan
        PROVE  Goal(k)
    <2>1. pc'[w] = "release" => at'[w] <= j
      BY <1>0, <1>5
    <2> QED BY <1>2, <1>5, <2>1
  <1>6. ASSUME NEW w \in Workers, AcquireError(w)
        PROVE  Goal(k)
    <2>1. tokens' = tokens /\ plan' = plan /\ orphans \subseteq orphans'
      BY <1>6 DEF AcquireError
    <2>2. ASSUME NEW x \in Workers, NEW j \in DOMAIN tokens[x], Owner(k, x, j),
                 redis'[k] = redis[k]
          PROVE  Goal(k)
      <3>1. CASE x = w
        BY <1>5, <1>6, <2>1, <2>2, <3>1 DEF AcquireError, Denied, TypeOK
      <3>2. CASE x # w
        <4>1. pc'[x] = pc[x] /\ at'[x] = at[x]
          BY <1>6, <3>2 DEF AcquireError, Denied, TypeOK
        <4> QED BY <1>2, <2>1, <2>2, <4>1 DEF Open
      <3> QED BY <3>1, <3>2
    <2>3. redis'[k] = redis[k] \/ redis'[k] \in orphans'
      BY <1>6 DEF AcquireError, TypeOK
    <2> QED BY <1>1, <2>1, <2>2, <2>3
  <1>7. ASSUME NEW w \in Workers,
               \/ AcquireDenied(w) \/ BeginPlaybooks(w) \/ NextAction(w) \/ PlaybookDone(w)
               \/ EndPlaybooks(w)
        PROVE  Goal(k)
    <2>1. Relocks
      BY <1>7, MovesOnly
    <2>2. /\ (pc'[w] = "release" /\ at'[w] = 1) \/ pc'[w] # "release"
          /\ \A x \in Workers \ {w} : pc'[x] = pc[x] /\ at'[x] = at[x]
      BY <1>7 DEF AcquireDenied, Denied, BeginPlaybooks, NextAction, PlaybookDone,
         EndPlaybooks, TypeOK
    <2>3. ASSUME NEW x \in Workers, NEW j \in DOMAIN tokens[x], Owner(k, x, j)
          PROVE  Goal(k)
      <3>1. CASE x = w
        BY <1>5, <2>1, <2>2, <2>3, <3>1 DEF Relocks
      <3>2. CASE x # w
        BY <1>2, <2>1, <2>2, <2>3, <3>2 DEF Relocks, Open
      <3> QED BY <3>1, <3>2
    <2> QED BY <1>1, <2>1, <2>3 DEF Relocks
  <1>8. ASSUME NEW w \in Workers, Release(w)
        PROVE  Goal(k)
    <2>1. /\ tokens' = tokens /\ plan' = plan /\ pc' = pc /\ orphans' = orphans
          /\ at' = [at EXCEPT ![w] = at[w] + 1]
          /\ redis'[k] = IF k = KeyOf(w, at[w]) /\ redis[k] = tokens[w][at[w]]
                         THEN 0 ELSE redis[k]
      BY <1>8 DEF Release, TypeOK
    <2>2. redis'[k] = redis[k]
      BY <2>1
    <2>3. ASSUME NEW x \in Workers, NEW j \in DOMAIN tokens[x], Owner(k, x, j)
          PROVE  Goal(k)
      <3>1. ~(x = w /\ j = at[w])
        BY <2>1, <2>3
      <3>2. pc'[x] = "release" => at'[x] <= j
        BY <1>0, <2>1, <2>3, <3>1 DEF Open, TypeOK
      <3> QED BY <1>2, <2>1, <2>2, <2>3, <3>2
    <2> QED BY <1>1, <2>1, <2>2, <2>3
  <1>9. ASSUME NEW w \in Workers, ReleaseError(w)
        PROVE  Goal(k)
    <2>1. /\ tokens' = tokens /\ plan' = plan /\ pc' = pc /\ redis' = redis
          /\ at' = [at EXCEPT ![w] = at[w] + 1]
          /\ orphans' = orphans \cup {tokens[w][at[w]]}
      BY <1>9 DEF ReleaseError
    <2>2. ASSUME NEW x \in Workers, NEW j \in DOMAIN tokens[x], Owner(k, x, j)
          PROVE  Goal(k)
      <3>1. CASE x = w /\ j = at[w]
        BY <2>1, <2>2, <3>1
      <3>2. CASE ~(x = w /\ j = at[w])
        <4>1. pc'[x] = "release" => at'[x] <= j
          BY <1>0, <2>1, <2>2, <3>2 DEF Open, TypeOK
        <4> QED BY <1>2, <2>1, <2>2, <4>1
      <3> QED BY <3>1, <3>2
    <2> QED BY <1>1, <2>1, <2>2
  <1>10. ASSUME NEW w \in Workers, Return(w) \/ Crash(w)
         PROVE  Goal(k)
    <2>1. redis' = redis /\ orphans \subseteq orphans'
      BY <1>10 DEF Return, Crash
    <2>2. ASSUME NEW x \in Workers, NEW j \in DOMAIN tokens[x], Owner(k, x, j)
          PROVE  Goal(k)
      <3>1. CASE x # w
        <4>1. tokens'[x] = tokens[x] /\ plan'[x] = plan[x] /\ pc'[x] = pc[x] /\ at'[x] = at[x]
          BY <1>10, <3>1 DEF Return, Crash, Forget, TypeOK
        <4> QED BY <1>2, <2>1, <2>2, <4>1 DEF Open
      <3>2. CASE x = w /\ Return(w)
        BY <1>0, <2>2, <3>2 DEF Return, Open
      <3>3. CASE x = w /\ Crash(w)
        BY <2>1, <2>2, <3>3 DEF Crash
      <3> QED BY <1>10, <3>1, <3>2, <3>3
    <2> QED BY <1>1, <2>1, <2>2
  <1>11. ASSUME NEW q \in Keys, Expire(q)
         PROVE  Goal(k)
    <2>1. /\ tokens' = tokens /\ plan' = plan /\ pc' = pc /\ at' = at /\ orphans' = orphans
          /\ redis'[k] = redis[k]
      BY <1>11 DEF Expire, TypeOK
    <2> QED BY <1>1, <1>2, <2>1 DEF Open
  <1>12. CASE UNCHANGED vars
    BY <1>1, <1>2, <1>12 DEF vars, Open
  <1> QED
    BY <1>3, <1>4, <1>6, <1>7, <1>8, <1>9, <1>10, <1>11, <1>12 DEF Next, Step

-----------------------------------------------------------------------------
\* The inductive invariant of the lock.
THEOREM LockInvariant == Spec => []LockInv
  <1>1. LockInv /\ [Next]_vars => LockInv'
    BY NextType, NextShape, NextUnique, NextHeld, NextOwned DEF LockInv
  <1> QED BY InitLockInv, <1>1, PTL DEF Spec

\* Type correctness of execute_plan and of the lock.
THEOREM TypeCorrect == Spec => []TypeOK
  BY LockInvariant, PTL DEF LockInv

\* Two workers run playbooks under one key only when the window of one of
\* them is over (acquire's NX, release's compare-and-delete).
THEOREM MutualExclusion == Spec => []NoDuplicateExecution
  <1>1. LockInv => NoDuplicateExecution
    <2> SUFFICES ASSUME LockInv, NEW w \in Workers, NEW v \in Workers, NEW k \in Keys,
                        w # v, Runs(w, k), Runs(v, k),
                        tokens[w][at[w]] \notin lapsed, tokens[v][at[v]] \notin lapsed
                 PROVE  FALSE
      BY DEF NoDuplicateExecution
    <2>1. ASSUME NEW x \in Workers, Runs(x, k), tokens[x][at[x]] \notin lapsed
          PROVE  at[x] \in DOMAIN tokens[x] /\ redis[k] = tokens[x][at[x]]
      <3>1. at[x] \in DOMAIN tokens[x] /\ pc[x] = "playbook"
        BY <2>1, WorkerType DEF LockInv, Shapes, Shape, Runs
      <3>2. Open(x, at[x])
        BY <3>1 DEF Open
      <3> QED BY <2>1, <3>1, <3>2 DEF LockInv, Held, Runs
    <2> QED BY <2>1 DEF LockInv, Unique
  <1> QED BY LockInvariant, <1>1, PTL

\* No plan that was denied, failed or done leaves a lock behind.
THEOREM LocksAreReleased == Spec => []NoForgottenLock
  <1>1. LockInv => NoForgottenLock
    <2> SUFFICES ASSUME LockInv, NEW k \in Keys, redis[k] # 0, redis[k] \notin orphans
                 PROVE  \E w \in Workers : /\ pc[w] # "idle"
                                           /\ \E i \in DOMAIN tokens[w] : tokens[w][i] = redis[k]
      BY DEF NoForgottenLock
    <2>1. PICK w \in Workers : \E i \in DOMAIN tokens[w] : tokens[w][i] = redis[k]
      BY DEF LockInv, Owned
    <2>2. pc[w] # "idle"
      BY <2>1 DEF LockInv, Shapes, Shape
    <2> QED BY <2>1, <2>2
  <1> QED BY LockInvariant, <1>1, PTL

\* A key loses its token to Release, whose script compares it with the token
\* of the releasing worker, or to the end of its TTL.
LEMMA NextRelease ==
    ASSUME TypeOK, [Next]_vars, NEW k \in Keys, redis[k] # 0, redis'[k] # redis[k]
    PROVE  \/ redis[k] \in lapsed'
           \/ \E w \in Workers : /\ pc[w] = "release"
                                 /\ \E i \in DOMAIN tokens[w] : tokens[w][i] = redis[k]
  <1>1. ASSUME NEW w \in Workers, Acquire(w) \/ AcquireError(w)
        PROVE  FALSE
    BY <1>1 DEF Acquire, AcquireError, TypeOK
  <1>2. ASSUME NEW w \in Workers, Release(w)
        PROVE  pc[w] = "release" /\ \E i \in DOMAIN tokens[w] : tokens[w][i] = redis[k]
    <2>1. redis[k] = tokens[w][at[w]] /\ pc[w] = "release"
      BY <1>2 DEF Release, TypeOK
    <2>2. at[w] \in DOMAIN tokens[w]
      BY <1>2, WorkerType DEF Release
    <2> QED BY <2>1, <2>2
  <1>3. ASSUME NEW x \in Keys, Expire(x)
        PROVE  redis[k] \in lapsed'
    BY <1>3 DEF Expire, TypeOK
  <1>4. \/ redis' = redis
        \/ \E w \in Workers : Acquire(w) \/ AcquireError(w) \/ Release(w)
        \/ \E x \in Keys : Expire(x)
    BY DEF Next, Step, vars, ExecutePlan, AcquireDenied, BeginPlaybooks, NextAction,
       PlaybookDone, EndPlaybooks, ReleaseError, Return, Crash
  <1> QED BY <1>1, <1>2, <1>3, <1>4

\* Nobody takes a lock away from its owner, however late a release comes.
THEOREM LocksAreNotStolen == Spec => OnlyOwnerReleases
  <1>1. TypeOK /\ [Next]_vars =>
            [\A k \in Keys : (redis[k] # 0 /\ redis'[k] # redis[k]) =>
                \/ redis[k] \in lapsed'
                \/ \E w \in Workers : /\ pc[w] = "release"
                                      /\ \E i \in DOMAIN tokens[w] : tokens[w][i] = redis[k]]_vars
    BY NextRelease
  <1> QED BY TypeCorrect, <1>1, PTL DEF Spec, OnlyOwnerReleases

(***************************************************************************)
(* Mediated action requests.                                               *)
(***************************************************************************)

Row  == [status : Mediated!Statuses, spec : Specs \cup {None}, record : Records \cup {None}]
Call == [op : Mediated!Ops \cup {"none"}, request : Requests \cup {None},
         record : Records \cup {None}]

Types ==
    /\ rows \in [Requests -> Row]
    /\ lock \in [Requests -> Sessions \cup {None}]
    /\ rpc \in [Sessions -> {"idle", "loaded", "flushed"}]
    /\ call \in [Sessions -> Call]
    /\ copy \in [Sessions -> Row]
    /\ expired \subseteq Records
    /\ changeLog \subseteq Requests
    /\ begun \subseteq Requests

\* The risk class of a spec, and what its approval record has to be, whether
\* it has expired by now or not.
Risk(s) == Mediated!RiskOf(s.action_class)

Fits(s, a) ==
    /\ a \in Records
    /\ RecordOf[a].action_class = s.action_class
    /\ s.targets \subseteq RecordOf[a].scope
    /\ Risk(s) = "RC-4" => Mediated!CheckQuorum(a)

\* A row once approved keeps a record that fits, whoever else writes it, and
\* a row of the class RC-4 had its snapshot when it was created.
Approved(q) == Risk(rows[q].spec) # "RC-1" => Fits(rows[q].spec, rows[q].record)

Begun == {"executing", "completed", "failed"}

RowInv(q) ==
    rows[q].status # "absent" =>
        /\ rows[q].spec \in Specs
        /\ Risk(rows[q].spec) = "RC-4" => rows[q].spec.snapshot_exists
        /\ rows[q].status \in {"approved"} \cup Begun => Approved(q)
        /\ rows[q].status \in Begun => q \in begun

\* What a caller has loaded was true of the row, and stays true of it: its
\* spec, its record (until an approval brings one that fits), that it is
\* approved, and that its execution has begun.
CallInv(x) ==
    rpc[x] # "idle" =>
        /\ call[x].op \in Mediated!Ops /\ call[x].request \in Requests
        /\ call[x].op = "approve" => call[x].record \in Records
        /\ copy[x].status # "absent" /\ rows[call[x].request].status # "absent"
        /\ copy[x].spec = rows[call[x].request].spec
        /\ \/ rows[call[x].request].record = copy[x].record
           \/ Fits(rows[call[x].request].spec, rows[call[x].request].record)
        /\ copy[x].status \in {"approved"} \cup Begun => Approved(call[x].request)
        /\ copy[x].status \in Begun => call[x].request \in begun
        /\ rpc[x] = "flushed" =>
               /\ copy[x].status \in Mediated!FromStatus(call[x].op)
               /\ call[x].op = "approve" => Fits(copy[x].spec, call[x].record)

RequestInv ==
    /\ Types
    /\ \A q \in Requests : RowInv(q)
    /\ \A x \in Sessions : CallInv(x)
    /\ changeLog \subseteq begun

\* With one caller at a time, what it has loaded is the row, and completed
\* requests are the ones with a trace.
SerialInv ==
    /\ \A x, y \in Sessions : rpc[x] # "idle" /\ rpc[y] # "idle" => x = y
    /\ \A x \in Sessions : rpc[x] # "idle" => copy[x] = rows[call[x].request]
    /\ \A q \in Requests : q \in changeLog <=> rows[q].status = "completed"

-----------------------------------------------------------------------------
\* The transition methods go on from, and lead to, these statuses only.
LEMMA Moves ==
    ASSUME NEW op \in Mediated!Ops
    PROVE  /\ Mediated!NewStatus(op) \in Mediated!Statuses \ {"absent", "pending"}
           /\ "absent" \notin Mediated!FromStatus(op) /\ "completed" \notin Mediated!FromStatus(op)
           /\ Mediated!NewStatus(op) = "approved" => op = "approve"
           /\ Mediated!NewStatus(op) = "completed" <=> op = "complete"
           /\ Mediated!NewStatus(op) \in Begun => op \in {"begin", "complete", "fail"}
           /\ op \in {"complete", "fail"} => Mediated!FromStatus(op) = {"executing"}
           /\ op = "begin" => Mediated!FromStatus(op) = {"approved"}
  <1> USE DEF Mediated!Statuses, Mediated!Terminal, Mediated!NewStatus, Mediated!FromStatus, Begun
  <1>1. CASE op = "approve"
    BY <1>1
  <1>2. CASE op = "begin"
    BY <1>2
  <1>3. CASE op = "complete"
    BY <1>3
  <1>4. CASE op = "fail"
    BY <1>4
  <1>5. CASE op = "revoke"
    BY <1>5
  <1>6. CASE op = "deny"
    BY <1>6
  <1> QED BY <1>1, <1>2, <1>3, <1>4, <1>5, <1>6 DEF Mediated!Ops

\* Before anything is created.
LEMMA InitRequest == Mediated!Init => RequestInv /\ SerialInv
  BY DEF Mediated!Init, Mediated!Absent, Mediated!NoCall, Mediated!Statuses, RequestInv, Types,
         Row, Call, RowInv, CallInv, SerialInv

-----------------------------------------------------------------------------
\* A row that exists keeps its spec, and an approval that fits; a new record
\* fits.
Keeps(q) ==
    rows[q].status # "absent" =>
        /\ rows'[q].status # "absent" /\ rows'[q].spec = rows[q].spec
        /\ rows'[q].record = rows[q].record \/ Fits(rows[q].spec, rows'[q].record)
        /\ Approved(q) => Approved(q)'

\* What a caller has loaded stays true when rows only get on.
LEMMA CallFrame ==
    ASSUME NEW x \in Sessions, CallInv(x),
           rpc'[x] # "idle" => rpc'[x] = rpc[x] /\ call'[x] = call[x] /\ copy'[x] = copy[x],
           \A q \in Requests : Keeps(q),
           begun \subseteq begun'
    PROVE  CallInv(x)'
  BY DEF CallInv, Keeps

\* A step that writes no row.
LEMMA RowFrame ==
    ASSUME RequestInv, UNCHANGED <<rows, changeLog, begun>>
    PROVE  /\ \A q \in Requests : RowInv(q)' /\ Keeps(q)
           /\ changeLog' \subseteq begun' /\ begun \subseteq begun'
  BY DEF RequestInv, RowInv, Keeps, Approved

\* create keeps the rows in order (policy_matrix: PolicyEnforcer.check).
LEMMA CreateStep ==
    ASSUME RequestInv, NEW q \in Requests, NEW s \in Specs, NEW a \in Records \cup {None},
           NEW e \in BOOLEAN, Mediated!Create(q, s, a, e)
    PROVE  RequestInv'
  <1> DEFINE new == [status |-> IF Mediated!RiskOf(s.action_class) = "RC-1"
                                THEN "approved" ELSE "pending",
                     spec |-> s, record |-> a]
  <1>1. Types
    BY DEF RequestInv
  <1>2. new \in Row
    BY DEF Row, Mediated!Statuses
  <1>3. /\ rows[q].status = "absent" /\ Mediated!PolicyCheck(s, a, e)
        /\ rows' = [rows EXCEPT ![q] = new]
        /\ UNCHANGED <<lock, rpc, call, copy, expired, changeLog, begun>>
    BY DEF Mediated!Create
  <1>4. /\ new.spec = s /\ new.status \in {"approved", "pending"}
        /\ new.status = "approved" <=> Risk(s) = "RC-1"
    BY DEF Risk
  <1> HIDE DEF new
  <1>5. /\ rows' \in [Requests -> Row] /\ rows'[q] = new
        /\ \A p \in Requests : p # q => rows'[p] = rows[p]
    BY <1>1, <1>2, <1>3 DEF Types
  <1>6. Types'
    BY <1>1, <1>3, <1>5 DEF Types
  <1>7. ASSUME NEW p \in Requests
        PROVE  RowInv(p)' /\ Keeps(p)
    <2>1. CASE p # q
      BY <1>3, <1>5, <2>1 DEF RequestInv, RowInv, Keeps, Approved
    <2>2. CASE p = q
      <3>1. Risk(s) = "RC-4" => s.snapshot_exists
        BY <1>3 DEF Mediated!PolicyCheck, Risk
      <3> QED BY <1>3, <1>4, <1>5, <2>2, <3>1 DEF RowInv, Keeps, Approved, Begun
    <2> QED BY <2>1, <2>2
  <1>8. \A x \in Sessions : CallInv(x)'
    BY <1>3, <1>7, CallFrame DEF RequestInv
  <1> QED BY <1>3, <1>6, <1>7, <1>8 DEF RequestInv

\* A method loads its row (_load).
LEMMA LoadStep ==
    ASSUME RequestInv, NEW x \in Sessions, NEW op \in Mediated!Ops, NEW q \in Requests,
           NEW a \in Records, Mediated!Load(x, op, q, a)
    PROVE  RequestInv'
  <1> DEFINE c == [op |-> op, request |-> q, record |-> IF op = "approve" THEN a ELSE None]
  <1>1. Types
    BY DEF RequestInv
  <1>2. /\ c \in Call /\ c.op = op /\ c.request = q
        /\ op = "approve" => c.record = a
    BY DEF Call
  <1>3. /\ rows[q].status # "absent"
        /\ rpc' = [rpc EXCEPT ![x] = "loaded"]
        /\ call' = [call EXCEPT ![x] = c]
        /\ copy' = [copy EXCEPT ![x] = rows[q]]
        /\ UNCHANGED <<rows, lock, expired, changeLog, begun>>
    BY DEF Mediated!Load
  <1> HIDE DEF c
  <1>4. /\ rpc' \in [Sessions -> {"idle", "loaded", "flushed"}]
        /\ call' \in [Sessions -> Call] /\ copy' \in [Sessions -> Row]
        /\ rpc'[x] = "loaded" /\ call'[x] = c /\ copy'[x] = rows[q]
        /\ \A y \in Sessions : y # x => rpc'[y] = rpc[y] /\ call'[y] = call[y] /\ copy'[y] = copy[y]
    BY <1>1, <1>2, <1>3 DEF Types
  <1>5. Types'
    BY <1>1, <1>3, <1>4 DEF Types
  <1>6. /\ \A p \in Requests : RowInv(p)' /\ Keeps(p)
        /\ changeLog' \subseteq begun' /\ begun \subseteq begun'
    BY <1>3, RowFrame
  <1>7. ASSUME NEW y \in Sessions
        PROVE  CallInv(y)'
    <2>1. CASE y # x
      BY <1>4, <1>6, <2>1, CallFrame DEF RequestInv
    <2>2. CASE y = x
      <3>1. RowInv(q)
        BY DEF RequestInv
      <3> QED BY <1>2, <1>3, <1>4, <2>2, <3>1 DEF RowInv, CallInv, Approved
    <2> QED BY <2>1, <2>2
  <1> QED BY <1>5, <1>6, <1>7 DEF RequestInv

\* A method refuses, or its caller rolls back or dies.
LEMMA LeaveStep ==
    ASSUME RequestInv, NEW x \in Sessions, Mediated!Refuse(x) \/ Mediated!Rollback(x)
    PROVE  RequestInv'
  <1>1. Types
    BY DEF RequestInv
  <1>2. Mediated!NoCall \in Call /\ Mediated!Absent \in Row
    BY DEF Call, Row, Mediated!NoCall, Mediated!Absent, Mediated!Statuses
  <1>3. /\ rpc' = [rpc EXCEPT ![x] = "idle"]
        /\ call' = [call EXCEPT ![x] = Mediated!NoCall]
        /\ copy' = [copy EXCEPT ![x] = Mediated!Absent]
        /\ UNCHANGED <<rows, expired, changeLog, begun>>
    BY DEF Mediated!Refuse, Mediated!Rollback
  <1>4. lock' \in [Requests -> Sessions \cup {None}]
    BY <1>1 DEF Types, Mediated!Refuse, Mediated!Rollback
  <1>5. /\ rpc' \in [Sessions -> {"idle", "loaded", "flushed"}]
        /\ call' \in [Sessions -> Call] /\ copy' \in [Sessions -> Row]
        /\ rpc'[x] = "idle"
        /\ \A y \in Sessions : y # x => rpc'[y] = rpc[y] /\ call'[y] = call[y] /\ copy'[y] = copy[y]
    BY <1>1, <1>2, <1>3 DEF Types
  <1>6. /\ \A q \in Requests : RowInv(q)' /\ Keeps(q)
        /\ changeLog' \subseteq begun' /\ begun \subseteq begun'
    BY <1>3, RowFrame
  <1>7. \A y \in Sessions : CallInv(y)'
    BY <1>5, <1>6, CallFrame DEF RequestInv
  <1>8. Types'
    BY <1>1, <1>3, <1>4, <1>5 DEF Types
  <1> QED BY <1>6, <1>7, <1>8 DEF RequestInv

\* A method succeeds on the copy it has loaded (_validate_approval_preconditions).
LEMMA FlushStep ==
    ASSUME RequestInv, NEW x \in Sessions, Mediated!Flush(x)
    PROVE  RequestInv'
  <1>1. Types /\ CallInv(x)
    BY DEF RequestInv
  <1>2. /\ rpc[x] = "loaded" /\ Mediated!Allowed(call[x], copy[x])
        /\ lock' = [lock EXCEPT ![call[x].request] = x]
        /\ rpc' = [rpc EXCEPT ![x] = "flushed"]
        /\ UNCHANGED <<rows, call, copy, expired, changeLog, begun>>
    BY DEF Mediated!Flush
  <1>3. /\ rpc' \in [Sessions -> {"idle", "loaded", "flushed"}] /\ rpc'[x] = "flushed"
        /\ lock' \in [Requests -> Sessions \cup {None}]
        /\ \A y \in Sessions : y # x => rpc'[y] = rpc[y]
    BY <1>1, <1>2 DEF Types
  <1>4. /\ \A q \in Requests : RowInv(q)' /\ Keeps(q)
        /\ changeLog' \subseteq begun' /\ begun \subseteq begun'
    BY <1>2, RowFrame
  <1>5. ASSUME NEW y \in Sessions
        PROVE  CallInv(y)'
    <2>1. CASE y # x
      BY <1>2, <1>3, <1>4, <2>1, CallFrame DEF RequestInv
    <2>2. CASE y = x
      <3>1. copy[x].status \in Mediated!FromStatus(call[x].op)
        BY <1>2 DEF Mediated!Allowed
      <3>2. call[x].op = "approve" => Fits(copy[x].spec, call[x].record)
        BY <1>1, <1>2 DEF CallInv, Mediated!Allowed, Mediated!ApprovalEligible, Fits, Risk
      <3> QED BY <1>1, <1>2, <1>3, <2>2, <3>1, <3>2 DEF CallInv, Approved
    <2> QED BY <2>1, <2>2
  <1>6. Types'
    BY <1>1, <1>2, <1>3 DEF Types
  <1> QED BY <1>4, <1>5, <1>6 DEF RequestInv

\* What a commit writes.
Written(x) ==
    [status |-> Mediated!NewStatus(call[x].op),
     spec   |-> rows[call[x].request].spec,
     record |-> IF Mediated!Attaches(call[x], copy[x])
                THEN call[x].record ELSE rows[call[x].request].record]

LEMMA CommitWrites ==
    ASSUME RequestInv, NEW x \in Sessions, Mediated!Commit(x)
    PROVE  /\ Written(x) \in Row
           /\ rows' = [rows EXCEPT ![call[x].request] = Written(x)]
  <1>1. Types /\ CallInv(x) /\ rpc[x] = "flushed"
    BY DEF RequestInv, Mediated!Commit
  <1>2. /\ call[x].op \in Mediated!Ops /\ call[x].request \in Requests
        /\ call[x].op = "approve" => call[x].record \in Records
    BY <1>1 DEF CallInv
  <1>3. PICK q \in Requests : q = call[x].request
    BY <1>2
  <1>4. PICK n \in Mediated!Statuses : n = Mediated!NewStatus(call[x].op)
    BY <1>2, Moves
  <1>5. PICK c \in Records \cup {None} :
            c = IF Mediated!Attaches(call[x], copy[x]) THEN call[x].record ELSE rows[q].record
    BY <1>1, <1>2, <1>3 DEF Types, Row, Mediated!Attaches
  <1>6. rows[q] \in Row /\ rows \in [Requests -> Row]
    BY <1>1 DEF Types
  <1>7. rows' = [rows EXCEPT ![q].status = n,
                             ![q].record = IF Mediated!Attaches(call[x], copy[x])
                                           THEN call[x].record ELSE @]
    BY <1>3, <1>4 DEF Mediated!Commit
  <1>8. rows' = [rows EXCEPT ![q] = [status |-> n, spec |-> rows[q].spec, record |-> c]]
    <2>1. PICK mid : mid = [rows EXCEPT ![q].status = n]
      OBVIOUS
    <2>2. PICK r \in Row : r = [status |-> n, spec |-> rows[q].spec, record |-> rows[q].record]
      BY <1>4, <1>6 DEF Row
    <2>3. [rows[q] EXCEPT !.status = n] = r
      BY <1>6, <2>2 DEF Row
    <2>4. mid = [rows EXCEPT ![q] = r]
      BY <1>6, <2>1, <2>3
    <2>5. rows' = [mid EXCEPT ![q].record = c]
      BY <1>5, <1>6, <1>7, <2>1, <2>2, <2>4 DEF Row
    <2>6. [r EXCEPT !.record = c] = [status |-> n, spec |-> rows[q].spec, record |-> c]
      BY <2>2 DEF Row
    <2> QED BY <1>6, <2>4, <2>5, <2>6
  <1>9. [status |-> n, spec |-> rows[q].spec, record |-> c] \in Row
    BY <1>4, <1>5, <1>6 DEF Row
  <1> QED BY <1>3, <1>4, <1>5, <1>8, <1>9 DEF Written

\* A commit writes a status that its checks, however old, allow: an approval
\* brings a record that fits, an execution was approved before.
LEMMA CommitStep ==
    ASSUME RequestInv, NEW x \in Sessions, Mediated!Commit(x)
    PROVE  RequestInv'
  <1>1. Types /\ CallInv(x) /\ rpc[x] = "flushed"
    BY DEF RequestInv, Mediated!Commit
  <1>2. /\ call[x].op \in Mediated!Ops /\ call[x].request \in Requests
        /\ call[x].op = "approve" => call[x].record \in Records
    BY <1>1 DEF CallInv
  <1>3. PICK q \in Requests : q = call[x].request
    BY <1>2
  <1>4. PICK new \in Row : new = Written(x)
    BY CommitWrites
  <1>5. /\ rows' \in [Requests -> Row] /\ rows'[q] = new
        /\ \A p \in Requests : p # q => rows'[p] = rows[p]
    BY <1>1, <1>3, <1>4, CommitWrites DEF Types
  <1>6. /\ lock' = [lock EXCEPT ![q] = None]
        /\ changeLog' = changeLog \cup Mediated!TraceRows(call[x])
        /\ begun' = IF call[x].op = "begin" THEN begun \cup {q} ELSE begun
        /\ rpc' = [rpc EXCEPT ![x] = "idle"]
        /\ call' = [call EXCEPT ![x] = Mediated!NoCall]
        /\ copy' = [copy EXCEPT ![x] = Mediated!Absent]
        /\ expired' = expired
    BY <1>3 DEF Mediated!Commit
  <1>7. /\ rpc' \in [Sessions -> {"idle", "loaded", "flushed"}]
        /\ call' \in [Sessions -> Call] /\ copy' \in [Sessions -> Row]
        /\ rpc'[x] = "idle"
        /\ \A y \in Sessions : y # x => rpc'[y] = rpc[y] /\ call'[y] = call[y] /\ copy'[y] = copy[y]
    <2>1. Mediated!NoCall \in Call /\ Mediated!Absent \in Row
      BY DEF Call, Row, Mediated!NoCall, Mediated!Absent, Mediated!Statuses
    <2> QED BY <1>1, <1>6, <2>1 DEF Types
  <1>8. Types'
    <2>1. changeLog' \subseteq Requests /\ begun' \subseteq Requests
      BY <1>1, <1>3, <1>6 DEF Types, Mediated!TraceRows
    <2> QED BY <1>1, <1>5, <1>6, <1>7, <2>1 DEF Types
  <1>9. /\ new.spec = rows[q].spec
        /\ new.status = Mediated!NewStatus(call[x].op)
        /\ new.record = IF Mediated!Attaches(call[x], copy[x])
                        THEN call[x].record ELSE rows[q].record
    BY <1>3, <1>4 DEF Written
  <1>10. /\ copy[x].status # "absent" /\ rows[q].status # "absent"
         /\ copy[x].spec = rows[q].spec
         /\ rows[q].record = copy[x].record \/ Fits(rows[q].spec, rows[q].record)
         /\ copy[x].status \in {"approved"} \cup Begun => Approved(q)
         /\ copy[x].status \in Begun => q \in begun
         /\ copy[x].status \in Mediated!FromStatus(call[x].op)
         /\ call[x].op = "approve" => Fits(rows[q].spec, call[x].record)
    BY <1>1, <1>3 DEF CallInv
  <1>11. call[x].op = "approve" => Approved(q)' /\ Fits(rows[q].spec, new.record)
    BY <1>5, <1>9, <1>10 DEF Approved, Mediated!Attaches
  <1>12. call[x].op # "approve" => /\ Approved(q) => Approved(q)'
                                   /\ new.record = rows[q].record
    BY <1>5, <1>9 DEF Approved, Mediated!Attaches
  <1>13. call[x].op \in {"complete", "fail"} => q \in begun
    BY <1>2, <1>10, Moves DEF Begun
  <1>14. new.status \in Begun => q \in begun' /\ Approved(q)
    <2>1. new.status \in Begun => call[x].op \in {"begin", "complete", "fail"}
      BY <1>2, <1>9, Moves
    <2>2. call[x].op \in {"begin", "complete", "fail"} => Approved(q)
      BY <1>2, <1>10, Moves DEF Begun
    <2> QED BY <1>6, <1>13, <2>1, <2>2
  <1>15. new.status = "approved" => call[x].op = "approve"
    BY <1>2, <1>9, Moves
  <1>16. new.status # "absent"
    BY <1>2, <1>9, Moves
  <1>17. begun \subseteq begun'
    BY <1>6
  <1>18. ASSUME NEW p \in Requests
         PROVE  RowInv(p)' /\ Keeps(p)
    <2>1. CASE p # q
      BY <1>5, <1>17, <2>1 DEF RequestInv, RowInv, Keeps, Approved
    <2>2. CASE p = q
      <3>1. RowInv(q)
        BY DEF RequestInv
      <3>2. Keeps(q)
        BY <1>5, <1>9, <1>11, <1>12, <1>16 DEF Keeps
      <3>3. new.status \in {"approved"} \cup Begun => Approved(q)'
        BY <1>11, <1>12, <1>14, <1>15
      <3> QED BY <1>5, <1>9, <1>10, <1>14, <2>2, <3>1, <3>2, <3>3 DEF RowInv
    <2> QED BY <2>1, <2>2
  <1>19. changeLog' \subseteq begun'
    BY <1>3, <1>6, <1>13, <1>17 DEF RequestInv, Mediated!TraceRows
  <1>20. \A y \in Sessions : CallInv(y)'
    BY <1>7, <1>17, <1>18, CallFrame DEF RequestInv
  <1> QED BY <1>8, <1>18, <1>19, <1>20 DEF RequestInv

\* Each step of whichever callers keeps the requests in order.
LEMMA RequestStep == RequestInv /\ [Mediated!Next]_requestVars => RequestInv'
  <1>1. ASSUME RequestInv, NEW a \in Records, Mediated!ExpireRecord(a)
        PROVE  RequestInv'
    <2>1. /\ expired' = expired \cup {a}
          /\ UNCHANGED <<rows, lock, rpc, call, copy, changeLog, begun>>
      BY <1>1 DEF Mediated!ExpireRecord
    <2>2. /\ \A q \in Requests : RowInv(q)' /\ Keeps(q)
          /\ changeLog' \subseteq begun' /\ begun \subseteq begun'
      BY <1>1, <2>1, RowFrame
    <2>3. \A y \in Sessions : CallInv(y)'
      BY <1>1, <2>1, <2>2, CallFrame DEF RequestInv
    <2>4. Types'
      BY <1>1, <2>1 DEF RequestInv, Types
    <2> QED BY <2>2, <2>3, <2>4 DEF RequestInv
  <1>2. ASSUME RequestInv, UNCHANGED requestVars
        PROVE  RequestInv'
    <2>1. UNCHANGED <<rows, lock, rpc, call, copy, expired, changeLog, begun>>
      BY <1>2 DEF requestVars
    <2>2. /\ \A q \in Requests : RowInv(q)' /\ Keeps(q)
          /\ changeLog' \subseteq begun' /\ begun \subseteq begun'
      BY <1>2, <2>1, RowFrame
    <2>3. \A y \in Sessions : CallInv(y)'
      BY <1>2, <2>1, <2>2, CallFrame DEF RequestInv
    <2>4. Types'
      BY <1>2, <2>1 DEF RequestInv, Types
    <2> QED BY <2>2, <2>3, <2>4 DEF RequestInv
  <1> QED BY <1>1, <1>2, CreateStep, LoadStep, LeaveStep, FlushStep, CommitStep DEF Mediated!Next

\* What the invariant says of the properties.
LEMMA RequestConsequences ==
    RequestInv => /\ Mediated!TypeOK /\ Mediated!ExecutionIsApproved
                  /\ Mediated!TraceMeansExecuted
  <1> SUFFICES ASSUME RequestInv
               PROVE  /\ Mediated!TypeOK /\ Mediated!ExecutionIsApproved
                      /\ Mediated!TraceMeansExecuted
    OBVIOUS
  <1>1. Mediated!TypeOK
    BY DEF RequestInv, Types, Row, Mediated!TypeOK
  <1>2. ASSUME NEW q \in Requests, rows[q].status \in Begun, Risk(rows[q].spec) # "RC-1"
        PROVE  /\ Fits(rows[q].spec, rows[q].record)
               /\ Risk(rows[q].spec) = "RC-4" => rows[q].spec.snapshot_exists
    BY <1>2 DEF RequestInv, RowInv, Approved, Begun
  <1>3. \A a \in Records : a # None
    BY RequestAssumption
  <1>4. Mediated!ExecutionIsApproved
    BY <1>2, <1>3 DEF Mediated!ExecutionIsApproved, Begun, Fits, Risk, Mediated!CheckQuorum
  <1> QED BY <1>1, <1>4 DEF RequestInv, Mediated!TraceMeansExecuted

-----------------------------------------------------------------------------
\* Whoever races: any callers, any interleaving of their transactions, any
\* approvals that expire (begin_execution, complete, fail: the copy may be old).
THEOREM RacesAreSafe ==
    Mediated!Spec => [](Mediated!ExecutionIsApproved /\ Mediated!TraceMeansExecuted)
  <1>1. Mediated!Init => RequestInv
    BY InitRequest
  <1>2. RequestInv /\ [Mediated!Next]_(Mediated!vars) => RequestInv'
    BY RequestStep DEF Mediated!vars, requestVars
  <1> QED BY <1>1, <1>2, RequestConsequences, PTL DEF Mediated!Spec

\* A step of the plans or of the requests.
LEMMA RequestPart ==
    RequestInv /\ [MCNext]_<<part, vars, requestVars>> => RequestInv'
  BY RequestStep DEF MCNext

\* What is executed was approved, in every part of the model.
THEOREM ExecutionsAreApproved == MCSpec => []ExecutionIsApproved
  <1>1. MCInit => RequestInv
    BY InitRequest DEF MCInit
  <1> QED BY <1>1, RequestPart, RequestConsequences, PTL DEF MCSpec, ExecutionIsApproved

-----------------------------------------------------------------------------
\* What a step does to the statuses: one request moves, or none.
StatusMoves(q) ==
    /\ rows'[q].status \in Lifecycle!After(rows[q].status)
    /\ \A p \in Requests : p # q => rows'[p].status = rows[p].status

\* The lifecycle allows what the methods do to a row they have loaded.
LEMMA MovesAllowed ==
    ASSUME NEW op \in Mediated!Ops, NEW s \in Mediated!FromStatus(op)
    PROVE  Mediated!NewStatus(op) \in Lifecycle!After(s)
  <1> USE DEF Mediated!NewStatus, Mediated!FromStatus, Lifecycle!After
  <1>1. CASE op \in {"approve", "deny"}
    BY <1>1
  <1>2. CASE op = "begin"
    BY <1>2
  <1>3. CASE op \in {"complete", "fail"}
    BY <1>3
  <1>4. CASE op = "revoke"
    <2>1. s = "pending" \/ s = "approved"
      BY <1>4
    <2> QED BY <1>4, <2>1
  <1> QED BY <1>1, <1>2, <1>3, <1>4 DEF Mediated!Ops

\* With one caller at a time, every step keeps what it has loaded up to date
\* and the traces complete, and moves a request along its life.
LEMMA SerialStep ==
    ASSUME RequestInv, SerialInv, Mediated!Next, OneCaller
    PROVE  /\ SerialInv'
           /\ (\A q \in Requests : rows'[q].status = rows[q].status)
                  \/ \E q \in Requests : StatusMoves(q)
  <1>0. Types /\ \A x \in Sessions : CallInv(x)
    BY DEF RequestInv
  <1>1. \A x, y \in Sessions : rpc'[x] # "idle" /\ rpc'[y] # "idle" => x = y
    BY DEF OneCaller
  <1>2. ASSUME NEW q \in Requests, NEW s \in Specs, NEW a \in Records \cup {None},
               NEW e \in BOOLEAN, Mediated!Create(q, s, a, e)
        PROVE  SerialInv' /\ StatusMoves(q)
    <2>1. /\ rows[q].status = "absent" /\ UNCHANGED <<rpc, call, copy, changeLog>>
          /\ rows'[q].status \in {"approved", "pending"}
          /\ \A p \in Requests : p # q => rows'[p] = rows[p]
      BY <1>0, <1>2 DEF Types, Mediated!Create
    <2>2. \A x \in Sessions : rpc[x] # "idle" =>
              call[x].request \in Requests /\ call[x].request # q
      BY <1>0, <2>1 DEF CallInv
    <2>3. \A x \in Sessions : rpc'[x] # "idle" => copy'[x] = rows'[call'[x].request]
      BY <2>1, <2>2 DEF SerialInv
    <2>4. \A p \in Requests : p \in changeLog' <=> rows'[p].status = "completed"
      BY <2>1 DEF SerialInv
    <2>5. StatusMoves(q)
      BY <2>1 DEF StatusMoves, Lifecycle!After
    <2> QED BY <1>1, <2>3, <2>4, <2>5 DEF SerialInv
  <1>3. ASSUME NEW a \in Records, Mediated!ExpireRecord(a)
        PROVE  SerialInv' /\ rows' = rows
    BY <1>3 DEF SerialInv, Mediated!ExpireRecord
  <1>4. ASSUME NEW x \in Sessions, NEW op \in Mediated!Ops, NEW q \in Requests,
               NEW a \in Records, Mediated!Load(x, op, q, a)
        PROVE  SerialInv' /\ rows' = rows
    <2>1. /\ UNCHANGED <<rows, changeLog>>
          /\ rpc'[x] = "loaded" /\ call'[x].request = q /\ copy'[x] = rows[q]
          /\ \A y \in Sessions :
                y # x => rpc'[y] = rpc[y] /\ call'[y] = call[y] /\ copy'[y] = copy[y]
      BY <1>0, <1>4 DEF Types, Mediated!Load
    <2> QED BY <1>1, <2>1 DEF SerialInv
  <1>5. ASSUME NEW x \in Sessions, Mediated!Refuse(x) \/ Mediated!Rollback(x)
        PROVE  SerialInv' /\ rows' = rows
    <2>1. /\ UNCHANGED <<rows, changeLog>> /\ rpc'[x] = "idle"
          /\ \A y \in Sessions :
                y # x => rpc'[y] = rpc[y] /\ call'[y] = call[y] /\ copy'[y] = copy[y]
      BY <1>0, <1>5 DEF Types, Mediated!Refuse, Mediated!Rollback
    <2> QED BY <1>1, <2>1 DEF SerialInv
  <1>6. ASSUME NEW x \in Sessions, Mediated!Flush(x)
        PROVE  SerialInv' /\ rows' = rows
    <2>1. /\ UNCHANGED <<rows, changeLog, call, copy>> /\ rpc[x] = "loaded"
          /\ \A y \in Sessions : y # x => rpc'[y] = rpc[y]
      BY <1>0, <1>6 DEF Types, Mediated!Flush
    <2> QED BY <1>1, <2>1 DEF SerialInv
  <1>7. ASSUME NEW x \in Sessions, Mediated!Commit(x)
        PROVE  SerialInv' /\ StatusMoves(call[x].request)
    <2>1. /\ rpc[x] = "flushed" /\ call[x].op \in Mediated!Ops /\ call[x].request \in Requests
          /\ copy[x].status \in Mediated!FromStatus(call[x].op)
      BY <1>0, <1>7 DEF CallInv, Mediated!Commit
    <2>2. PICK q \in Requests : q = call[x].request
      BY <2>1
    <2>3. copy[x] = rows[q]
      BY <2>1, <2>2 DEF SerialInv
    <2>4. PICK new \in Row : new = Written(x)
      BY <1>7, CommitWrites
    <2>5. /\ rows'[q] = new /\ \A p \in Requests : p # q => rows'[p] = rows[p]
      BY <1>0, <1>7, <2>2, <2>4, CommitWrites DEF Types
    <2>6. new.status = Mediated!NewStatus(call[x].op)
      BY <2>4 DEF Written
    <2>7. StatusMoves(q)
      BY <2>1, <2>3, <2>5, <2>6, MovesAllowed DEF StatusMoves
    <2>8. changeLog' = changeLog \cup (IF call[x].op = "complete" THEN {q} ELSE {})
      BY <1>7, <2>2 DEF Mediated!Commit, Mediated!TraceRows
    <2>9. rows[q].status # "completed" /\ (new.status = "completed" <=> call[x].op = "complete")
      BY <2>1, <2>3, <2>6, Moves
    <2>10. \A p \in Requests : p \in changeLog' <=> rows'[p].status = "completed"
      BY <2>5, <2>8, <2>9 DEF SerialInv
    <2>11. \A y \in Sessions : rpc'[y] = "idle"
      <3>1. \A y \in Sessions : y # x => rpc[y] = "idle"
        BY <2>1 DEF SerialInv
      <3> QED BY <1>0, <1>7, <3>1 DEF Types, Mediated!Commit
    <2> QED BY <2>2, <2>7, <2>10, <2>11 DEF SerialInv
  <1>8. \A x \in Sessions : Mediated!Commit(x) => call[x].request \in Requests
    BY <1>0 DEF CallInv, Mediated!Commit
  <1> QED BY <1>2, <1>3, <1>4, <1>5, <1>6, <1>7, <1>8 DEF Mediated!Next

\* The invariant of the parts of the model.
PartInv == RequestInv /\ (part = "serial" => SerialInv)

LEMMA PartStep == PartInv /\ [MCNext]_<<part, vars, requestVars>> => PartInv'
  <1>1. ASSUME PartInv, part = "serial", Mediated!Next, OneCaller
        PROVE  SerialInv'
    BY <1>1, SerialStep DEF PartInv
  <1>2. SerialInv /\ UNCHANGED requestVars => SerialInv'
    BY DEF SerialInv, requestVars
  <1> QED BY <1>1, <1>2, RequestPart DEF PartInv, MCNext

\* A trace is written for what was executed only, and with one caller at a
\* time for all that was completed (complete).
THEOREM TracesAreSound == MCSpec => []TraceSound
  <1>1. MCInit => PartInv
    BY InitRequest DEF MCInit, PartInv
  <1>2. PartInv => TraceSound
    BY RequestConsequences DEF PartInv, TraceSound, SerialInv, Mediated!TraceIffCompleted
  <1> QED BY <1>1, <1>2, PartStep, PTL DEF MCSpec

\* With one caller at a time, create, approve, deny, revoke, begin_execution,
\* complete and fail implement the life of a request: the initial states map
\* to its initial state, and every step to a move or to none.
THEOREM LifecycleIsImplemented == MCSpec => ImplementsLifecycle
  <1> DEFINE mapped == [q \in Requests |-> IF part = "serial" THEN rows[q].status ELSE "absent"]
  <1>1. MCInit => PartInv
    BY InitRequest DEF MCInit, PartInv
  <1>2. MCInit => Lifecycle!Init
    BY DEF MCInit, Mediated!Init, Mediated!Absent, Lifecycle!Init
  <1>3. ASSUME PartInv, [MCNext]_<<part, vars, requestVars>>
        PROVE  [Lifecycle!Next]_mapped
    <2>1. CASE part = "serial" /\ part' = part /\ Mediated!Next /\ OneCaller
      <3>1. CASE \A q \in Requests : rows'[q].status = rows[q].status
        BY <2>1, <3>1
      <3>2. ASSUME NEW q \in Requests, StatusMoves(q)
            PROVE  Lifecycle!Next
        <4>1. PICK s : s = rows'[q].status
          OBVIOUS
        <4>2. mapped' = [mapped EXCEPT ![q] = s]
          BY <2>1, <3>2, <4>1 DEF StatusMoves
        <4>3. s \in Lifecycle!After(mapped[q])
          BY <2>1, <3>2, <4>1 DEF StatusMoves
        <4> QED BY <4>2, <4>3 DEF Lifecycle!Next, Lifecycle!Move
      <3> QED BY <1>3, <2>1, <3>1, <3>2, SerialStep DEF PartInv
    <2>2. CASE part # "serial" /\ part' = part
      BY <2>2
    <2>3. CASE UNCHANGED <<part, requestVars>>
      BY <2>3 DEF requestVars
    <2> QED BY <1>3, <2>1, <2>2, <2>3 DEF MCNext
  <1> QED BY <1>1, <1>2, <1>3, PartStep, PTL DEF MCSpec, ImplementsLifecycle, Lifecycle!Spec
=============================================================================
