---------------------------- MODULE TokenBucket -----------------------------
(* motor/concurrency.py: a bucket of max_tokens permits over an asyncio        *)
(* Semaphore, with a background task that refills it.  The event loop runs one *)
(* task at a time between awaits.  The semaphore (external) counts free        *)
(* permits in sem and hands a released permit to the oldest waiter, which      *)
(* resumes later; tokens is _current_tokens, moved only when it has resumed.   *)
EXTENDS Naturals, FiniteSets, FiniteSetsExt, Sequences, SequencesExt

CONSTANTS Callers, MaxTokens, RefillRate

VARIABLES sem, tokens,
          queue,      \* waiters of the semaphore, oldest first
          woken,      \* waiters that were handed a permit and have not resumed
          holders,    \* callers between acquire() and release()
          refilling,  \* _running, with its task
          refilled    \* history: tokens the refill added, saturating at |Callers|

bucketVars == <<sem, tokens, queue, woken, holders, refilling, refilled>>

Init == /\ sem = MaxTokens /\ tokens = MaxTokens
        /\ queue = << >> /\ woken = {} /\ holders = {}
        /\ refilling = FALSE /\ refilled = 0

Saturate(n) == Min({n, Cardinality(Callers)})
\* The queue without the caller c.
Without(c) == RemoveAt(queue, CHOOSE i \in DOMAIN queue : queue[i] = c)

\* n more permits, and then as many waiters as there are permits are woken, the
\* oldest first: w, who were woken before, are at the head of the queue.
Give(n, q, w) ==
    LET awake == Cardinality(w)
        k == Min({sem + n, Len(q) - awake})
    IN /\ sem' = sem + n - k
       /\ queue' = q
       /\ woken' = w \cup {q[i] : i \in (awake + 1)..(awake + k)}

start == /\ ~refilling /\ refilling' = TRUE
         /\ UNCHANGED <<sem, tokens, queue, woken, holders, refilled>>

\* stop() cancels the refill task; it has no other effect on the bucket.
stop == /\ refilling /\ refilling' = FALSE
        /\ UNCHANGED <<sem, tokens, queue, woken, holders, refilled>>

\* acquire(): at once when a permit is free and nobody waits, else in the queue.
acquire(c) ==
    /\ c \notin holders /\ c \notin ToSet(queue)
    /\ IF sem > 0 /\ queue = << >>
       THEN /\ sem' = sem - 1 /\ tokens' = tokens - 1
            /\ holders' = holders \cup {c} /\ UNCHANGED queue
       ELSE /\ queue' = Append(queue, c) /\ UNCHANGED <<sem, tokens, holders>>
    /\ UNCHANGED <<woken, refilling, refilled>>

\* Mutant: a caller that had to wait is not counted.
resume_Uncounted(c) ==
    /\ c \in woken
    /\ holders' = holders \cup {c}
    /\ Give(0, Without(c), woken \ {c})
    /\ UNCHANGED <<tokens, refilling, refilled>>
\* The woken caller goes on after its await.
resume(c) ==
    /\ c \in woken
    /\ holders' = holders \cup {c}
    /\ tokens' = tokens - 1
    /\ Give(0, Without(c), woken \ {c})
    /\ UNCHANGED <<refilling, refilled>>

\* try_acquire_within_deadline: asyncio.timeout cancels the wait, also that of a
\* caller which already has its permit; the permit goes back to the semaphore.
give_up(c) ==
    /\ c \in ToSet(queue)
    /\ Give(IF c \in woken THEN 1 ELSE 0, Without(c), woken \ {c})
    /\ UNCHANGED <<tokens, holders, refilling, refilled>>

\* release(): dropped when the refill has already filled the bucket.
release(c) ==
    /\ c \in holders /\ holders' = holders \ {c}
    /\ IF tokens < MaxTokens THEN tokens' = tokens + 1 /\ Give(1, queue, woken)
       ELSE UNCHANGED <<tokens, sem, queue, woken>>
    /\ UNCHANGED <<refilling, refilled>>

\* Mutant: the refill tops the counter up and forgets the semaphore.
refill_CounterOnly ==
    /\ refilling
    /\ tokens' = Min({MaxTokens, tokens + RefillRate})
    /\ UNCHANGED <<sem, queue, woken, holders, refilling, refilled>>
\* One cycle of _refill_loop, up to RefillRate tokens and never past the maximum.
refill ==
    LET n == Min({RefillRate, MaxTokens - tokens}) IN
    /\ refilling
    /\ tokens' = tokens + n
    /\ refilled' = Saturate(refilled + n)
    /\ Give(n, queue, woken)
    /\ UNCHANGED <<holders, refilling>>

Next == \/ start \/ stop \/ refill
        \/ \E c \in Callers : acquire(c) \/ resume(c) \/ give_up(c) \/ release(c)

\* The loop runs what is ready, and the refill task wakes up every interval.
Fairness == WF_bucketVars(refill) /\ \A c \in Callers : WF_bucketVars(resume(c))

-----------------------------------------------------------------------------
\* The counters stay within the bucket.
TypeOK ==
    /\ sem \in 0..MaxTokens /\ tokens \in 0..MaxTokens
    /\ woken \subseteq ToSet(queue) /\ holders \subseteq Callers
    /\ refilled \in 0..Cardinality(Callers)

\* _current_tokens, which decides whether a token may be returned or refilled,
\* never drifts from the semaphore: they differ by the permits that are under
\* way to a waiter, also when that waiter times out at that very moment.
CountersAgree == tokens = sem + Cardinality(woken)

\* More than max_tokens callers hold a token only because the refill handed out
\* tokens that were still held: by exactly that many.
OvercommitIsRefill == Cardinality(holders) + tokens <= MaxTokens + refilled

\* Permits are neither lost nor made up across the two counters, waits that time
\* out while they are served, and a refill that hands out tokens still held.
TokensAreConserved == TypeOK /\ CountersAgree /\ OvercommitIsRefill

\* While the refill runs, a caller in the queue gets its token or gives up,
\* even if nobody ever releases one.
NobodyStarves(c) == (c \in ToSet(queue)) ~> (c \notin ToSet(queue) \/ ~refilling)
=============================================================================
