-------------------------- MODULE SnapshotPipeline --------------------------
(***************************************************************************)
(* Telemetry from one host into the CMDB: the agent's buffer and its       *)
(* flushes (collectors/agent/daemon.py) and the ingest and heartbeat       *)
(* endpoints that store snapshots (api/routers/collectors.py).             *)
(*                                                                         *)
(* The agent may give up on a request that the API is still working on and *)
(* send its snapshots again; a restarted agent enrols under the same       *)
(* agent_id while requests of its predecessor are under way.  So several   *)
(* transactions of one agent may run in the API at the same time; each     *)
(* begins with SELECT ... FOR UPDATE of the agent's row.  The status and   *)
(* heartbeat time these requests also write there are in AgentRegistry.    *)
(***************************************************************************)
EXTENDS Integers, Sequences, SequencesExt, FiniteSets

CONSTANTS
    Kinds,          \* snapshot kinds the agent collects
    Hashes,         \* payloads, by their hash
    PingHashes,     \* payloads of the heartbeat endpoint, by its own hash
    None,
    MaxBuffer,      \* max_buffer_size
    FlushBatch,     \* flush_batch_size
    MaxCollected,   \* bound on the snapshots collected
    MaxRequests,    \* bound on the requests sent
    MaxFaults       \* bound on timeouts, failures, crashes and shutdowns

ASSUME PipelineAssumption ==
    /\ None \notin Hashes
    /\ {MaxBuffer, FlushBatch} \subseteq Nat \ {0}
    /\ {MaxCollected, MaxRequests, MaxFaults} \subseteq Nat

VARIABLES
    agent,      \* the daemon: "up", "stopping" (_running is False) or "down"
    left,       \* what is still to come of the rounds under way when stop() was
                \* called: kinds, "loop", "stop" and "ping"
    last,       \* _last_hashes
    buffer,     \* _buffer
    posts,      \* "loop", "stop" -> the request that _flush awaits, 0 for none
    requests,   \* all requests sent: state, snapshots, those still to store,
                \* rows inserted and not committed
    rowLock,    \* the request that has locked the agent's row, 0 for none
    store,      \* committed rows of discovery.collector_snapshot
    collected,  \* history: snapshots collected so far, in this order
    gone,       \* history: snapshots dropped by a full buffer, or in memory
                \* when the process ended
    faults

daemon == <<agent, left, last, buffer, posts, collected, gone>>
vars == <<daemon, requests, rowLock, store, faults>>

Flushes == {"loop", "stop"}

Init ==
    /\ agent     = "up"
    /\ left      = {}
    /\ last      = [k \in Kinds |-> None]
    /\ buffer    = <<>>
    /\ posts     = [f \in Flushes |-> 0]
    /\ requests  = <<>>
    /\ rowLock   = 0
    /\ store     = {}
    /\ collected = <<>>
    /\ gone      = {}
    /\ faults    = 0

-----------------------------------------------------------------------------
\* The loops test _running between their rounds only: after stop() the pass
\* over the collectors goes on to its end, and the flush and the ping loop wake
\* up once more.
Runs(x) == agent = "up" \/ (agent = "stopping" /\ x \in left)

\* _run_collector: a payload that differs from the last one is buffered, or
\* dropped when the buffer is full.
Collect(k, h) ==
    LET s == [kind |-> k, hash |-> h, at |-> Len(collected) + 1] IN
    /\ Runs(k)
    /\ Len(collected) < MaxCollected
    /\ last[k] # h
    /\ left'      = left \ {k}
    /\ last'      = [last EXCEPT ![k] = h]
    /\ collected' = Append(collected, s)
    /\ IF Len(buffer) < MaxBuffer
       THEN buffer' = Append(buffer, s) /\ UNCHANGED gone
       ELSE gone' = gone \cup {s} /\ UNCHANGED buffer
    /\ UNCHANGED <<agent, posts, requests, rowLock, store, faults>>

NewRequest(items) == [state |-> "sent", items |-> items, todo |-> items, rows |-> {}]

\* Mutant: only a buffer of more than one batch is sent.
Flush_MoreThanBatch(f) ==
    LET batch == SubSeq(buffer, 1, IF Len(buffer) < FlushBatch THEN Len(buffer) ELSE FlushBatch)
    IN
    /\ Runs(f) /\ (f = "stop" => agent = "stopping")
    /\ posts[f] = 0
    /\ Len(buffer) > FlushBatch
    /\ Len(requests) < MaxRequests
    /\ buffer'   = SubSeq(buffer, Len(batch) + 1, Len(buffer))
    /\ requests' = Append(requests, NewRequest(batch))
    /\ posts'    = [posts EXCEPT ![f] = Len(requests) + 1]
    /\ left'     = left \ {f}
    /\ UNCHANGED <<agent, last, collected, gone, rowLock, store, faults>>

\* _flush: the first snapshots leave the buffer and are posted.  The flush
\* loop calls it when it wakes up, stop() once.
Flush(f) ==
    LET batch == SubSeq(buffer, 1, IF Len(buffer) < FlushBatch THEN Len(buffer) ELSE FlushBatch)
    IN
    /\ Runs(f) /\ (f = "stop" => agent = "stopping")
    /\ posts[f] = 0
    /\ buffer # <<>>
    /\ Len(requests) < MaxRequests
    /\ buffer'   = SubSeq(buffer, Len(batch) + 1, Len(buffer))
    /\ requests' = Append(requests, NewRequest(batch))
    /\ posts'    = [posts EXCEPT ![f] = Len(requests) + 1]
    /\ left'     = left \ {f}
    /\ UNCHANGED <<agent, last, collected, gone, rowLock, store, faults>>

\* _flush: the answer is 200.
FlushDone(f) ==
    /\ posts[f] # 0
    /\ requests[posts[f]].state = "done"
    /\ posts' = [posts EXCEPT ![f] = 0]
    /\ UNCHANGED <<agent, left, last, buffer, collected, gone, requests, rowLock, store, faults>>

\* Mutant: a batch that failed is not put back.
Rebuffer_Dropped(f) ==
    /\ buffer' = buffer
    /\ posts'  = [posts EXCEPT ![f] = 0]

\* _flush: the batch goes back to the front of the buffer.
Rebuffer(f) ==
    /\ buffer' = requests[posts[f]].items \o buffer
    /\ posts'  = [posts EXCEPT ![f] = 0]

\* _flush: the answer is an error.
FlushFailed(f) ==
    /\ posts[f] # 0
    /\ requests[posts[f]].state = "failed"
    /\ Rebuffer(f)
    /\ UNCHANGED <<agent, left, last, collected, gone, requests, rowLock, store, faults>>

\* _flush: httpx gives up, whatever has become or will become of the request.
FlushTimeout(f) ==
    /\ posts[f] # 0
    /\ faults < MaxFaults
    /\ faults' = faults + 1
    /\ Rebuffer(f)
    /\ UNCHANGED <<agent, left, last, collected, gone, requests, rowLock, store>>

\* _heartbeat_ping_loop: a POST to /heartbeat whose answer is not used.
Ping(h) ==
    /\ Runs("ping")
    /\ Len(requests) < MaxRequests
    /\ requests' = Append(requests, NewRequest(<<[kind |-> "heartbeat", hash |-> h, at |-> 0]>>))
    /\ left' = left \ {"ping"}
    /\ UNCHANGED <<agent, last, buffer, posts, collected, gone, rowLock, store, faults>>

\* stop(), called once by the handler of the signal: _running is cleared, and
\* its own flush is to come beside whatever the loops have begun.
Stop ==
    /\ agent = "up"
    /\ faults < MaxFaults
    /\ faults' = faults + 1
    /\ agent' = "stopping"
    /\ \E begun \in SUBSET (Kinds \cup {"ping"}) :
           left' = begun \cup {"stop"} \cup (IF posts["loop"] = 0 THEN {"loop"} ELSE {})
    /\ UNCHANGED <<last, buffer, posts, collected, gone, requests, rowLock, store>>

\* The snapshots in the memory of the daemon.
InMemory ==
    ToSet(buffer) \cup
    UNION {ToSet(requests[posts[f]].items) : f \in {g \in Flushes : posts[g] # 0}}

\* The process ends: it has stopped, with or without its last flush, or it
\* crashes.
End ==
    /\ \/ agent = "stopping" /\ UNCHANGED faults
       \/ agent = "up" /\ faults < MaxFaults /\ faults' = faults + 1
    /\ agent'  = "down"
    /\ left'   = {}
    /\ gone'   = gone \cup InMemory
    /\ buffer' = <<>>
    /\ posts'  = [f \in Flushes |-> 0]
    /\ last'   = [k \in Kinds |-> None]
    /\ UNCHANGED <<collected, requests, rowLock, store>>

\* A new process enrols the same host and gets the same agent_id.
Start ==
    /\ agent = "down"
    /\ agent' = "up"
    /\ UNCHANGED <<left, last, buffer, posts, collected, gone, requests, rowLock, store, faults>>

-----------------------------------------------------------------------------
\* ingest_snapshots, heartbeat: _lock_agent.
LockAgent(n) ==
    /\ requests[n].state = "sent"
    /\ rowLock = 0
    /\ rowLock'  = n
    /\ requests' = [requests EXCEPT ![n].state = "working"]
    /\ UNCHANGED <<daemon, store, faults>>

\* What the transaction of request n sees: committed rows and its own.
Visible(n) == store \cup requests[n].rows

\* Mutant: duplicates are looked for in the request only.
Known_InRequest(n, s) == \E r \in requests[n].rows : r.kind = s.kind /\ r.hash = s.hash

\* A snapshot of the agent with this kind and hash is stored already.
Known(n, s) == \E r \in Visible(n) : r.kind = s.kind /\ r.hash = s.hash

\* _next_snapshot_version: MAX(snapshot_version) + 1.
NextVersion(n) ==
    1 + (IF Visible(n) = {} THEN 0
         ELSE CHOOSE v \in {r.version : r \in Visible(n)} :
                  \A r \in Visible(n) : r.version <= v)

\* One round of the loop over body.snapshots: a known payload is counted as
\* deduplicated, a new one inserted (_insert_snapshot_safe; under the row lock
\* no other transaction can take the version).
StoreNext(n) ==
    /\ requests[n].state = "working"
    /\ requests[n].todo # <<>>
    /\ LET s == Head(requests[n].todo) IN
       requests' = [requests EXCEPT
           ![n].todo = Tail(@),
           ![n].rows = IF Known(n, s) THEN @
                       ELSE @ \cup {[version |-> NextVersion(n), kind |-> s.kind,
                                     hash |-> s.hash, at |-> s.at]}]
    /\ UNCHANGED <<daemon, rowLock, store, faults>>

\* COMMIT and the answer 200.
CommitRequest(n) ==
    /\ requests[n].state = "working"
    /\ requests[n].todo = <<>>
    /\ store'    = store \cup requests[n].rows
    /\ requests' = [requests EXCEPT ![n].state = "done", ![n].rows = {}]
    /\ rowLock'  = IF rowLock = n THEN 0 ELSE rowLock
    /\ UNCHANGED <<daemon, faults>>

\* The request never arrives, or is answered by an error and rolled back.
FailRequest(n) ==
    /\ requests[n].state \in {"sent", "working"}
    /\ faults < MaxFaults
    /\ faults' = faults + 1
    /\ requests' = [requests EXCEPT ![n].state = "failed", ![n].todo = <<>>, ![n].rows = {}]
    /\ rowLock'  = IF rowLock = n THEN 0 ELSE rowLock
    /\ UNCHANGED <<daemon, store>>

Api(n) == LockAgent(n) \/ StoreNext(n) \/ CommitRequest(n)

Next ==
    \/ \E k \in Kinds, h \in Hashes : Collect(k, h)
    \/ \E f \in Flushes : Flush(f) \/ FlushDone(f) \/ FlushFailed(f) \/ FlushTimeout(f)
    \/ \E h \in PingHashes : Ping(h)
    \/ Stop \/ End \/ Start
    \/ \E n \in DOMAIN requests : Api(n) \/ FailRequest(n)

Spec == Init /\ [][Next]_vars

\* The flush loop keeps flushing and an API worker finishes what it has begun;
\* nothing has to be collected, stopped or started again.
FairSpec ==
    /\ Spec
    /\ WF_vars(Flush("loop"))
    /\ WF_vars(FlushDone("loop") \/ FlushFailed("loop"))
    /\ \A n \in 1..MaxRequests : WF_vars(n \in DOMAIN requests /\ Api(n))

-----------------------------------------------------------------------------
\* Every variable has its type.
TypeOK ==
    /\ agent \in {"up", "stopping", "down"}
    /\ left \subseteq Kinds \cup Flushes \cup {"ping"}
    /\ last \in [Kinds -> Hashes \cup {None}]
    /\ posts \in [Flushes -> 0..Len(requests)]
    /\ \A n \in DOMAIN requests :
           requests[n].state \in {"sent", "working", "done", "failed"}
    /\ rowLock \in 0..Len(requests)
    /\ ToSet(buffer) \cup gone \subseteq ToSet(collected)
    /\ faults \in 0..MaxFaults

\* However often a batch is sent again, and whatever transactions of the agent
\* run at the same time, a payload is stored once per kind.
NoDuplicateSnapshots ==
    \A r, q \in store : r.kind = q.kind /\ r.hash = q.hash => r = q

\* The versions of an agent's snapshots are 1, 2, ... without a gap or a
\* collision (uq_agent_snapshot_version never fires).
VersionsContiguous ==
    {r.version : r \in store} = 1..Cardinality(store)

\* Nothing the agent has taken as reported (_last_hashes) gets lost on the
\* way: a collected payload is buffered, in a request _flush still waits for,
\* stored, or was dropped by a full buffer or the end of the process.
NothingLost ==
    \A s \in ToSet(collected) :
        \/ s \in InMemory \cup gone
        \/ \E r \in store : r.kind = s.kind /\ r.hash = s.hash

\* Batches that come back may push the buffer over max_buffer_size: by one
\* batch, that of the flush loop, while the daemon runs, and by that of stop()
\* as well while it stops, for the collectors of a pass under way go on filling
\* the room that both batches have left.
BufferBounded ==
    Len(buffer) <= MaxBuffer + FlushBatch + (IF agent = "stopping" THEN FlushBatch ELSE 0)

\* The store: a payload once per kind, under versions without a gap.
StoredOnce == NoDuplicateSnapshots /\ VersionsContiguous

\* The agent's memory: bounded, and nothing leaves it but for the store.
BufferIsSound == TypeOK /\ BufferBounded /\ NothingLost

\* As long as the agent stays up and requests are not used up, everything in
\* its buffer is stored in the end.
EventuallyStored ==
    \A i \in 1..MaxCollected :
        i \in DOMAIN collected
            ~> \/ /\ i \in DOMAIN collected
                  /\ \/ collected[i] \in gone
                     \/ \E r \in store : /\ r.kind = collected[i].kind
                                         /\ r.hash = collected[i].hash
               \/ agent # "up"
               \/ Len(requests) = MaxRequests
=============================================================================
