------------------------------ MODULE Reactor ------------------------------
(***************************************************************************)
(* The reactive loop (nervous/reactor.py) on the event bus                 *)
(* (nervous/event_bus.py): reactors of one consumer group read the Redis   *)
(* stream sensor:ingest, forward each event to the stream its type and     *)
(* risk class call for, remember its event_id and acknowledge the message. *)
(*                                                                         *)
(* A message id is the message's position in everything that was ever      *)
(* added to the stream.  Reactors on several hosts share the group; the    *)
(* memory of processed event ids is each reactor's own and dies with it.   *)
(***************************************************************************)
EXTENDS Integers, Sequences, SequencesExt, FiniteSets

CONSTANTS
    Reactors,
    Events,        \* event ids; a publisher may send the same one again
    TypeOf,        \* event id -> event_type
    RiskOf,        \* event id -> the class its risk_class names, or "unknown"
    Count,         \* messages per XREADGROUP
    StreamLen,     \* _MAX_STREAM_LEN
    DedupMax,      \* _DEDUP_MAX_SIZE
    MaxMessages,   \* bound on the messages added
    MaxFaults      \* bound on Redis errors, crashes, shutdowns and timeouts

ASSUME ReactorAssumption ==
    /\ TypeOf \in [Events -> {"ingest", "anomaly", "other"}]
    /\ RiskOf \in [Events -> {"RC-1", "RC-2", "RC-3", "RC-4", "unknown"}]
    /\ {Count, StreamLen, DedupMax} \subseteq Nat \ {0}
    /\ MaxMessages \in Nat
    /\ MaxFaults \in Nat

VARIABLES
    log,        \* sensor:ingest: the event of every message ever added
    trimmed,    \* the first messages, cut off by MAXLEN
    delivered,  \* last-delivered-id of reactor-group
    pel,        \* its pending entries: delivered, not acknowledged
    skipped,    \* history: messages trimmed before they were delivered
    pc,         \* reactor -> "read", "handle", "ack" or "down"
    stopping,   \* reactors with _shutdown set
    batch,      \* reactor -> messages of the last subscribe still to handle
    seen,       \* reactor -> _processed_ids, oldest first
    stale,      \* reactor -> the ids in seen older than _DEDUP_TTL_SECONDS
    sent,       \* events forwarded: the stream, the event, the reactor
    forgotten,  \* history: how often the reactor lost the event's id, or
                \* could not record it
    faults

stream == <<log, trimmed, delivered, pel, skipped>>
memory == <<seen, stale, forgotten>>
vars == <<stream, pc, stopping, batch, memory, sent, faults>>

-----------------------------------------------------------------------------
\* process_event, _handle_anomaly: where an event goes, "nowhere" when its
\* type is not known.
Target(e) ==
    CASE TypeOf[e] = "ingest"                                     -> "cortex:anomaly"
      [] TypeOf[e] = "anomaly" /\ RiskOf[e] = "RC-1"              -> "motor:action"
      [] TypeOf[e] = "anomaly" /\ RiskOf[e] \in {"RC-2", "RC-3"}  -> "immune:hitl"
      [] TypeOf[e] = "anomaly" /\ RiskOf[e] \in {"RC-4", "unknown"} -> "consciousness:alert"
      [] OTHER                                                    -> "nowhere"

Streams == {"cortex:anomaly", "motor:action", "immune:hitl", "consciousness:alert"}

\* The message, and its event, that reactor r is at.
Current(r) == Head(batch[r])
Event(r)   == log[Current(r)]

Init ==
    /\ log       = <<>>
    /\ trimmed   = 0
    /\ delivered = 0
    /\ pel       = {}
    /\ skipped   = {}
    /\ pc        = [r \in Reactors |-> "read"]
    /\ stopping  = {}
    /\ batch     = [r \in Reactors |-> <<>>]
    /\ seen      = [r \in Reactors |-> <<>>]
    /\ stale     = [r \in Reactors |-> {}]
    /\ sent      = {}
    /\ forgotten = [r \in Reactors |-> [e \in Events |-> 0]]
    /\ faults    = 0

\* publish to sensor:ingest.  MAXLEN ~ may trim the oldest messages as long
\* as StreamLen stay, read or not.
Publish(e) ==
    /\ Len(log) < MaxMessages
    /\ log' = Append(log, e)
    /\ \E t \in trimmed..Len(log) :
           /\ t = trimmed \/ Len(log') - t >= StreamLen
           /\ trimmed' = t
           /\ skipped' = skipped \cup {m \in 1..t : m > delivered}
    /\ UNCHANGED <<delivered, pel, pc, stopping, batch, memory, sent, faults>>

-----------------------------------------------------------------------------
\* What XREADGROUP ... ">" hands out next: the oldest messages that the group
\* has not got yet and that are still there, Count of them at most.
FirstUnread == 1 + IF delivered > trimmed THEN delivered ELSE trimmed

NextBatch ==
    LET unread == Len(log) - FirstUnread + 1 IN
    [i \in 1..(IF unread < Count THEN unread ELSE Count) |-> FirstUnread + i - 1]

Deliver ==
    /\ FirstUnread <= Len(log)
    /\ delivered' = Last(NextBatch)
    /\ pel' = pel \cup ToSet(NextBatch)

\* run: subscribe returns messages (with none it polls again).
Read(r) ==
    /\ pc[r] = "read"
    /\ r \notin stopping
    /\ Deliver
    /\ batch' = [batch EXCEPT ![r] = NextBatch]
    /\ pc'    = [pc EXCEPT ![r] = "handle"]
    /\ UNCHANGED <<log, trimmed, skipped, stopping, memory, sent, faults>>

\* Mutant: an error of subscribe ends the loop.
ReadError_Fatal(r) ==
    /\ pc[r] = "read"
    /\ r \notin stopping
    /\ faults < MaxFaults
    /\ faults' = faults + 1
    /\ pc' = [pc EXCEPT ![r] = "failed"]
    /\ UNCHANGED <<stream, stopping, batch, memory, sent>>

\* run: subscribe raises, before or after Redis has handed out messages; the
\* loop waits and subscribes again.
ReadError(r) ==
    /\ pc[r] = "read"
    /\ r \notin stopping
    /\ faults < MaxFaults
    /\ faults' = faults + 1
    /\ Deliver \/ UNCHANGED <<delivered, pel>>
    /\ UNCHANGED <<log, trimmed, skipped, pc, stopping, batch, memory, sent>>

-----------------------------------------------------------------------------
\* Mutant: the memory is asked for the message id, which is always new.
Remembered_ByMessage(r, e) == Current(r) \in ToSet(seen[r]) \ stale[r]

\* _is_duplicate.
Remembered(r, e) == e \in ToSet(seen[r]) \ stale[r]

\* _processed_ids without the id e.
Without(s, e) ==
    IF e \in ToSet(s) THEN RemoveAt(s, CHOOSE i \in DOMAIN s : s[i] = e) ELSE s

\* _mark_processed: e is the newest id (_is_duplicate has deleted a stale
\* one), the oldest ones go.
Marked(s, e) ==
    LET t == Append(Without(s, e), e)
    IN  SubSeq(t, IF Len(t) > DedupMax THEN Len(t) - DedupMax + 1 ELSE 1, Len(t))

\* The ids that leave the memory of r are counted as forgotten.
Remember(r, s) ==
    /\ seen'  = [seen EXCEPT ![r] = s]
    /\ stale' = [stale EXCEPT ![r] = {e \in stale[r] : e \in ToSet(s) /\ e # Event(r)}]
    /\ forgotten' = [forgotten EXCEPT ![r] =
           [e \in Events |-> IF \/ e \in ToSet(seen[r]) /\ e \notin ToSet(s)
                                \/ e = Event(r) /\ e \in stale[r]
                             THEN @[e] + 1 ELSE @[e]]]

\* The next message of the batch, or back to subscribe.
Advance(r) ==
    /\ batch' = [batch EXCEPT ![r] = Tail(@)]
    /\ pc'    = [pc EXCEPT ![r] = IF Len(batch[r]) = 1 THEN "read" ELSE "handle"]

\* _handle_event_safely: a duplicate is only acknowledged.
Duplicate(r) ==
    /\ pc[r] = "handle"
    /\ Remembered(r, Event(r))
    /\ pc' = [pc EXCEPT ![r] = "ack"]
    /\ UNCHANGED <<stream, stopping, batch, memory, sent, faults>>

\* What process_event publishes.
Forwarded(r) ==
    IF Target(Event(r)) = "nowhere" THEN {}
    ELSE {[stream |-> Target(Event(r)), event |-> Event(r), by |-> r,
           nth |-> Cardinality({f \in sent : f.by = r /\ f.event = Event(r)}) + 1]}

\* _handle_event_safely: process_event succeeds, the id is remembered.
Forward(r) ==
    /\ pc[r] = "handle"
    /\ ~Remembered(r, Event(r))
    /\ sent' = sent \cup Forwarded(r)
    /\ Remember(r, Marked(seen[r], Event(r)))
    /\ pc'   = [pc EXCEPT ![r] = "ack"]
    /\ UNCHANGED <<stream, stopping, batch, faults>>

\* Mutant: the id is remembered before the event is processed.
ForwardError_MarkedFirst(r) ==
    /\ pc[r] = "handle"
    /\ ~Remembered(r, Event(r))
    /\ Target(Event(r)) # "nowhere"
    /\ faults < MaxFaults
    /\ faults' = faults + 1
    /\ Remember(r, Marked(seen[r], Event(r)))
    /\ Advance(r)
    /\ UNCHANGED <<stream, stopping, sent>>

\* _handle_event_safely: publish raises, before or after the message is in
\* the stream: no memory, no ACK.
ForwardError(r) ==
    /\ pc[r] = "handle"
    /\ ~Remembered(r, Event(r))
    /\ Target(Event(r)) # "nowhere"
    /\ faults < MaxFaults
    /\ faults' = faults + 1
    /\ \/ /\ Remember(r, Without(seen[r], Event(r)))
          /\ UNCHANGED sent
       \/ /\ sent' = sent \cup Forwarded(r)
          /\ seen' = [seen EXCEPT ![r] = Without(@, Event(r))]
          /\ stale' = [stale EXCEPT ![r] = @ \ {Event(r)}]
          /\ forgotten' = [forgotten EXCEPT ![r][Event(r)] =
                               @ + IF Event(r) \in ToSet(seen[r]) THEN 2 ELSE 1]
    /\ Advance(r)
    /\ UNCHANGED <<stream, stopping>>

\* _safe_ack: XACK.
Ack(r) ==
    /\ pc[r] = "ack"
    /\ pel' = pel \ {Current(r)}
    /\ Advance(r)
    /\ UNCHANGED <<log, trimmed, delivered, skipped, stopping, memory, sent, faults>>

\* _safe_ack: ack raises, which is logged.
AckError(r) ==
    /\ pc[r] = "ack"
    /\ faults < MaxFaults
    /\ faults' = faults + 1
    /\ Advance(r)
    /\ UNCHANGED <<stream, stopping, memory, sent>>

-----------------------------------------------------------------------------
\* _DEDUP_TTL_SECONDS pass.
GoStale(r, e) ==
    /\ e \in ToSet(seen[r]) \ stale[r]
    /\ faults < MaxFaults
    /\ faults' = faults + 1
    /\ stale' = [stale EXCEPT ![r] = @ \cup {e}]
    /\ UNCHANGED <<stream, pc, stopping, batch, seen, forgotten, sent>>

\* request_shutdown: the batch is handled to its end first.
RequestShutdown(r) ==
    /\ pc[r] # "down"
    /\ r \notin stopping
    /\ faults < MaxFaults
    /\ faults' = faults + 1
    /\ stopping' = stopping \cup {r}
    /\ UNCHANGED <<stream, pc, batch, memory, sent>>

\* The process and its memory are gone.
Down(r) ==
    /\ pc'       = [pc EXCEPT ![r] = "down"]
    /\ stopping' = stopping \ {r}
    /\ batch'    = [batch EXCEPT ![r] = <<>>]
    /\ seen'     = [seen EXCEPT ![r] = <<>>]
    /\ stale'    = [stale EXCEPT ![r] = {}]
    /\ forgotten' = [forgotten EXCEPT ![r] =
           [e \in Events |-> IF e \in ToSet(seen[r]) THEN @[e] + 1 ELSE @[e]]]

Stop(r) ==
    /\ pc[r] = "read"
    /\ r \in stopping
    /\ Down(r)
    /\ UNCHANGED <<stream, sent, faults>>

Crash(r) ==
    /\ pc[r] # "down"
    /\ faults < MaxFaults
    /\ faults' = faults + 1
    /\ Down(r)
    /\ UNCHANGED <<stream, sent>>

\* A new process, under the same consumer name.
Start(r) ==
    /\ pc[r] = "down"
    /\ pc' = [pc EXCEPT ![r] = "read"]
    /\ UNCHANGED <<stream, stopping, batch, memory, sent, faults>>

\* run.
Run(r) ==
    \/ Read(r) \/ ReadError(r) \/ Stop(r)
    \/ Duplicate(r) \/ Forward(r) \/ ForwardError(r) \/ Ack(r) \/ AckError(r)

Next ==
    \/ \E e \in Events : Publish(e)
    \/ \E r \in Reactors : \/ Run(r) \/ Start(r) \/ Crash(r) \/ RequestShutdown(r)
                           \/ \E e \in Events : GoStale(r, e)

Spec == Init /\ [][Next]_vars

\* A reactor that is up runs; nobody has to start one or to publish.
FairSpec == Spec /\ \A r \in Reactors : WF_vars(Run(r))

-----------------------------------------------------------------------------
\* Every variable has its type; pending messages are delivered ones, and a
\* reactor at a message has one.
TypeOK ==
    /\ log \in Seq(Events)
    /\ trimmed \in 0..Len(log) /\ delivered \in 0..Len(log)
    /\ pel \subseteq 1..delivered
    /\ skipped \subseteq 1..trimmed
    /\ pc \in [Reactors -> {"read", "handle", "ack", "down"}]
    /\ stopping \subseteq Reactors
    /\ batch \in [Reactors -> Seq(1..delivered)]
    /\ \A r \in Reactors : batch[r] = <<>> <=> pc[r] \in {"read", "down"}
    /\ seen \in [Reactors -> Seq(Events)] /\ stale \in [Reactors -> SUBSET Events]
    /\ \A r \in Reactors : Len(seen[r]) <= DedupMax /\ stale[r] \subseteq ToSet(seen[r])
    /\ \A f \in sent : f.stream \in Streams /\ f.event \in Events /\ f.by \in Reactors
    /\ faults \in 0..MaxFaults

\* At least once, up to the acknowledgement: a message that was delivered and
\* is not pending any more has been forwarded -- whatever errors, duplicates,
\* crashes and restarts of several reactors came between -- unless nothing is
\* done for its type, or the stream was trimmed before it was read.
AckedIsForwarded ==
    \A m \in 1..delivered :
        \/ m \in pel
        \/ m \in skipped
        \/ Target(log[m]) = "nowhere"
        \/ \E f \in sent : f.event = log[m]

\* At most once, up to what a reactor forgets: it forwards the same event_id
\* again only after it has lost the id (time, size, restart) or could not
\* record it (an error after the XADD).
ForwardedOncePerMemory ==
    \A r \in Reactors, e \in Events :
        Cardinality({f \in sent : f.by = r /\ f.event = e}) <= 1 + forgotten[r][e]

\* The memory keeps to its size, and within it an event is forwarded once.
MemoryIsSound == TypeOK /\ ForwardedOncePerMemory

\* The loop survives its errors: a message in the stream is read, or trimmed,
\* as long as some reactor stays up.
EveryMessageIsRead ==
    \A m \in 1..MaxMessages :
        m \in DOMAIN log
            ~> (m <= delivered \/ m \in skipped \/ \A r \in Reactors : pc[r] = "down")

\* "reactor.ack.error | msg_id=%s -- will be redelivered" (nervous/reactor.py:157):
\* a message whose event was forwarded and that no reactor has in hand, but
\* that is still pending, is delivered again and leaves the pending list, as
\* long as some reactor stays up.
PendingIsRedelivered ==
    \A m \in 1..MaxMessages :
        (/\ m \in pel
         /\ \E f \in sent : f.event = log[m]
         /\ \A r \in Reactors : m \notin ToSet(batch[r]))
            ~> (m \notin pel \/ \A r \in Reactors : pc[r] = "down")
=============================================================================
