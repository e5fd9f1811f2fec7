---------------------- MODULE SnapshotPipeline_proofs ----------------------
(***************************************************************************)
(* Proofs about SnapshotPipeline: what the API stores of one agent and     *)
(* what the agent keeps in its buffer, for any sizes, any number of        *)
(* requests and any number of timeouts, failures and restarts.             *)
(***************************************************************************)
EXTENDS SnapshotPipeline, FiniteSetTheorems, SequenceTheorems, TLAPS

-----------------------------------------------------------------------------
(* The elements of buffers and requests that are cut, joined and taken apart. *)

\* The elements of a sequence, as sets.
LEMMA ElementSets ==
    ASSUME NEW S, NEW s \in Seq(S)
    PROVE  ToSet(s) = Range(s) /\ ToSet(s) = {s[i] : i \in 1..Len(s)}
  <1>1. ToSet(s) = Range(s)
    BY DEF ToSet, Range
  <1> QED BY <1>1, RangeEquality

\* The elements of a part of a sequence.
LEMMA PartElements ==
    ASSUME NEW S, NEW s \in Seq(S), NEW m \in 1..Len(s) + 1, NEW n \in (m - 1)..Len(s)
    PROVE  /\ SubSeq(s, m, n) \in Seq(S) /\ Len(SubSeq(s, m, n)) = n - m + 1
           /\ ToSet(SubSeq(s, m, n)) = {s[i] : i \in m..n}
  <1>1. Len(s) \in Nat /\ m \in Nat /\ n \in Int /\ m - 1 <= n /\ \A i \in m..n : s[i] \in S
    BY LenProperties, ElementOfSeq
  <1>2. PICK t : t = SubSeq(s, m, n)
    OBVIOUS
  <1>3. t \in Seq(S) /\ Len(t) = n - m + 1 /\ \A i \in 1..(n - m + 1) : t[i] = s[m + i - 1]
    BY <1>1, <1>2, SubSeqProperties
  <1>4. ToSet(t) = {t[i] : i \in 1..(n - m + 1)}
    BY <1>3, ElementSets, Zenon
  <1>5. ASSUME NEW i \in 1..(n - m + 1) PROVE t[i] \in {s[j] : j \in m..n}
    <2>1. m + i - 1 \in m..n
      BY <1>1
    <2> QED BY <1>3, <2>1
  <1>6. ASSUME NEW j \in m..n PROVE s[j] \in {t[i] : i \in 1..(n - m + 1)}
    <2>1. j - m + 1 \in 1..(n - m + 1) /\ m + (j - m + 1) - 1 = j
      BY <1>1
    <2>2. t[j - m + 1] = s[j]
      BY <1>3, <2>1
    <2> QED BY <2>1, <2>2
  <1>7. ToSet(t) = {s[i] : i \in m..n}
    BY <1>4, <1>5, <1>6
  <1> QED BY <1>2, <1>3, <1>7

\* A sequence put in front of another one.
LEMMA ConcatElements ==
    ASSUME NEW S, NEW s \in Seq(S), NEW t \in Seq(S)
    PROVE  /\ s \o t \in Seq(S) /\ Len(s \o t) = Len(s) + Len(t)
           /\ ToSet(s \o t) = ToSet(s) \cup ToSet(t)
  <1>1. PICK u : u = s \o t
    OBVIOUS
  <1>2. u \in Seq(S) /\ Len(u) = Len(s) + Len(t) /\ Range(u) = Range(s) \cup Range(t)
    BY <1>1, ConcatProperties, RangeConcatenation
  <1>3. ToSet(u) = Range(u) /\ ToSet(s) = Range(s) /\ ToSet(t) = Range(t)
    BY <1>2, ElementSets, Zenon
  <1> QED BY <1>1, <1>2, <1>3

\* An element appended.
LEMMA AppendElements ==
    ASSUME NEW S, NEW s \in Seq(S), NEW e \in S
    PROVE  /\ Append(s, e) \in Seq(S) /\ Len(Append(s, e)) = Len(s) + 1
           /\ ToSet(Append(s, e)) = ToSet(s) \cup {e}
  <1>0. /\ Append(s, e) \in Seq(S) /\ Len(Append(s, e)) = Len(s) + 1
        /\ \A i \in 1..Len(s) : Append(s, e)[i] = s[i]
    BY AppendProperties
  <1>1. Append(s, e)[Len(s) + 1] = e
    BY AppendProperties
  <1>2. PICK t : /\ t = Append(s, e) /\ t \in Seq(S) /\ Len(t) = Len(s) + 1 /\ t[Len(s) + 1] = e
                 /\ \A i \in 1..Len(s) : t[i] = s[i]
    BY <1>0, <1>1, Zenon
  <1>3. ToSet(t) = {t[i] : i \in 1..Len(t)}
    <2>1. t \in Seq(S)
      BY <1>2
    <2> QED BY <2>1, ElementSets, Zenon
  <1>4. ToSet(s) = {s[i] : i \in 1..Len(s)} /\ Len(s) \in Nat
    BY ElementSets, LenProperties, Zenon
  <1>5. ToSet(t) = ToSet(s) \cup {e}
    BY <1>2, <1>3, <1>4
  <1> QED BY <1>0, <1>2, <1>5

\* The first k elements of a sequence and the others.
LEMMA CutProperties ==
    ASSUME NEW S, NEW s \in Seq(S), NEW k \in 1..Len(s)
    PROVE  /\ SubSeq(s, 1, k) \in Seq(S) /\ SubSeq(s, k + 1, Len(s)) \in Seq(S)
           /\ Len(SubSeq(s, 1, k)) = k /\ Len(SubSeq(s, k + 1, Len(s))) = Len(s) - k
           /\ ToSet(s) = ToSet(SubSeq(s, 1, k)) \cup ToSet(SubSeq(s, k + 1, Len(s)))
  <1>1. Len(s) \in Nat /\ ToSet(s) = {s[i] : i \in 1..Len(s)}
    BY LenProperties, ElementSets, Zenon
  <1>2. /\ SubSeq(s, 1, k) \in Seq(S) /\ Len(SubSeq(s, 1, k)) = k
        /\ ToSet(SubSeq(s, 1, k)) = {s[i] : i \in 1..k}
    <2>1. 1 \in 1..Len(s) + 1 /\ k \in (1 - 1)..Len(s) /\ k - 1 + 1 = k
      BY <1>1
    <2> QED BY <2>1, PartElements
  <1>3. /\ SubSeq(s, k + 1, Len(s)) \in Seq(S) /\ Len(SubSeq(s, k + 1, Len(s))) = Len(s) - k
        /\ ToSet(SubSeq(s, k + 1, Len(s))) = {s[i] : i \in (k + 1)..Len(s)}
    <2>0. PICK m \in 1..Len(s) + 1 : m = k + 1
      BY <1>1
    <2>1. Len(s) \in (m - 1)..Len(s) /\ Len(s) - m + 1 = Len(s) - k
      BY <1>1, <2>0
    <2>2. SubSeq(s, m, Len(s)) \in Seq(S)
      BY <2>1, PartElements, Zenon
    <2>3. Len(SubSeq(s, m, Len(s))) = Len(s) - m + 1
      BY <2>1, PartElements, Zenon
    <2>4. ToSet(SubSeq(s, m, Len(s))) = {s[i] : i \in m..Len(s)}
      BY <2>1, PartElements, Zenon
    <2> QED BY <2>0, <2>1, <2>2, <2>3, <2>4, Zenon
  <1>4. {s[i] : i \in 1..Len(s)} = {s[i] : i \in 1..k} \cup {s[i] : i \in (k + 1)..Len(s)}
    BY <1>1
  <1> QED BY <1>1, <1>2, <1>3, <1>4, Zenon

\* The first element taken off.
LEMMA HeadTailElements ==
    ASSUME NEW S, NEW s \in Seq(S), s # <<>>
    PROVE  /\ Head(s) \in S /\ Tail(s) \in Seq(S)
           /\ \A x \in ToSet(s) : x = Head(s) \/ x \in ToSet(Tail(s))
  <1>1. Head(s) \in S /\ Tail(s) \in Seq(S) /\ Tail(s) = SubSeq(s, 2, Len(s))
    BY HeadTailProperties, TailIsSubSeq
  <1>2. Head(s) = s[1] /\ Len(s) \in Nat \ {0} /\ ToSet(s) = {s[i] : i \in 1..Len(s)}
    BY EmptySeq, ElementSets
  <1>3. ToSet(Tail(s)) = {s[i] : i \in 2..Len(s)}
    <2>1. PICK m \in 1..Len(s) + 1 : m = 2 /\ Len(s) \in (m - 1)..Len(s)
      BY <1>2
    <2>2. ToSet(SubSeq(s, m, Len(s))) = {s[i] : i \in m..Len(s)}
      BY <2>1, PartElements, SMT
    <2> QED BY <1>1, <2>1, <2>2, Zenon
  <1> QED BY <1>1, <1>2, <1>3

-----------------------------------------------------------------------------

SnapKinds == Kinds \cup {"heartbeat"}
Snap      == [kind : SnapKinds, hash : Hashes \cup PingHashes, at : Nat]
Stored    == [version : Nat, kind : SnapKinds, hash : Hashes \cup PingHashes, at : Nat]
Request   == [state : {"sent", "working", "done", "failed"},
              items : Seq(Snap), todo : Seq(Snap), rows : SUBSET Stored]

Types ==
    /\ requests \in Seq(Request)
    /\ buffer \in Seq(Snap)
    /\ collected \in Seq(Snap)
    /\ posts \in [Flushes -> 0..Len(requests)]
    /\ rowLock \in 0..Len(requests)
    /\ store \in SUBSET Stored

-----------------------------------------------------------------------------
\* The rows V of an agent as its transactions see them.
Has(V, s)   == \E r \in V : r.kind = s.kind /\ r.hash = s.hash
Once(V)     == \A r, q \in V : r.kind = q.kind /\ r.hash = q.hash => r = q
Numbered(V) == IsFiniteSet(V) /\ {r.version : r \in V} = 1..Cardinality(V)

MaxVersion(V) ==
    IF V = {} THEN 0 ELSE CHOOSE v \in {r.version : r \in V} : \A r \in V : r.version <= v

\* The transaction that has the row lock, and only that one, has rows of its
\* own; it has dealt with the snapshots it no longer has to do, and what it
\* sees is in order.  A request that was answered 200 is stored.
RequestInv(n) ==
    /\ requests[n].state = "working" <=> rowLock = n
    /\ requests[n].state # "working" => requests[n].rows = {}
    /\ requests[n].state = "sent" => requests[n].todo = requests[n].items
    /\ requests[n].state = "working" =>
           /\ Numbered(Visible(n)) /\ Once(Visible(n))
           /\ \A s \in ToSet(requests[n].items) :
                  s \in ToSet(requests[n].todo) \/ Has(Visible(n), s)
    /\ requests[n].state = "done" => \A s \in ToSet(requests[n].items) : Has(store, s)

\* A step that keeps the rows in order; snapshots sent stay as they are, and
\* rows stored are stored.
StoreStep ==
    /\ requests' \in Seq(Request) /\ Len(requests) <= Len(requests')
    /\ rowLock' \in 0..Len(requests') /\ store' \in SUBSET Stored
    /\ \A m \in DOMAIN requests' : RequestInv(m)'
    /\ Numbered(store') /\ Once(store')
    /\ store \subseteq store'
    /\ \A m \in DOMAIN requests :
           m \in DOMAIN requests' /\ requests'[m].items = requests[m].items

StoreInv == /\ Types
            /\ Numbered(store) /\ Once(store)
            /\ \A n \in DOMAIN requests : RequestInv(n)

-----------------------------------------------------------------------------
\* The versions of the rows an agent has are 1, 2, ...: the greatest is their
\* number (_next_snapshot_version).
LEMMA MaxVersionIsCount ==
    ASSUME NEW V, Numbered(V)
    PROVE  MaxVersion(V) = Cardinality(V) /\ Cardinality(V) \in Nat
  <1>1. Cardinality(V) \in Nat
    BY FS_CardinalityType DEF Numbered
  <1>2. CASE V = {}
    BY <1>1, <1>2, FS_EmptySet DEF MaxVersion
  <1>3. CASE V # {}
    <2> DEFINE W == {r.version : r \in V}
               c == Cardinality(V)
               Top(v) == \A r \in V : r.version <= v
    <2>1. c # 0 /\ W = 1..c
      BY <1>3, FS_EmptySet DEF Numbered
    <2>2. c \in W /\ Top(c)
      <3>1. \A r \in V : r.version \in W
        OBVIOUS
      <3> QED BY <1>1, <2>1, <3>1
    <2>3. \A v \in W : Top(v) => v = c
      <3> SUFFICES ASSUME NEW v \in W, Top(v)
                   PROVE  v = c
        OBVIOUS
      <3>1. PICK r \in V : r.version = c
        BY <2>2
      <3>2. c <= v /\ v <= c
        BY <1>1, <2>1, <3>1
      <3> QED BY <1>1, <2>1, <3>2
    <2>4. MaxVersion(V) = CHOOSE v \in W : Top(v)
      BY <1>3 DEF MaxVersion
    <2> HIDE DEF W, Top
    <2> QED BY <1>1, <2>2, <2>3, <2>4
  <1> QED BY <1>1, <1>2, <1>3

\* A snapshot that is not known yet is inserted under the next version and
\* keeps the rows in order (_insert_snapshot_safe under the row lock).
LEMMA InsertKeepsOrder ==
    ASSUME NEW V, Numbered(V), Once(V), NEW s, ~Has(V, s)
    PROVE  LET r == [version |-> 1 + MaxVersion(V), kind |-> s.kind, hash |-> s.hash, at |-> s.at]
           IN  /\ Numbered(V \cup {r})
               /\ Once(V \cup {r})
  <1> DEFINE c == Cardinality(V)
             r == [version |-> 1 + c, kind |-> s.kind, hash |-> s.hash, at |-> s.at]
  <1>1. MaxVersion(V) = c /\ c \in Nat
    BY MaxVersionIsCount
  <1>2. r \notin V
    BY DEF Has
  <1>3. IsFiniteSet(V \cup {r}) /\ Cardinality(V \cup {r}) = c + 1
    BY <1>2, FS_AddElement DEF Numbered
  <1>4. {q.version : q \in V \cup {r}} = 1..(c + 1)
    <2>1. {q.version : q \in V \cup {r}} = {q.version : q \in V} \cup {1 + c}
      BY r.version = 1 + c
    <2>2. 1..c \cup {1 + c} = 1..(c + 1)
      BY <1>1
    <2> QED BY <2>1, <2>2 DEF Numbered
  <1>5. Once(V \cup {r})
    BY r.kind = s.kind, r.hash = s.hash DEF Once, Has
  <1> QED BY <1>1, <1>3, <1>4, <1>5 DEF Numbered

-----------------------------------------------------------------------------
\* What the list of requests is after one of them changes.
LEMMA ReplaceRequest ==
    ASSUME Types, NEW n \in DOMAIN requests, NEW q \in Request,
           requests' = [requests EXCEPT ![n] = q]
    PROVE  /\ requests' \in Seq(Request)
           /\ Len(requests') = Len(requests)
           /\ DOMAIN requests' = DOMAIN requests
           /\ requests'[n] = q
           /\ \A m \in DOMAIN requests : m # n => requests'[m] = requests[m]
  <1>1. requests \in Seq(Request) /\ DOMAIN requests = 1..Len(requests)
    BY LenProperties DEF Types
  <1>2. /\ requests' \in Seq(Request)
        /\ Len(requests') = Len(requests)
        /\ \A m \in 1..Len(requests) : requests'[m] = IF m = n THEN q ELSE requests[m]
    BY <1>1, ExceptSeq
  <1>3. DOMAIN requests' = 1..Len(requests')
    BY <1>2, LenProperties
  <1> QED BY <1>1, <1>2, <1>3

\* What the list of requests is after one is sent.
LEMMA AppendRequest ==
    ASSUME Types, NEW q \in Request, requests' = Append(requests, q)
    PROVE  /\ requests' \in Seq(Request)
           /\ Len(requests') = Len(requests) + 1
           /\ Len(requests) \in Nat
           /\ DOMAIN requests' = DOMAIN requests \cup {Len(requests) + 1}
           /\ DOMAIN requests = 1..Len(requests)
           /\ requests'[Len(requests) + 1] = q
           /\ \A m \in DOMAIN requests : requests'[m] = requests[m]
  <1>1. /\ requests \in Seq(Request) /\ Len(requests) \in Nat
        /\ DOMAIN requests = 1..Len(requests)
    BY LenProperties DEF Types
  <1>2. /\ requests' \in Seq(Request)
        /\ Len(requests') = Len(requests) + 1
        /\ \A m \in 1..Len(requests) : requests'[m] = requests[m]
        /\ requests'[Len(requests) + 1] = q
    BY <1>1, AppendProperties
  <1>3. DOMAIN requests' = 1..Len(requests')
    BY <1>2, LenProperties
  <1> QED BY <1>1, <1>2, <1>3

\* A request as it is sent.
LEMMA NewRequestType ==
    ASSUME NEW s \in Seq(Snap)
    PROVE  /\ NewRequest(s) \in Request
           /\ NewRequest(s).state = "sent" /\ NewRequest(s).rows = {}
           /\ NewRequest(s).items = s /\ NewRequest(s).todo = s
  BY DEF NewRequest, Request

\* The fields of a request.
LEMMA RequestFields ==
    ASSUME Types, NEW n \in DOMAIN requests
    PROVE  /\ requests[n] \in Request
           /\ requests[n].items \in Seq(Snap) /\ requests[n].todo \in Seq(Snap)
           /\ requests[n].rows \in SUBSET Stored
           /\ requests[n].state \in {"sent", "working", "done", "failed"}
           /\ n \in Nat /\ n # 0 /\ n \in 1..Len(requests)
  <1>1. requests \in Seq(Request)
    BY DEF Types
  <1>2. DOMAIN requests = 1..Len(requests) /\ Len(requests) \in Nat
    BY <1>1, LenProperties
  <1>3. requests[n] \in Request
    BY <1>1, <1>2, ElementOfSeq
  <1> QED BY <1>2, <1>3 DEF Request

\* The batch of _flush and what stays in the buffer.
Batch(s) == SubSeq(s, 1, IF Len(s) < FlushBatch THEN Len(s) ELSE FlushBatch)
Rest(s)  == SubSeq(s, Len(Batch(s)) + 1, Len(s))

\* A batch is at most FlushBatch long, and nothing is lost between the two.
LEMMA BatchProperties ==
    ASSUME NEW s \in Seq(Snap), s # <<>>
    PROVE  /\ Batch(s) \in Seq(Snap) /\ Rest(s) \in Seq(Snap)
           /\ Len(Batch(s)) \in Nat /\ Len(Rest(s)) \in Nat /\ Len(Batch(s)) <= FlushBatch
           /\ Len(Batch(s)) + Len(Rest(s)) = Len(s)
           /\ ToSet(s) = ToSet(Batch(s)) \cup ToSet(Rest(s))
  <1>1. Len(s) \in Nat /\ Len(s) # 0 /\ FlushBatch \in Nat \ {0}
    BY LenProperties, EmptySeq, PipelineAssumption
  <1>2. PICK k \in 1..Len(s) : Batch(s) = SubSeq(s, 1, k) /\ k <= FlushBatch
    BY <1>1 DEF Batch
  <1>3. Len(Batch(s)) = k
    BY <1>2, CutProperties
  <1>4. Rest(s) = SubSeq(s, k + 1, Len(s))
    BY <1>3 DEF Rest
  <1>5. /\ Batch(s) \in Seq(Snap) /\ Rest(s) \in Seq(Snap) /\ Len(Rest(s)) = Len(s) - k
        /\ ToSet(s) = ToSet(Batch(s)) \cup ToSet(Rest(s))
    <2>1. /\ SubSeq(s, 1, k) \in Seq(Snap) /\ SubSeq(s, k + 1, Len(s)) \in Seq(Snap)
          /\ Len(SubSeq(s, k + 1, Len(s))) = Len(s) - k
          /\ ToSet(s) = ToSet(SubSeq(s, 1, k)) \cup ToSet(SubSeq(s, k + 1, Len(s)))
      BY <1>2, CutProperties, Zenon
    <2> QED BY <1>2, <1>4, <2>1, Zenon
  <1>6. k + (Len(s) - k) = Len(s) /\ Len(s) - k \in Nat /\ k \in Nat
    BY <1>1
  <1> QED BY <1>2, <1>3, <1>5, <1>6, Zenon

-----------------------------------------------------------------------------
\* _lock_agent: the transaction sees the committed rows.
LEMMA LockAgentStore ==
    ASSUME StoreInv, NEW n \in DOMAIN requests, LockAgent(n)
    PROVE  StoreStep
  <1> DEFINE q == [requests[n] EXCEPT !.state = "working"]
  <1>0. Types
    BY DEF StoreInv
  <1>1. q \in Request /\ requests' = [requests EXCEPT ![n] = q]
    BY <1>0, RequestFields DEF LockAgent, Request
  <1>2. /\ requests' \in Seq(Request) /\ Len(requests') = Len(requests)
        /\ DOMAIN requests' = DOMAIN requests /\ requests'[n] = q
        /\ \A m \in DOMAIN requests : m # n => requests'[m] = requests[m]
    BY <1>0, <1>1, ReplaceRequest
  <1>3. rowLock = 0 /\ rowLock' = n /\ store' = store /\ requests[n].state = "sent"
    BY DEF LockAgent
  <1>4. /\ q.state = "working" /\ q.items = requests[n].items /\ q.todo = requests[n].todo
        /\ q.rows = requests[n].rows
    BY <1>0, RequestFields DEF Request
  <1>5. RequestInv(n) /\ n # 0
    BY <1>0, RequestFields DEF StoreInv
  <1>6. Visible(n)' = store
    BY <1>2, <1>3, <1>4, <1>5 DEF Visible, RequestInv
  <1>7. RequestInv(n)'
    BY <1>2, <1>3, <1>4, <1>5, <1>6 DEF RequestInv, StoreInv
  <1>8. ASSUME NEW m \in DOMAIN requests, m # n
        PROVE  RequestInv(m)'
    <2>1. RequestInv(m) /\ m # 0 /\ requests'[m] = requests[m]
      BY <1>0, <1>2, <1>8, RequestFields DEF StoreInv
    <2> QED BY <1>3, <1>8, <2>1 DEF RequestInv
  <1>9. n \in 0..Len(requests) /\ Len(requests) \in Nat
    BY <1>0, RequestFields DEF Types
  <1> HIDE DEF q
  <1>10. \A m \in DOMAIN requests : requests'[m].items = requests[m].items
    BY <1>2, <1>4
  <1> QED BY <1>2, <1>3, <1>7, <1>8, <1>9, <1>10 DEF StoreInv, Types, StoreStep

\* One round of the loop: a known snapshot is in the rows the transaction
\* sees, another one is inserted there.
LEMMA StoreNextStore ==
    ASSUME StoreInv, NEW n \in DOMAIN requests, StoreNext(n)
    PROVE  StoreStep
  <1> DEFINE s == Head(requests[n].todo)
             r == [version |-> NextVersion(n), kind |-> s.kind, hash |-> s.hash, at |-> s.at]
             R == IF Known(n, s) THEN requests[n].rows ELSE requests[n].rows \cup {r}
             q == [requests[n] EXCEPT !.todo = Tail(@), !.rows = R]
  <1>0. Types /\ RequestInv(n) /\ requests[n].state = "working" /\ requests[n].todo # <<>>
    BY DEF StoreInv, StoreNext
  <1>1. /\ requests[n] \in Request /\ requests[n].todo \in Seq(Snap)
        /\ requests[n].rows \in SUBSET Stored
    BY <1>0, RequestFields
  <1>2. /\ s \in Snap /\ Tail(requests[n].todo) \in Seq(Snap)
        /\ \A x \in ToSet(requests[n].todo) : x = s \/ x \in ToSet(Tail(requests[n].todo))
    BY <1>0, <1>1, HeadTailElements
  <1>3. NextVersion(n) = 1 + MaxVersion(Visible(n))
    BY Zenon DEF NextVersion, MaxVersion
  <1>4. Numbered(Visible(n)) /\ Once(Visible(n)) /\ rowLock = n
    BY <1>0 DEF RequestInv
  <1>5. r \in Stored
    BY <1>2, <1>3, <1>4, MaxVersionIsCount DEF Stored, Snap
  <1>6. R \in SUBSET Stored
    BY <1>1, <1>5
  <1>7. requests' = [requests EXCEPT ![n] = q] /\ rowLock' = rowLock /\ store' = store
    BY <1>1 DEF StoreNext, Request
  <1> HIDE DEF R
  <1>8. /\ q \in Request /\ q.state = "working" /\ q.items = requests[n].items
        /\ q.todo = Tail(requests[n].todo) /\ q.rows = R
    BY <1>0, <1>1, <1>2, <1>6 DEF Request
  <1> HIDE DEF q
  <1>9. /\ requests' \in Seq(Request) /\ Len(requests') = Len(requests)
        /\ DOMAIN requests' = DOMAIN requests /\ requests'[n] = q
        /\ \A m \in DOMAIN requests : m # n => requests'[m] = requests[m]
    BY <1>0, <1>7, <1>8, ReplaceRequest
  <1>10. Visible(n)' = store \cup R
    BY <1>7, <1>8, <1>9 DEF Visible
  <1>11. /\ Numbered(store \cup R) /\ Once(store \cup R)
         /\ Visible(n) \subseteq store \cup R /\ Has(store \cup R, s)
    <2>1. CASE Known(n, s)
      BY <1>4, <2>1 DEF R, Visible, Known, Has
    <2>2. CASE ~Known(n, s)
      <3>1. store \cup R = Visible(n) \cup {r} /\ ~Has(Visible(n), s)
        BY <2>2 DEF R, Visible, Known, Has
      <3>2. r = [version |-> 1 + MaxVersion(Visible(n)), kind |-> s.kind,
                 hash |-> s.hash, at |-> s.at]
        BY <1>3
      <3>3. Numbered(Visible(n) \cup {r}) /\ Once(Visible(n) \cup {r})
        BY <1>4, <3>1, <3>2, InsertKeepsOrder
      <3>4. Has(Visible(n) \cup {r}, s)
        BY r.kind = s.kind, r.hash = s.hash DEF Has
      <3> QED BY <3>1, <3>3, <3>4
    <2> QED BY <2>1, <2>2
  <1>12. RequestInv(n)'
    <2>1. ASSUME NEW x \in ToSet(requests[n].items)
          PROVE  x \in ToSet(q.todo) \/ Has(store \cup R, x)
      <3>1. x \in ToSet(requests[n].todo) \/ Has(Visible(n), x)
        BY <1>0 DEF RequestInv
      <3>2. Has(Visible(n), x) => Has(store \cup R, x)
        BY <1>11 DEF Has
      <3> QED BY <1>2, <1>8, <1>11, <3>1, <3>2
    <2> QED BY <1>4, <1>7, <1>8, <1>9, <1>10, <1>11, <2>1 DEF RequestInv
  <1>13. ASSUME NEW m \in DOMAIN requests, m # n
         PROVE  RequestInv(m)'
    <2>1. RequestInv(m) /\ requests'[m] = requests[m]
      BY <1>9, <1>13 DEF StoreInv
    <2> QED BY <1>4, <1>7, <1>13, <2>1 DEF RequestInv
  <1> QED BY <1>7, <1>8, <1>9, <1>12, <1>13 DEF StoreInv, Types, StoreStep

\* COMMIT: what the transaction saw is what is stored.
LEMMA CommitRequestStore ==
    ASSUME StoreInv, NEW n \in DOMAIN requests, CommitRequest(n)
    PROVE  StoreStep
  <1> DEFINE q == [requests[n] EXCEPT !.state = "done", !.rows = {}]
  <1>0. Types /\ RequestInv(n) /\ requests[n].state = "working" /\ requests[n].todo = <<>>
    BY DEF StoreInv, CommitRequest
  <1>1. requests[n] \in Request /\ requests[n].rows \in SUBSET Stored /\ n # 0
    BY <1>0, RequestFields
  <1>2. /\ requests' = [requests EXCEPT ![n] = q]
        /\ store' = store \cup requests[n].rows /\ rowLock = n /\ rowLock' = 0
    BY <1>0, <1>1 DEF CommitRequest, Request, RequestInv
  <1>3. q \in Request /\ q.state = "done" /\ q.rows = {} /\ q.items = requests[n].items
    BY <1>1 DEF Request
  <1> HIDE DEF q
  <1>4. /\ requests' \in Seq(Request) /\ Len(requests') = Len(requests)
        /\ DOMAIN requests' = DOMAIN requests /\ requests'[n] = q
        /\ \A m \in DOMAIN requests : m # n => requests'[m] = requests[m]
    BY <1>0, <1>2, <1>3, ReplaceRequest
  <1>5. store' = Visible(n)
    BY <1>2 DEF Visible
  <1>6. Numbered(store') /\ Once(store')
    BY <1>0, <1>5 DEF RequestInv
  <1>7. ToSet(requests[n].todo) = {}
    BY <1>0 DEF ToSet
  <1>8. RequestInv(n)'
    <2>1. \A x \in ToSet(q.items) : Has(store', x)
      BY <1>0, <1>3, <1>5, <1>7 DEF RequestInv
    <2> QED BY <1>1, <1>2, <1>3, <1>4, <2>1 DEF RequestInv
  <1>9. ASSUME NEW m \in DOMAIN requests, m # n
        PROVE  RequestInv(m)'
    <2>1. RequestInv(m) /\ requests'[m] = requests[m] /\ m # 0
      BY <1>0, <1>4, <1>9, RequestFields DEF StoreInv
    <2>2. \A x : Has(store, x) => Has(store', x)
      BY <1>2 DEF Has
    <2> QED BY <1>2, <1>9, <2>1, <2>2 DEF RequestInv
  <1>10. store' \in SUBSET Stored
    BY <1>0, <1>1, <1>2 DEF Types
  <1>11. rowLock' \in 0..Len(requests')
    BY <1>2, <1>4, LenProperties
  <1>12. Len(requests') \in Nat
    BY <1>4, LenProperties
  <1> QED BY <1>2, <1>3, <1>4, <1>6, <1>8, <1>9, <1>10, <1>11, <1>12 DEF StoreStep

\* ROLLBACK: the rows of the transaction are gone, the committed ones stay.
LEMMA FailRequestStore ==
    ASSUME StoreInv, NEW n \in DOMAIN requests, FailRequest(n)
    PROVE  StoreStep
  <1> DEFINE q == [requests[n] EXCEPT !.state = "failed", !.todo = <<>>, !.rows = {}]
  <1>0. Types /\ RequestInv(n)
    BY DEF StoreInv
  <1>1. requests[n] \in Request /\ n # 0
    BY <1>0, RequestFields
  <1>2. /\ requests' = [requests EXCEPT ![n] = q] /\ store' = store
        /\ rowLock' = IF rowLock = n THEN 0 ELSE rowLock
    BY <1>1 DEF FailRequest, Request
  <1>3. q \in Request /\ q.state = "failed" /\ q.rows = {} /\ q.items = requests[n].items
    <2>1. <<>> \in Seq(Snap)
      OBVIOUS
    <2> QED BY <1>1, <2>1 DEF Request
  <1> HIDE DEF q
  <1>4. /\ requests' \in Seq(Request) /\ Len(requests') = Len(requests)
        /\ DOMAIN requests' = DOMAIN requests /\ requests'[n] = q
        /\ \A m \in DOMAIN requests : m # n => requests'[m] = requests[m]
    BY <1>0, <1>2, <1>3, ReplaceRequest
  <1>5. RequestInv(n)'
    BY <1>1, <1>2, <1>3, <1>4 DEF RequestInv
  <1>6. ASSUME NEW m \in DOMAIN requests, m # n
        PROVE  RequestInv(m)'
    <2>1. RequestInv(m) /\ requests'[m] = requests[m] /\ m # 0
      BY <1>0, <1>4, <1>6, RequestFields DEF StoreInv
    <2>2. rowLock' = m <=> rowLock = m
      BY <1>1, <1>2, <1>6, <2>1
    <2>3. Visible(m)' = Visible(m)
      BY <1>2, <2>1 DEF Visible
    <2> QED BY <1>2, <2>1, <2>2, <2>3 DEF RequestInv
  <1>7. rowLock' \in 0..Len(requests')
    BY <1>0, <1>2, <1>4 DEF Types
  <1>8. Len(requests') \in Nat
    BY <1>4, LenProperties
  <1> QED BY <1>2, <1>3, <1>4, <1>5, <1>6, <1>7, <1>8 DEF StoreInv, Types, StoreStep

\* A new request changes nothing of the others and has not begun.
LEMMA SendStore ==
    ASSUME StoreInv, NEW s \in Seq(Snap), requests' = Append(requests, NewRequest(s)),
           rowLock' = rowLock, store' = store
    PROVE  StoreStep
  <1> DEFINE q == NewRequest(s)
  <1>0. Types
    BY DEF StoreInv
  <1>n. PICK n : n = Len(requests) + 1
    OBVIOUS
  <1>1. /\ q \in Request /\ q.state = "sent" /\ q.rows = {} /\ q.todo = q.items
    BY NewRequestType
  <1> HIDE DEF q
  <1>2. /\ requests' \in Seq(Request) /\ Len(requests') = n /\ Len(requests) \in Nat
        /\ DOMAIN requests' = DOMAIN requests \cup {n} /\ requests'[n] = q
        /\ DOMAIN requests = 1..Len(requests)
        /\ \A m \in DOMAIN requests : requests'[m] = requests[m]
    BY <1>n, <1>0, <1>1, AppendRequest DEF q
  <1>3. rowLock # n /\ rowLock' \in 0..n
    BY <1>n, <1>0, <1>2 DEF Types
  <1>4. RequestInv(n)'
    BY <1>1, <1>2, <1>3 DEF RequestInv
  <1>5. ASSUME NEW m \in DOMAIN requests
        PROVE  RequestInv(m)'
    <2>1. RequestInv(m) /\ requests'[m] = requests[m]
      BY <1>2, <1>5 DEF StoreInv
    <2>2. Visible(m)' = Visible(m)
      BY <2>1 DEF Visible
    <2> QED BY <2>1, <2>2 DEF RequestInv
  <1> QED BY <1>n, <1>2, <1>3, <1>4, <1>5 DEF StoreInv, Types, StoreStep

\* What the daemon does by itself concerns neither the requests nor the rows.
LEMMA DaemonStore ==
    ASSUME StoreInv, requests' = requests, rowLock' = rowLock, store' = store
    PROVE  StoreStep
  <1>1. Len(requests) \in Nat
    BY LenProperties DEF StoreInv, Types
  <1>2. \A m \in DOMAIN requests : RequestInv(m)'
    BY DEF StoreInv, RequestInv, Visible
  <1> QED BY <1>1, <1>2 DEF StoreInv, Types, StoreStep

\* Every step keeps the rows of the agent in order.
LEMMA NextStore ==
    ASSUME StoreInv, [Next]_vars
    PROVE  StoreStep
  <1>1. ASSUME NEW f \in Flushes, Flush(f)
        PROVE  StoreStep
    <2>1. Batch(buffer) \in Seq(Snap)
      BY <1>1, BatchProperties DEF Flush, StoreInv, Types
    <2>2. /\ requests' = Append(requests, NewRequest(Batch(buffer)))
          /\ rowLock' = rowLock /\ store' = store
      BY <1>1 DEF Flush, Batch
    <2> QED BY <2>1, <2>2, SendStore
  <1>2. ASSUME NEW h \in PingHashes, Ping(h)
        PROVE  StoreStep
    <2> DEFINE s == <<[kind |-> "heartbeat", hash |-> h, at |-> 0]>>
    <2>1. [kind |-> "heartbeat", hash |-> h, at |-> 0] \in Snap
      BY DEF Snap, SnapKinds
    <2>2. s \in Seq(Snap)
      BY <2>1
    <2>3. requests' = Append(requests, NewRequest(s)) /\ rowLock' = rowLock /\ store' = store
      BY <1>2 DEF Ping
    <2> HIDE DEF s
    <2> QED BY <2>2, <2>3, SendStore
  <1>3. ASSUME NEW n \in DOMAIN requests, Api(n) \/ FailRequest(n)
        PROVE  StoreStep
    BY <1>3, LockAgentStore, StoreNextStore, CommitRequestStore, FailRequestStore DEF Api
  <1>4. CASE requests' = requests /\ rowLock' = rowLock /\ store' = store
    BY <1>4, DaemonStore
  <1>5. \/ \E f \in Flushes : Flush(f)
        \/ \E h \in PingHashes : Ping(h)
        \/ \E n \in DOMAIN requests : Api(n) \/ FailRequest(n)
        \/ requests' = requests /\ rowLock' = rowLock /\ store' = store
    BY DEF Next, vars, Collect, FlushDone, FlushFailed, FlushTimeout, Stop, End, Start
  <1> QED BY <1>1, <1>2, <1>3, <1>4, <1>5

-----------------------------------------------------------------------------
\* The snapshots of the request that flush f waits for, and their number.
Memory(f)   == IF posts[f] = 0 THEN {} ELSE ToSet(requests[posts[f]].items)
InFlight(f) == IF posts[f] = 0 THEN 0 ELSE Len(requests[posts[f]].items)

\* What buffer and batches hold together: the room of the buffer and a batch
\* for every flush that may wait.
Room == MaxBuffer + FlushBatch + (IF agent = "stopping" THEN FlushBatch ELSE 0)

\* The agent's memory: one flush waits while the agent is up, two while it
\* stops, a batch at most each; buffer and batches together are bounded; they
\* hold what was collected, and what was collected is there, gone or stored.
BufferInv ==
    /\ agent # "stopping" => posts["stop"] = 0
    /\ \A f \in Flushes : InFlight(f) <= FlushBatch
    /\ Len(buffer) + InFlight("loop") + InFlight("stop") <= Room
    /\ ToSet(buffer) \cup gone \subseteq ToSet(collected)
    /\ \A f \in Flushes : Memory(f) \subseteq ToSet(collected)
    /\ \A s \in ToSet(collected) :
           s \in ToSet(buffer) \cup gone \/ (\E f \in Flushes : s \in Memory(f)) \/ Has(store, s)

\* Memory and InFlight are about a request of the list.
LEMMA FlightTypes ==
    ASSUME Types, NEW f \in Flushes
    PROVE  /\ InFlight(f) \in Nat /\ posts[f] \in Nat
           /\ posts[f] # 0 => /\ posts[f] \in DOMAIN requests
                              /\ requests[posts[f]].items \in Seq(Snap)
  <1>1. posts[f] \in 0..Len(requests) /\ Len(requests) \in Nat
    BY LenProperties DEF Types
  <1>2. posts[f] # 0 => posts[f] \in DOMAIN requests
    BY <1>1, LenProperties DEF Types
  <1>3. posts[f] # 0 => requests[posts[f]].items \in Seq(Snap)
    BY <1>2, RequestFields
  <1> QED BY <1>1, <1>2, <1>3, LenProperties DEF InFlight

\* A flush that still waits for the same request has the same snapshots in
\* flight.
LEMMA FlightStays ==
    ASSUME Types, StoreStep, NEW f \in Flushes, posts'[f] = posts[f]
    PROVE  Memory(f)' = Memory(f) /\ InFlight(f)' = InFlight(f)
  BY FlightTypes DEF StoreStep, Memory, InFlight

\* What a step has to keep of the agent's memory.
MemoryStep ==
    /\ buffer' \in Seq(Snap) /\ collected' \in Seq(Snap)
    /\ posts' \in [Flushes -> 0..Len(requests')]
    /\ BufferInv'

\* _run_collector: a full buffer drops what it collects.
LEMMA CollectMemory ==
    ASSUME StoreInv, BufferInv, NEW k \in Kinds, NEW h \in Hashes, Collect(k, h)
    PROVE  MemoryStep
  <1> DEFINE s == [kind |-> k, hash |-> h, at |-> Len(collected) + 1]
  <1>0. Types /\ Len(buffer) \in Nat /\ Len(collected) \in Nat
    BY LenProperties DEF StoreInv, Types
  <1>1. s \in Snap
    BY <1>0 DEF Snap, SnapKinds
  <1>2. /\ agent' = agent /\ posts' = posts /\ requests' = requests
        /\ store' = store /\ rowLock' = rowLock /\ collected' = Append(collected, s)
    BY DEF Collect
  <1>3. /\ collected' \in Seq(Snap) /\ ToSet(collected') = ToSet(collected) \cup {s}
    BY <1>0, <1>1, <1>2, AppendElements DEF Types
  <1>4. \A f \in Flushes : Memory(f)' = Memory(f) /\ InFlight(f)' = InFlight(f)
    BY <1>2 DEF Memory, InFlight
  <1>5. /\ InFlight("loop") \in Nat /\ InFlight("loop") <= FlushBatch
        /\ InFlight("stop") \in Nat /\ InFlight("stop") <= FlushBatch
        /\ agent # "stopping" => InFlight("stop") = 0
        /\ MaxBuffer \in Nat /\ FlushBatch \in Nat
    BY <1>0, FlightTypes, PipelineAssumption DEF BufferInv, InFlight, Flushes
  <1>6. CASE Len(buffer) < MaxBuffer
    <2>1. buffer' = Append(buffer, s) /\ gone' = gone
      BY <1>6 DEF Collect
    <2>2. /\ buffer' \in Seq(Snap) /\ Len(buffer') = Len(buffer) + 1
          /\ ToSet(buffer') = ToSet(buffer) \cup {s}
      BY <1>0, <1>1, <2>1, AppendElements DEF Types
    <2> HIDE DEF s
    <2>3. Len(buffer') + InFlight("loop") + InFlight("stop") <= Room
      BY <1>0, <1>5, <1>6, <2>2 DEF Room
    <2> QED BY <1>0, <1>2, <1>3, <1>4, <2>1, <2>2, <2>3
            DEF BufferInv, MemoryStep, Types, Flushes, Room
  <1>7. CASE ~(Len(buffer) < MaxBuffer)
    <2>1. buffer' = buffer /\ gone' = gone \cup {s}
      BY <1>7 DEF Collect
    <2> HIDE DEF s
    <2> QED BY <1>0, <1>2, <1>3, <1>4, <2>1 DEF BufferInv, MemoryStep, Types, Flushes, Room
  <1> QED BY <1>6, <1>7

\* _flush: a batch leaves the buffer for a request.
LEMMA FlushMemory ==
    ASSUME StoreInv, BufferInv, NEW f \in Flushes, Flush(f)
    PROVE  MemoryStep
  <1>0. Types /\ StoreStep
    <2>1. [Next]_vars
      BY DEF Next
    <2> QED BY <2>1, NextStore DEF StoreInv
  <1>1. PICK b, rest : b = Batch(buffer) /\ rest = Rest(buffer)
    OBVIOUS
  <1>2. /\ b \in Seq(Snap) /\ rest \in Seq(Snap)
        /\ Len(b) \in Nat /\ Len(rest) \in Nat /\ Len(b) <= FlushBatch
        /\ Len(b) + Len(rest) = Len(buffer)
        /\ ToSet(buffer) = ToSet(b) \cup ToSet(rest)
    BY <1>0, <1>1, BatchProperties DEF Flush, Types
  <1>3. /\ buffer' = rest /\ requests' = Append(requests, NewRequest(b))
        /\ posts[f] = 0 /\ posts' = [posts EXCEPT ![f] = Len(requests) + 1]
        /\ collected' = collected /\ gone' = gone /\ agent' = agent /\ store' = store
        /\ agent = "stopping" \/ f = "loop"
    BY <1>1 DEF Flush, Batch, Rest, Runs, Flushes
  <1>4. /\ NewRequest(b) \in Request /\ NewRequest(b).items = b
    BY <1>2, NewRequestType
  <1>5. /\ Len(requests') = Len(requests) + 1 /\ Len(requests) \in Nat
        /\ requests'[Len(requests) + 1] = NewRequest(b)
    BY <1>0, <1>3, <1>4, AppendRequest
  <1>6. /\ posts'[f] = Len(requests) + 1 /\ posts'[f] # 0
        /\ posts' \in [Flushes -> 0..Len(requests')]
        /\ \A g \in Flushes : g # f => posts'[g] = posts[g]
    BY <1>0, <1>3, <1>5 DEF Types
  <1>7. /\ Memory(f) = {} /\ InFlight(f) = 0
        /\ Memory(f)' = ToSet(b) /\ InFlight(f)' = Len(b)
    BY <1>3, <1>4, <1>5, <1>6 DEF Memory, InFlight
  <1>8. \A g \in Flushes : g # f => Memory(g)' = Memory(g) /\ InFlight(g)' = InFlight(g)
    BY <1>0, <1>6, FlightStays
  <1>9. \A g \in Flushes : InFlight(g) \in Nat
    BY <1>0, FlightTypes
  <1>10. Len(buffer') + InFlight("loop")' + InFlight("stop")' <= Room
    <2>1. Len(buffer') + InFlight("loop")' + InFlight("stop")'
              = Len(buffer) + InFlight("loop") + InFlight("stop")
      <3>1. PICK g \in Flushes : g # f /\ InFlight(g)' = InFlight(g)
        BY <1>8 DEF Flushes
      <3>2. Len(rest) + InFlight(f)' + InFlight(g)' = Len(buffer) + InFlight(f) + InFlight(g)
        BY <1>2, <1>7, <1>9, <3>1
      <3>3. InFlight(f)' \in Nat /\ InFlight(g)' \in Nat
        BY <1>2, <1>7, <1>9, <3>1
      <3>4. CASE f = "loop" /\ g = "stop"
        BY <1>3, <3>2, <3>4
      <3>5. CASE f = "stop" /\ g = "loop"
        BY <1>2, <1>3, <1>9, <3>2, <3>3, <3>5
      <3> QED BY <3>1, <3>4, <3>5 DEF Flushes
    <2> QED BY <2>1 DEF BufferInv
  <1>11. agent' # "stopping" => posts'["stop"] = 0
    BY <1>3, <1>6 DEF BufferInv, Flushes
  <1>12. \A g \in Flushes : InFlight(g)' <= FlushBatch /\ Memory(g)' \subseteq ToSet(collected')
    BY <1>2, <1>3, <1>7, <1>8 DEF BufferInv
  <1>13. \A s \in ToSet(collected) :
             s \in ToSet(rest) \cup gone \/ (\E g \in Flushes : s \in Memory(g)') \/ Has(store, s)
    BY <1>2, <1>7, <1>8 DEF BufferInv
  <1>14. ToSet(rest) \cup gone \subseteq ToSet(collected)
    BY <1>2 DEF BufferInv
  <1>15. Room' = Room
    BY <1>3 DEF Room
  <1> QED BY <1>0, <1>2, <1>3, <1>6, <1>10, <1>11, <1>12, <1>13, <1>14, <1>15
          DEF BufferInv, MemoryStep, Types

\* A flush is over: the request it waited for has stored its snapshots, or
\* they are back in the buffer.
LEMMA FlushEndMemory ==
    ASSUME StoreInv, BufferInv, NEW f \in Flushes, FlushDone(f) \/ FlushFailed(f) \/ FlushTimeout(f)
    PROVE  MemoryStep
  <1>0. Types
    BY DEF StoreInv
  <1>1. /\ posts[f] # 0 /\ posts' = [posts EXCEPT ![f] = 0] /\ requests' = requests
        /\ collected' = collected /\ gone' = gone /\ agent' = agent /\ store' = store
    BY DEF FlushDone, FlushFailed, FlushTimeout, Rebuffer
  <1>2. /\ posts[f] \in DOMAIN requests /\ requests[posts[f]].items \in Seq(Snap)
        /\ Len(buffer) \in Nat /\ Len(requests[posts[f]].items) \in Nat
    BY <1>0, <1>1, FlightTypes, LenProperties DEF Types
  <1>3. /\ posts'[f] = 0 /\ posts' \in [Flushes -> 0..Len(requests')]
        /\ \A g \in Flushes : g # f => posts'[g] = posts[g]
    BY <1>0, <1>1, LenProperties DEF Types
  <1>4. /\ Memory(f) = ToSet(requests[posts[f]].items)
        /\ InFlight(f) = Len(requests[posts[f]].items)
        /\ Memory(f)' = {} /\ InFlight(f)' = 0
    BY <1>1, <1>3 DEF Memory, InFlight
  <1>5. \A g \in Flushes : g # f => Memory(g)' = Memory(g) /\ InFlight(g)' = InFlight(g)
    BY <1>1, <1>3 DEF Memory, InFlight
  <1>6. \A g \in Flushes : InFlight(g) \in Nat
    BY <1>0, FlightTypes
  <1>7. MaxBuffer \in Nat /\ FlushBatch \in Nat
    BY PipelineAssumption
  <1>8. /\ agent' # "stopping" => posts'["stop"] = 0
        /\ \A g \in Flushes : InFlight(g)' <= FlushBatch /\ Memory(g)' \subseteq ToSet(collected')
    BY <1>1, <1>3, <1>4, <1>5, <1>7 DEF BufferInv, Flushes
  <1>9. CASE FlushDone(f)
    <2>1. buffer' = buffer /\ requests[posts[f]].state = "done"
      BY <1>9 DEF FlushDone
    <2>2. \A s \in Memory(f) : Has(store, s)
      BY <1>2, <1>4, <2>1 DEF StoreInv, RequestInv
    <2>3. Len(buffer') + InFlight("loop")' + InFlight("stop")' <= Room
      BY <1>2, <1>4, <1>5, <1>6, <1>7, <2>1 DEF BufferInv, Flushes, Room
    <2>4. \A s \in ToSet(collected) :
              s \in ToSet(buffer) \cup gone \/ (\E g \in Flushes : s \in Memory(g)') \/ Has(store, s)
      BY <1>5, <2>2 DEF BufferInv
    <2> QED BY <1>0, <1>1, <1>3, <1>8, <2>1, <2>3, <2>4 DEF BufferInv, MemoryStep, Types, Room
  <1>10. CASE FlushFailed(f) \/ FlushTimeout(f)
    <2>1. buffer' = requests[posts[f]].items \o buffer
      BY <1>10 DEF FlushFailed, FlushTimeout, Rebuffer
    <2>2. /\ buffer' \in Seq(Snap)
          /\ Len(buffer') = Len(requests[posts[f]].items) + Len(buffer)
          /\ ToSet(buffer') = ToSet(requests[posts[f]].items) \cup ToSet(buffer)
      BY <1>0, <1>2, <2>1, ConcatElements DEF Types
    <2>3. Len(buffer') + InFlight("loop")' + InFlight("stop")' <= Room
      <3>1. Len(buffer') + InFlight("loop")' + InFlight("stop")'
                = Len(buffer) + InFlight("loop") + InFlight("stop")
        <4>1. PICK g \in Flushes : g # f /\ InFlight(g)' = InFlight(g) /\ InFlight(g) \in Nat
          BY <1>5, <1>6 DEF Flushes
        <4>2. Len(buffer') + InFlight(f)' = Len(buffer) + InFlight(f)
          BY <1>2, <1>4, <2>2
        <4>3. InFlight(f)' = 0 /\ Len(buffer') \in Nat /\ InFlight(f) \in Nat /\ Len(buffer) \in Nat
          BY <1>2, <1>4, <1>6, <2>2
        <4>4. (f = "loop" /\ g = "stop") \/ (f = "stop" /\ g = "loop")
          BY <4>1 DEF Flushes
        <4> QED BY <4>1, <4>2, <4>3, <4>4
      <3> QED BY <3>1 DEF BufferInv
    <2>4. \A s \in ToSet(collected) :
              s \in ToSet(buffer') \cup gone \/ (\E g \in Flushes : s \in Memory(g)') \/ Has(store, s)
      BY <1>4, <1>5, <2>2 DEF BufferInv
    <2>5. ToSet(buffer') \cup gone \subseteq ToSet(collected)
      BY <1>4, <2>2 DEF BufferInv
    <2> QED BY <1>0, <1>1, <1>3, <1>8, <2>2, <2>3, <2>4, <2>5
            DEF BufferInv, MemoryStep, Types, Room
  <1> QED BY <1>9, <1>10

\* What is in the memory of the daemon.
LEMMA MemoryIs ==
    InMemory = ToSet(buffer) \cup Memory("loop") \cup Memory("stop")
  <1> DEFINE Waiting == {ToSet(requests[posts[f]].items) : f \in {g \in Flushes : posts[g] # 0}}
  <1>1. UNION Waiting = Memory("loop") \cup Memory("stop")
    <2>1. \A s \in Memory("loop") \cup Memory("stop") : s \in UNION Waiting
      BY DEF Memory, Flushes
    <2>2. \A s \in UNION Waiting : s \in Memory("loop") \cup Memory("stop")
      BY DEF Memory, Flushes
    <2> QED BY <2>1, <2>2
  <1> QED BY <1>1 DEF InMemory

\* The end of the process takes with it what was in memory.
LEMMA EndMemory ==
    ASSUME StoreInv, BufferInv, End
    PROVE  MemoryStep
  <1>0. Types
    BY DEF StoreInv
  <1>1. /\ agent' = "down" /\ gone' = gone \cup InMemory /\ buffer' = <<>>
        /\ posts' = [f \in Flushes |-> 0] /\ collected' = collected /\ requests' = requests
        /\ store' = store
    BY DEF End
  <1>2. \A f \in Flushes : posts'[f] = 0 /\ Memory(f)' = {} /\ InFlight(f)' = 0
    BY <1>1 DEF Memory, InFlight
  <1>3. ToSet(buffer') = {} /\ Len(buffer') = 0 /\ buffer' \in Seq(Snap)
    BY <1>1 DEF ToSet
  <1>4. "stop" \in Flushes /\ "loop" \in Flushes /\ \A f \in Flushes : f \in {"loop", "stop"}
    BY DEF Flushes
  <1>5. gone' \subseteq ToSet(collected)
    BY <1>1, <1>4, MemoryIs DEF BufferInv
  <1>6. \A s \in ToSet(collected) : s \in gone' \/ Has(store, s)
    BY <1>1, <1>4, MemoryIs DEF BufferInv
  <1>7. posts' \in [Flushes -> 0..Len(requests')]
    BY <1>0, <1>1, LenProperties DEF Types
  <1>8. MaxBuffer \in Nat /\ FlushBatch \in Nat
    BY PipelineAssumption
  <1>9. Len(buffer') + InFlight("loop")' + InFlight("stop")' <= Room
    BY <1>2, <1>3, <1>4, <1>8 DEF Room
  <1> QED BY <1>0, <1>1, <1>2, <1>3, <1>4, <1>5, <1>6, <1>7, <1>8, <1>9
          DEF BufferInv, MemoryStep, Types, Room

\* What the API does, a ping, stop() and the start of a new process leave the
\* agent's memory as it is.
LEMMA OthersMemory ==
    ASSUME StoreInv, BufferInv, StoreStep,
           UNCHANGED <<buffer, posts, collected, gone>>,
           agent' # "stopping" => agent # "stopping"
    PROVE  MemoryStep
  <1>0. Types
    BY DEF StoreInv
  <1>1. \A f \in Flushes : Memory(f)' = Memory(f) /\ InFlight(f)' = InFlight(f)
    BY <1>0, FlightStays
  <1>2. posts' \in [Flushes -> 0..Len(requests')]
    <2>1. Len(requests) <= Len(requests') /\ Len(requests) \in Nat /\ Len(requests') \in Nat
      BY <1>0, LenProperties DEF StoreStep, Types
    <2> QED BY <1>0, <2>1 DEF Types
  <1>3. \A s : Has(store, s) => Has(store', s)
    BY DEF Has, StoreStep
  <1>4. InFlight("loop")' = InFlight("loop") /\ InFlight("stop")' = InFlight("stop")
    BY <1>1 DEF Flushes
  <1>5. \A n \in Int : n <= Room => n <= Room'
    BY PipelineAssumption DEF Room
  <1>6. InFlight("loop") \in Nat /\ InFlight("stop") \in Nat /\ Len(buffer) \in Nat
    BY <1>0, FlightTypes, LenProperties DEF Flushes, Types
  <1>7. Len(buffer') + InFlight("loop")' + InFlight("stop")' <= Room'
    <2>1. Len(buffer) + InFlight("loop") + InFlight("stop") \in Int
      BY <1>6
    <2>2. Len(buffer) + InFlight("loop") + InFlight("stop") <= Room'
      BY <2>1, <1>5 DEF BufferInv
    <2> QED BY <1>4, <2>2
  <1> QED BY <1>0, <1>1, <1>2, <1>3, <1>4, <1>7 DEF BufferInv, MemoryStep, Types

\* Every step keeps the agent's memory sound.
LEMMA NextMemory ==
    ASSUME StoreInv, BufferInv, [Next]_vars
    PROVE  MemoryStep
  <1>0. StoreStep
    BY NextStore
  <1>1. ASSUME NEW k \in Kinds, NEW h \in Hashes, Collect(k, h)
        PROVE  MemoryStep
    BY <1>1, CollectMemory
  <1>2. ASSUME NEW f \in Flushes, Flush(f)
        PROVE  MemoryStep
    BY <1>2, FlushMemory
  <1>3. ASSUME NEW f \in Flushes, FlushDone(f) \/ FlushFailed(f) \/ FlushTimeout(f)
        PROVE  MemoryStep
    BY <1>3, FlushEndMemory
  <1>4. CASE End
    BY <1>4, EndMemory
  <1>5. CASE UNCHANGED <<buffer, posts, collected, gone>> /\ (agent' # "stopping" => agent # "stopping")
    BY <1>0, <1>5, OthersMemory
  <1>6. \/ \E k \in Kinds, h \in Hashes : Collect(k, h)
        \/ \E f \in Flushes : Flush(f)
        \/ \E f \in Flushes : FlushDone(f) \/ FlushFailed(f) \/ FlushTimeout(f)
        \/ End
        \/ UNCHANGED <<buffer, posts, collected, gone>> /\ (agent' # "stopping" => agent # "stopping")
    BY DEF Next, vars, daemon, Ping, Stop, Start, Api, LockAgent, StoreNext, CommitRequest,
       FailRequest
  <1> QED BY <1>1, <1>2, <1>3, <1>4, <1>5, <1>6

-----------------------------------------------------------------------------
\* Both halves of the pipeline.
PipelineInv == StoreInv /\ BufferInv

\* An agent that has just started, and an empty store.
LEMMA InitPipeline == Init => PipelineInv
  <1> SUFFICES ASSUME Init
               PROVE  PipelineInv
    OBVIOUS
  <1>1. ToSet(<<>>) = {}
    BY DEF ToSet
  <1>2. Types /\ \A n \in DOMAIN requests : RequestInv(n)
    BY DEF Init, Types
  <1>3. Numbered({}) /\ Once({})
    <2>1. 1..0 = {} /\ IsFiniteSet({}) /\ Cardinality({}) = 0
      BY FS_EmptySet
    <2>2. {r.version : r \in {}} = {}
      OBVIOUS
    <2> QED BY <2>1, <2>2 DEF Numbered, Once
  <1>4. BufferInv
    <2>1. \A f \in Flushes : Memory(f) = {} /\ InFlight(f) = 0
      BY DEF Init, Memory, InFlight
    <2>2. InFlight("loop") = 0 /\ InFlight("stop") = 0 /\ "stop" \in Flushes
      BY <2>1 DEF Flushes
    <2>3. MaxBuffer \in Nat /\ FlushBatch \in Nat /\ Len(<<>>) = 0
      BY PipelineAssumption
    <2> QED BY <1>1, <2>1, <2>2, <2>3 DEF Init, BufferInv, Room
  <1> QED BY <1>2, <1>3, <1>4 DEF Init, PipelineInv, StoreInv

\* The inductive invariant of the pipeline: the row lock serialises the
\* transactions of an agent, and every snapshot is somewhere.
THEOREM PipelineInvariant == Spec => []PipelineInv
  <1>1. PipelineInv /\ [Next]_vars => PipelineInv'
    <2> SUFFICES ASSUME PipelineInv, [Next]_vars
                 PROVE  PipelineInv'
      OBVIOUS
    <2> QED BY NextStore, NextMemory DEF PipelineInv, StoreInv, StoreStep, MemoryStep, Types
  <1> QED BY InitPipeline, <1>1, PTL DEF Spec

\* However requests of one agent overlap, time out, fail and are sent again:
\* a payload is stored once per kind, under versions 1, 2, ... without a gap.
THEOREM SnapshotsAreStoredOnce == Spec => []StoredOnce
  <1>1. PipelineInv => StoredOnce
    BY DEF PipelineInv, StoreInv, Numbered, Once, StoredOnce, NoDuplicateSnapshots,
       VersionsContiguous
  <1> QED BY PipelineInvariant, <1>1, PTL

\* Where the daemon is, what it has sent last and how much has failed.
LocalTypes ==
    /\ agent \in {"up", "stopping", "down"}
    /\ left \subseteq Kinds \cup Flushes \cup {"ping"}
    /\ last \in [Kinds -> Hashes \cup {None}]
    /\ faults \in 0..MaxFaults

\* Every step keeps them in their types.
LEMMA NextLocalTypes == LocalTypes /\ [Next]_vars => LocalTypes'
  <1> SUFFICES ASSUME LocalTypes, [Next]_vars
               PROVE  LocalTypes'
    OBVIOUS
  <1>0. MaxFaults \in Nat
    BY PipelineAssumption
  <1>1. agent' \in {"up", "stopping", "down"}
    BY DEF Next, LocalTypes, vars, daemon, Collect, Flush, FlushDone, FlushFailed, FlushTimeout,
       Ping, Stop, End, Start, Api, LockAgent, StoreNext, CommitRequest, FailRequest
  <1>2. faults' \in 0..MaxFaults
    <2>1. faults' = faults \/ (faults < MaxFaults /\ faults' = faults + 1)
      BY DEF Next, vars, Collect, Flush, FlushDone, FlushFailed, FlushTimeout,
       Ping, Stop, End, Start, Api, LockAgent, StoreNext, CommitRequest, FailRequest
    <2> QED BY <1>0, <2>1 DEF LocalTypes
  <1>3. last' \in [Kinds -> Hashes \cup {None}]
    BY DEF Next, LocalTypes, vars, daemon, Collect, Flush, FlushDone, FlushFailed, FlushTimeout,
       Ping, Stop, End, Start, Api, LockAgent, StoreNext, CommitRequest, FailRequest
  <1>4. left' \subseteq Kinds \cup Flushes \cup {"ping"}
    <2>1. CASE Stop
      BY <2>1 DEF Stop, Flushes
    <2>2. CASE left' \subseteq left
      BY <2>2 DEF LocalTypes
    <2>3. Stop \/ left' \subseteq left
      BY DEF Next, vars, daemon, Collect, Flush, FlushDone, FlushFailed, FlushTimeout,
         Ping, End, Start, Api, LockAgent, StoreNext, CommitRequest, FailRequest
    <2> QED BY <2>1, <2>2, <2>3
  <1> QED BY <1>1, <1>2, <1>3, <1>4 DEF LocalTypes

\* The agent's buffer never exceeds max_buffer_size by more than one batch while
\* the daemon runs, and two while it stops, whatever the collectors of a pass
\* under way add to it; and no snapshot it has taken as reported gets lost: it is in memory,
\* stored, or was dropped with a full buffer or the process.
THEOREM BufferIsAlwaysSound == Spec => []BufferIsSound
  <1>1. Init => LocalTypes
    BY PipelineAssumption DEF Init, LocalTypes
  <1>2. PipelineInv /\ LocalTypes => BufferIsSound
    <2> SUFFICES ASSUME PipelineInv, LocalTypes
                 PROVE  BufferIsSound
      OBVIOUS
    <2>0. Types
      BY DEF PipelineInv, StoreInv
    <2>1. TypeOK
      <3>1. \A n \in DOMAIN requests : requests[n].state \in {"sent", "working", "done", "failed"}
        BY <2>0, RequestFields
      <3> QED BY <2>0, <3>1 DEF TypeOK, LocalTypes, PipelineInv, BufferInv, Types
    <2>2. BufferBounded
      <3>1. InFlight("loop") \in Nat /\ InFlight("stop") \in Nat /\ Len(buffer) \in Nat
        BY <2>0, FlightTypes, LenProperties DEF Flushes, Types
      <3>2. MaxBuffer \in Nat /\ FlushBatch \in Nat
        BY PipelineAssumption
      <3> QED BY <3>1, <3>2 DEF PipelineInv, BufferInv, BufferBounded, Room
    <2>3. NothingLost
      <3>1. \A f \in Flushes : Memory(f) \subseteq InMemory
        BY MemoryIs DEF Flushes
      <3>2. ToSet(buffer) \subseteq InMemory
        BY MemoryIs
      <3> QED BY <3>1, <3>2 DEF PipelineInv, BufferInv, NothingLost, Has
    <2> QED BY <2>1, <2>2, <2>3 DEF BufferIsSound
  <1> QED BY PipelineInvariant, <1>1, <1>2, NextLocalTypes, PTL DEF Spec
=============================================================================
