--------------------------- MODULE Reactor_proofs ---------------------------
(***************************************************************************)
(* Proofs about Reactor: what is acknowledged was forwarded, and what a    *)
(* reactor remembers it forwards once, for any number of reactors, events  *)
(* and messages and any sizes of batch, stream and memory.                 *)
(***************************************************************************)
EXTENDS Reactor, FiniteSetTheorems, SequenceTheorems, TLAPS

-----------------------------------------------------------------------------
(* The elements of batches and memories.                                   *)

\* The elements of a sequence, as sets.
LEMMA ElementSets ==
    ASSUME NEW S, NEW s \in Seq(S)
    PROVE  ToSet(s) = Range(s) /\ ToSet(s) = {s[i] : i \in 1..Len(s)}
  <1>1. ToSet(s) = Range(s)
    BY DEF ToSet, Range
  <1> QED BY <1>1, RangeEquality

\* The elements of a sequence.
LEMMA Elements ==
    ASSUME NEW S, NEW s \in Seq(S)
    PROVE  /\ \A i \in 1..Len(s) : s[i] \in ToSet(s)
           /\ \A x \in ToSet(s) : x \in S /\ \E i \in 1..Len(s) : s[i] = x
  <1>1. ToSet(s) = {s[i] : i \in 1..Len(s)} /\ \A i \in 1..Len(s) : s[i] \in S
    BY ElementSets, ElementOfSeq
  <1> QED BY <1>1

\* The elements of a part of a sequence.
LEMMA PartElements ==
    ASSUME NEW S, NEW s \in Seq(S), NEW m \in 1..Len(s) + 1, NEW n \in (m - 1)..Len(s)
    PROVE  /\ SubSeq(s, m, n) \in Seq(S) /\ Len(SubSeq(s, m, n)) = n - m + 1
           /\ ToSet(SubSeq(s, m, n)) = {s[i] : i \in m..n}
  <1>1. Len(s) \in Nat /\ m \in Nat /\ n \in Int /\ m - 1 <= n /\ \A i \in m..n : s[i] \in S
    BY LenProperties, ElementOfSeq
  <1>2. PICK t : t = SubSeq(s, m, n)
    OBVIOUS
  <1>3. t \in Seq(S) /\ Len(t) = n - m + 1 /\ \A i \in 1..(n - m + 1) : t[i] = s[m + i - 1]
    BY <1>1, <1>2, SubSeqProperties
  <1>4. ToSet(t) = {t[i] : i \in 1..(n - m + 1)}
    BY <1>3, ElementSets, Zenon
  <1>5. ASSUME NEW i \in 1..(n - m + 1) PROVE t[i] \in {s[j] : j \in m..n}
    <2>1. m + i - 1 \in m..n
      BY <1>1
    <2> QED BY <1>3, <2>1
  <1>6. ASSUME NEW j \in m..n PROVE s[j] \in {t[i] : i \in 1..(n - m + 1)}
    <2>1. j - m + 1 \in 1..(n - m + 1) /\ m + (j - m + 1) - 1 = j
      BY <1>1
    <2>2. t[j - m + 1] = s[j]
      BY <1>3, <2>1
    <2> QED BY <2>1, <2>2
  <1>7. ToSet(t) = {s[i] : i \in m..n}
    BY <1>4, <1>5, <1>6
  <1> QED BY <1>2, <1>3, <1>7

\* An element appended.
LEMMA AppendElements ==
    ASSUME NEW S, NEW s \in Seq(S), NEW e \in S
    PROVE  /\ Append(s, e) \in Seq(S) /\ Len(Append(s, e)) = Len(s) + 1
           /\ ToSet(Append(s, e)) = ToSet(s) \cup {e}
  <1>0. /\ Append(s, e) \in Seq(S) /\ Len(Append(s, e)) = Len(s) + 1
        /\ \A i \in 1..Len(s) : Append(s, e)[i] = s[i]
    BY AppendProperties
  <1>1. Append(s, e)[Len(s) + 1] = e
    BY AppendProperties
  <1>2. PICK t : /\ t = Append(s, e) /\ t \in Seq(S) /\ Len(t) = Len(s) + 1 /\ t[Len(s) + 1] = e
                 /\ \A i \in 1..Len(s) : t[i] = s[i]
    BY <1>0, <1>1, Zenon
  <1>3. ToSet(t) = {t[i] : i \in 1..Len(t)}
    <2>1. t \in Seq(S)
      BY <1>2
    <2> QED BY <2>1, ElementSets, Zenon
  <1>4. ToSet(s) = {s[i] : i \in 1..Len(s)} /\ Len(s) \in Nat
    BY ElementSets, LenProperties, Zenon
  <1>5. ToSet(t) = ToSet(s) \cup {e}
    BY <1>2, <1>3, <1>4
  <1> QED BY <1>0, <1>2, <1>5

\* A suffix of a sequence has elements of the sequence only, and its last one.
LEMMA SuffixElements ==
    ASSUME NEW S, NEW s \in Seq(S), NEW k \in 1..Len(s)
    PROVE  /\ SubSeq(s, k, Len(s)) \in Seq(S)
           /\ Len(SubSeq(s, k, Len(s))) = Len(s) - k + 1
           /\ s[Len(s)] \in ToSet(SubSeq(s, k, Len(s)))
           /\ ToSet(SubSeq(s, k, Len(s))) \subseteq ToSet(s)
  <1>1. Len(s) \in Nat /\ ToSet(s) = {s[i] : i \in 1..Len(s)}
    BY LenProperties, ElementSets, Zenon
  <1>2. k \in 1..Len(s) + 1 /\ Len(s) \in (k - 1)..Len(s) /\ Len(s) \in k..Len(s) /\ k..Len(s) \subseteq 1..Len(s)
    BY <1>1
  <1>3. /\ SubSeq(s, k, Len(s)) \in Seq(S) /\ Len(SubSeq(s, k, Len(s))) = Len(s) - k + 1
        /\ ToSet(SubSeq(s, k, Len(s))) = {s[i] : i \in k..Len(s)}
    BY <1>2, PartElements
  <1> QED BY <1>1, <1>2, <1>3

\* An element taken out of a sequence: all others stay.
LEMMA RemoveAtElements ==
    ASSUME NEW S, NEW s \in Seq(S), NEW i \in 1..Len(s)
    PROVE  /\ RemoveAt(s, i) \in Seq(S) /\ Len(RemoveAt(s, i)) = Len(s) - 1
           /\ ToSet(s) = ToSet(RemoveAt(s, i)) \cup {s[i]}
  <1>1. Len(s) \in Nat /\ ToSet(s) = {s[j] : j \in 1..Len(s)}
    BY LenProperties, ElementSets, Zenon
  <1>2. PICK a, b : a = SubSeq(s, 1, i - 1) /\ b = SubSeq(s, i + 1, Len(s))
    OBVIOUS
  <1>3. a \in Seq(S) /\ Len(a) = i - 1 /\ ToSet(a) = {s[j] : j \in 1..(i - 1)}
    <2>1. 1 \in 1..Len(s) + 1 /\ i - 1 \in (1 - 1)..Len(s) /\ (i - 1) - 1 + 1 = i - 1
      BY <1>1
    <2> QED BY <1>2, <2>1, PartElements
  <1>4. b \in Seq(S) /\ Len(b) = Len(s) - i /\ ToSet(b) = {s[j] : j \in (i + 1)..Len(s)}
    <2>0. PICK m \in 1..Len(s) + 1 : m = i + 1
      BY <1>1
    <2>1. Len(s) \in (m - 1)..Len(s) /\ Len(s) - m + 1 = Len(s) - i
      BY <1>1, <2>0
    <2>2. SubSeq(s, m, Len(s)) \in Seq(S)
      BY <2>1, PartElements, Zenon
    <2>3. Len(SubSeq(s, m, Len(s))) = Len(s) - m + 1
      BY <2>1, PartElements, Zenon
    <2>4. ToSet(SubSeq(s, m, Len(s))) = {s[j] : j \in m..Len(s)}
      BY <2>1, PartElements, Zenon
    <2> QED BY <1>2, <2>0, <2>1, <2>2, <2>3, <2>4, Zenon
  <1>5. /\ a \o b \in Seq(S) /\ Len(a \o b) = Len(a) + Len(b)
        /\ Range(a \o b) = Range(a) \cup Range(b)
    <2>1. a \in Seq(S) /\ b \in Seq(S)
      BY <1>3, <1>4
    <2>2. a \o b \in Seq(S) /\ Len(a \o b) = Len(a) + Len(b)
      BY <2>1, ConcatProperties
    <2>3. Range(a \o b) = Range(a) \cup Range(b)
      BY <2>1, RangeConcatenation
    <2> QED BY <2>2, <2>3
  <1>6. PICK r : r = a \o b
    OBVIOUS
  <1>7. RemoveAt(s, i) = r
    BY <1>2, <1>6 DEF RemoveAt
  <1>8. ToSet(r) = Range(r) /\ ToSet(a) = Range(a) /\ ToSet(b) = Range(b)
    BY <1>3, <1>4, <1>5, <1>6, ElementSets, Zenon
  <1>9. r \in Seq(S) /\ ToSet(r) = ToSet(a) \cup ToSet(b)
    BY <1>5, <1>6, <1>8, Zenon
  <1>10. Len(r) = Len(s) - 1
    <2>1. Len(r) = (i - 1) + (Len(s) - i)
      BY <1>3, <1>4, <1>5, <1>6, Zenon
    <2> QED BY <1>1, <2>1
  <1>11. {s[j] : j \in 1..Len(s)} = {s[j] : j \in 1..(i - 1)} \cup {s[j] : j \in (i + 1)..Len(s)} \cup {s[i]}
    BY <1>1
  <1>12. ToSet(s) = ToSet(r) \cup {s[i]}
    BY <1>1, <1>3, <1>4, <1>9, <1>11, Zenon
  <1> QED BY <1>7, <1>9, <1>10, <1>12, Zenon

-----------------------------------------------------------------------------

\* What there was to do about event e has been done by some reactor.
Handled(e) == Target(e) = "nowhere" \/ \E f \in sent : f.event = e

\* What reactor r has forwarded of event e.
ForwardsOf(r, e) == {f \in sent : f.by = r /\ f.event = e}

\* The stream: messages trimmed before they were delivered are recorded, and
\* what was delivered and is not pending was handled.
StreamInv ==
    /\ \A m \in 1..trimmed : m > delivered => m \in skipped
    /\ \A m \in 1..delivered : m \in pel \/ m \in skipped \/ Handled(log[m])

\* A reactor remembers, and is about to acknowledge, handled events only.
HandledInv ==
    \A r \in Reactors :
        /\ \A e \in ToSet(seen[r]) : Handled(e)
        /\ pc[r] = "ack" => Handled(Event(r))

\* An event was forwarded once for each time its id was forgotten, and once
\* more if it is remembered.
OnceInv ==
    /\ IsFiniteSet(sent)
    /\ forgotten \in [Reactors -> [Events -> Nat]]
    /\ \A r \in Reactors, e \in Events :
           Cardinality(ForwardsOf(r, e))
               <= forgotten[r][e] + (IF e \in ToSet(seen[r]) THEN 1 ELSE 0)

ReactorInv == TypeOK /\ StreamInv /\ HandledInv /\ OnceInv

-----------------------------------------------------------------------------
\* popping an id leaves all others (_is_duplicate).
LEMMA WithoutElements ==
    ASSUME NEW s \in Seq(Events), NEW e
    PROVE  /\ Without(s, e) \in Seq(Events) /\ Len(Without(s, e)) <= Len(s)
           /\ ToSet(Without(s, e)) \subseteq ToSet(s)
           /\ \A d \in ToSet(s) : d # e => d \in ToSet(Without(s, e))
  <1>0. Len(s) \in Nat /\ DOMAIN s = 1..Len(s)
    BY LenProperties
  <1>1. CASE e \notin ToSet(s)
    BY <1>0, <1>1 DEF Without
  <1>2. CASE e \in ToSet(s)
    <2>0. \A x \in ToSet(s) : x \in Events /\ \E j \in 1..Len(s) : s[j] = x
      BY Elements
    <2>1. PICK j \in DOMAIN s : s[j] = e
      BY <1>0, <1>2, <2>0, Zenon
    <2>2. PICK i \in DOMAIN s : s[i] = e /\ Without(s, e) = RemoveAt(s, i)
      BY <1>2, <2>1, Zenon DEF Without
    <2>3. /\ RemoveAt(s, i) \in Seq(Events) /\ Len(RemoveAt(s, i)) = Len(s) - 1
          /\ ToSet(s) = ToSet(RemoveAt(s, i)) \cup {s[i]}
      BY <1>0, <2>2, RemoveAtElements
    <2>4. Len(s) - 1 <= Len(s)
      BY <1>0
    <2> QED BY <2>2, <2>3, <2>4
  <1> QED BY <1>1, <1>2

\* The memory keeps to its size, has the newest id and no other new one
\* (_mark_processed).
LEMMA MarkedElements ==
    ASSUME NEW s \in Seq(Events), NEW e \in Events
    PROVE  /\ Marked(s, e) \in Seq(Events) /\ Len(Marked(s, e)) <= DedupMax
           /\ ToSet(Marked(s, e)) \subseteq ToSet(s) \cup {e}
           /\ e \in ToSet(Marked(s, e))
  <1>0. DedupMax \in Nat \ {0}
    BY ReactorAssumption
  <1>1. PICK t : t = Append(Without(s, e), e)
    OBVIOUS
  <1>2. /\ t \in Seq(Events) /\ Len(t) \in Nat /\ Len(t) # 0 /\ t[Len(t)] = e
        /\ ToSet(t) = ToSet(Without(s, e)) \cup {e}
    <2>1. Without(s, e) \in Seq(Events) /\ Len(Without(s, e)) \in Nat
      BY WithoutElements, LenProperties
    <2>2. /\ t \in Seq(Events) /\ Len(t) = Len(Without(s, e)) + 1
          /\ ToSet(t) = ToSet(Without(s, e)) \cup {e}
      BY <1>1, <2>1, AppendElements
    <2>3. t[Len(Without(s, e)) + 1] = e
      BY <1>1, <2>1, AppendProperties
    <2> QED BY <2>1, <2>2, <2>3
  <1>3. PICK k : k = IF Len(t) > DedupMax THEN Len(t) - DedupMax + 1 ELSE 1
    OBVIOUS
  <1>4. k \in 1..Len(t) /\ Len(t) - k + 1 <= DedupMax
    BY <1>0, <1>2, <1>3
  <1>5. Marked(s, e) = SubSeq(t, k, Len(t))
    BY <1>1, <1>3 DEF Marked
  <1>6. /\ SubSeq(t, k, Len(t)) \in Seq(Events)
        /\ Len(SubSeq(t, k, Len(t))) = Len(t) - k + 1
        /\ t[Len(t)] \in ToSet(SubSeq(t, k, Len(t)))
        /\ ToSet(SubSeq(t, k, Len(t))) \subseteq ToSet(t)
    BY <1>2, <1>4, SuffixElements, Zenon
  <1>7. Len(Marked(s, e)) <= DedupMax
    BY <1>4, <1>5, <1>6
  <1>8. ToSet(Without(s, e)) \subseteq ToSet(s)
    BY WithoutElements, Zenon
  <1>9. Marked(s, e) \in Seq(Events) /\ e \in ToSet(Marked(s, e))
    BY <1>2, <1>5, <1>6, Zenon
  <1>10. ToSet(Marked(s, e)) \subseteq ToSet(s) \cup {e}
    BY <1>2, <1>5, <1>6, <1>8
  <1> QED BY <1>7, <1>9, <1>10

\* XREADGROUP hands out the messages from the first unread one to the new
\* last-delivered-id, without a gap.
LEMMA DeliverProperties ==
    ASSUME TypeOK, Deliver
    PROVE  /\ NextBatch \in Seq(1..delivered') /\ NextBatch # <<>>
           /\ delivered' \in 1..Len(log) /\ delivered < delivered'
           /\ \A m \in 1..delivered' : m > delivered /\ m > trimmed => m \in pel'
           /\ pel \subseteq pel' /\ pel' \subseteq 1..delivered'
  <1>0. /\ Len(log) \in Nat /\ Count \in Nat /\ Count # 0 /\ delivered \in Nat /\ trimmed \in Nat
        /\ FirstUnread <= Len(log)
    BY ReactorAssumption, LenProperties DEF TypeOK, Deliver
  <1>1. PICK first : first = FirstUnread
    OBVIOUS
  <1>2. /\ first \in Nat /\ first > delivered /\ first > trimmed
        /\ first = delivered + 1 \/ first = trimmed + 1
    BY <1>0, <1>1 DEF FirstUnread
  <1>3. PICK k : k = IF Len(log) - first + 1 < Count THEN Len(log) - first + 1 ELSE Count
    OBVIOUS
  <1>4. k \in Nat /\ k # 0 /\ first + k - 1 <= Len(log)
    BY <1>0, <1>1, <1>2, <1>3
  <1>5. PICK b : b = [i \in 1..k |-> first + i - 1]
    OBVIOUS
  <1>6. NextBatch = b
    BY <1>1, <1>3, <1>5 DEF NextBatch
  <1>7. DOMAIN b = 1..k /\ Len(b) = k /\ \A i \in 1..k : b[i] = first + i - 1
    BY <1>4, <1>5
  <1>8. delivered' = first + k - 1
    BY <1>4, <1>6, <1>7 DEF Deliver, Last
  <1>9. b \in Seq(1..delivered') /\ b # <<>>
    <2>1. PICK last : last = first + k - 1
      OBVIOUS
    <2>2. first >= 1
      BY <1>0, <1>2
    <2>3. \A i \in 1..k : first + i - 1 \in 1..last
      BY <1>2, <1>4, <2>1, <2>2
    <2>4. b \in Seq(1..last)
      BY <1>4, <1>5, <2>3
    <2> QED BY <1>4, <1>7, <1>8, <2>1, <2>4
  <1>10. pel' = pel \cup ToSet(b)
    BY <1>6 DEF Deliver
  <1>11. ASSUME NEW m \in 1..delivered', m > delivered, m > trimmed
         PROVE  m \in ToSet(b)
    <2>1. m \in first..(first + k - 1)
      BY <1>0, <1>2, <1>4, <1>8, <1>11
    <2>2. PICK j : j = m - first + 1
      OBVIOUS
    <2>3. j \in 1..Len(b) /\ b[j] = m
      BY <1>2, <1>4, <1>7, <2>1, <2>2
    <2> QED BY <1>9, <2>3, Elements, Zenon
  <1>12. ToSet(b) \subseteq 1..delivered'
    BY <1>9, Elements, Zenon
  <1>13. delivered' \in 1..Len(log) /\ delivered < delivered'
    BY <1>0, <1>2, <1>4, <1>8
  <1>14. pel \subseteq 1..delivered'
    BY <1>0, <1>13 DEF TypeOK
  <1> QED BY <1>6, <1>9, <1>10, <1>11, <1>12, <1>13, <1>14

-----------------------------------------------------------------------------
\* Every type of event has a place to go, or none (process_event).
LEMMA TargetType ==
    ASSUME NEW e \in Events
    PROVE  Target(e) \in Streams \cup {"nowhere"}
  <1>1. TypeOf[e] \in {"ingest", "anomaly", "other"}
    BY ReactorAssumption
  <1>2. RiskOf[e] \in {"RC-1", "RC-2", "RC-3", "RC-4", "unknown"}
    BY ReactorAssumption
  <1>3. CASE TypeOf[e] = "ingest"
    BY <1>3 DEF Target, Streams
  <1>4. CASE TypeOf[e] = "other"
    BY <1>4 DEF Target, Streams
  <1>5. CASE TypeOf[e] = "anomaly"
    <2>1. CASE RiskOf[e] = "RC-1"
      BY <1>5, <2>1 DEF Target, Streams
    <2>2. CASE RiskOf[e] \in {"RC-2", "RC-3"}
      BY <1>5, <2>2 DEF Target, Streams
    <2>3. CASE RiskOf[e] \in {"RC-4", "unknown"}
      BY <1>5, <2>3 DEF Target, Streams
    <2> QED BY <1>2, <2>1, <2>2, <2>3
  <1> QED BY <1>1, <1>3, <1>4, <1>5

\* A reactor that handles or acknowledges a message has one at hand.
LEMMA AtMessage ==
    ASSUME TypeOK, NEW r \in Reactors, pc[r] \in {"handle", "ack"}
    PROVE  /\ batch[r] \in Seq(1..delivered) /\ batch[r] # <<>>
           /\ Current(r) \in 1..delivered /\ Event(r) \in Events
           /\ Tail(batch[r]) \in Seq(1..delivered)
           /\ Tail(batch[r]) = <<>> <=> Len(batch[r]) = 1
  <1>1. batch[r] \in Seq(1..delivered) /\ batch[r] # <<>>
    BY DEF TypeOK
  <1>2. /\ Head(batch[r]) \in 1..delivered /\ Tail(batch[r]) \in Seq(1..delivered)
        /\ Len(Tail(batch[r])) = Len(batch[r]) - 1
    BY <1>1, HeadTailProperties
  <1>3. /\ Len(batch[r]) \in Nat
        /\ Tail(batch[r]) = <<>> <=> Len(Tail(batch[r])) = 0
    BY <1>1, <1>2, LenProperties, EmptySeq
  <1>4. Tail(batch[r]) = <<>> <=> Len(batch[r]) = 1
    BY <1>2, <1>3
  <1>5. log \in Seq(Events) /\ Len(log) \in Nat /\ delivered \in 0..Len(log)
    BY LenProperties DEF TypeOK
  <1>6. Head(batch[r]) \in 1..Len(log)
    BY <1>2, <1>5
  <1>7. log[Head(batch[r])] \in Events
    BY <1>5, <1>6, ElementOfSeq
  <1> QED BY <1>1, <1>2, <1>4, <1>7 DEF Current, Event

\* The next message of the batch, or the next subscribe.
LEMMA AdvanceProperties ==
    ASSUME TypeOK, NEW r \in Reactors, pc[r] \in {"handle", "ack"}, Advance(r)
    PROVE  /\ batch' \in [Reactors -> Seq(1..delivered)]
           /\ pc' \in [Reactors -> {"read", "handle", "ack", "down"}]
           /\ pc'[r] \in {"read", "handle"}
           /\ \A q \in Reactors : batch'[q] = <<>> <=> pc'[q] \in {"read", "down"}
           /\ \A q \in Reactors : q # r => pc'[q] = pc[q] /\ batch'[q] = batch[q]
  <1>1. /\ batch \in [Reactors -> Seq(1..delivered)]
        /\ pc \in [Reactors -> {"read", "handle", "ack", "down"}]
        /\ \A q \in Reactors : batch[q] = <<>> <=> pc[q] \in {"read", "down"}
    BY DEF TypeOK
  <1>2. /\ Tail(batch[r]) \in Seq(1..delivered)
        /\ Tail(batch[r]) = <<>> <=> Len(batch[r]) = 1
    BY AtMessage
  <1>3. batch' = [batch EXCEPT ![r] = Tail(batch[r])]
    BY <1>1 DEF Advance
  <1>4. pc' = [pc EXCEPT ![r] = IF Len(batch[r]) = 1 THEN "read" ELSE "handle"]
    BY DEF Advance
  <1>5. batch' \in [Reactors -> Seq(1..delivered)]
    BY <1>1, <1>2, <1>3
  <1>6. /\ pc' \in [Reactors -> {"read", "handle", "ack", "down"}]
        /\ pc'[r] = IF Len(batch[r]) = 1 THEN "read" ELSE "handle"
        /\ batch'[r] = Tail(batch[r])
        /\ \A q \in Reactors : q # r => pc'[q] = pc[q] /\ batch'[q] = batch[q]
    BY <1>1, <1>3, <1>4
  <1> QED BY <1>1, <1>2, <1>5, <1>6

\* What the memory is after a message.
LEMMA RememberProperties ==
    ASSUME TypeOK, NEW r \in Reactors, NEW s \in Seq(Events), Len(s) <= DedupMax,
           Remember(r, s)
    PROVE  /\ seen' \in [Reactors -> Seq(Events)]
           /\ \A q \in Reactors : Len(seen'[q]) <= DedupMax /\ stale'[q] \subseteq ToSet(seen'[q])
           /\ seen'[r] = s
           /\ \A q \in Reactors : q # r => seen'[q] = seen[q]
  <1>0. seen \in [Reactors -> Seq(Events)]
    BY DEF TypeOK
  <1>1. /\ seen' \in [Reactors -> Seq(Events)] /\ seen'[r] = s
        /\ \A q \in Reactors : q # r => seen'[q] = seen[q]
    BY <1>0 DEF Remember
  <1>2. ASSUME NEW q \in Reactors
        PROVE  Len(seen'[q]) <= DedupMax /\ stale'[q] \subseteq ToSet(seen'[q])
    <2>1. CASE q # r
      BY <1>1, <2>1 DEF TypeOK, Remember
    <2>2. CASE q = r
      BY <1>1, <2>2 DEF TypeOK, Remember
    <2> QED BY <2>1, <2>2
  <1> QED BY <1>1, <1>2

\* Each step keeps the types.
LEMMA TypeStep == TypeOK /\ [Next]_vars => TypeOK'
  <1> SUFFICES ASSUME TypeOK, [Next]_vars
               PROVE  TypeOK'
    OBVIOUS
  <1>0. /\ log \in Seq(Events) /\ Len(log) \in Nat
        /\ trimmed \in 0..Len(log) /\ delivered \in 0..Len(log)
        /\ MaxFaults \in Nat /\ DedupMax \in Nat \ {0}
    BY ReactorAssumption, LenProperties DEF TypeOK
  <1>1. ASSUME NEW e \in Events, Publish(e)
        PROVE  TypeOK'
    <2>1. /\ log' \in Seq(Events) /\ Len(log') = Len(log) + 1
      BY <1>0, <1>1, AppendElements DEF Publish
    <2>2. PICK t \in trimmed..Len(log) :
              trimmed' = t /\ skipped' = skipped \cup {m \in 1..t : m > delivered}
      BY <1>1 DEF Publish
    <2>3. trimmed' \in 0..Len(log') /\ delivered \in 0..Len(log')
      BY <1>0, <2>1, <2>2
    <2>4. skipped' \subseteq 1..trimmed'
      <3>1. \A m \in 1..trimmed : m \in 1..t
        BY <1>0
      <3>2. \A m \in skipped : m \in 1..t
        BY <3>1 DEF TypeOK
      <3> QED BY <2>2, <3>2
    <2> QED BY <1>1, <2>1, <2>3, <2>4 DEF TypeOK, Publish, memory
  <1>2. ASSUME NEW r \in Reactors, Read(r)
        PROVE  TypeOK'
    <2>1. /\ NextBatch \in Seq(1..delivered') /\ NextBatch # <<>>
          /\ delivered' \in 1..Len(log) /\ delivered < delivered'
          /\ pel' \subseteq 1..delivered'
      BY <1>2, DeliverProperties DEF Read
    <2>2. Seq(1..delivered) \subseteq Seq(1..delivered')
      <3>1. 1..delivered \subseteq 1..delivered'
        BY <1>0, <2>1
      <3> QED BY <3>1, SeqMonotonic
    <2>3. /\ batch' \in [Reactors -> Seq(1..delivered')]
          /\ \A q \in Reactors : batch'[q] = <<>> <=> pc'[q] \in {"read", "down"}
      BY <1>2, <2>1, <2>2 DEF TypeOK, Read
    <2>4. delivered' \in 0..Len(log)
      BY <1>0, <2>1
    <2> QED BY <1>2, <2>1, <2>3, <2>4 DEF TypeOK, Read, memory
  <1>3. ASSUME NEW r \in Reactors, ReadError(r)
        PROVE  TypeOK'
    <2>1. CASE Deliver
      <3>1. /\ delivered' \in 1..Len(log) /\ delivered < delivered'
            /\ pel' \subseteq 1..delivered'
        BY <2>1, DeliverProperties
      <3>2. Seq(1..delivered) \subseteq Seq(1..delivered')
        <4>1. 1..delivered \subseteq 1..delivered'
          BY <1>0, <3>1
        <4> QED BY <4>1, SeqMonotonic
      <3>3. delivered' \in 0..Len(log) /\ faults' \in 0..MaxFaults
        BY <1>0, <1>3, <3>1 DEF TypeOK, ReadError
      <3>4. batch' \in [Reactors -> Seq(1..delivered')]
        BY <1>3, <3>2 DEF TypeOK, ReadError
      <3> QED BY <1>3, <3>1, <3>3, <3>4 DEF TypeOK, ReadError, memory
    <2>2. CASE UNCHANGED <<delivered, pel>>
      BY <1>0, <1>3, <2>2 DEF TypeOK, ReadError, memory
    <2> QED BY <1>3, <2>1, <2>2 DEF ReadError
  <1>4. ASSUME NEW r \in Reactors, Duplicate(r)
        PROVE  TypeOK'
    BY <1>4 DEF TypeOK, Duplicate, stream, memory
  <1>5. ASSUME NEW r \in Reactors, Forward(r)
        PROVE  TypeOK'
    <2>1. /\ Marked(seen[r], Event(r)) \in Seq(Events)
          /\ Len(Marked(seen[r], Event(r))) <= DedupMax
          /\ Event(r) \in Events
      BY <1>5, AtMessage, MarkedElements DEF TypeOK, Forward
    <2>2. /\ seen' \in [Reactors -> Seq(Events)]
          /\ \A q \in Reactors : Len(seen'[q]) <= DedupMax /\ stale'[q] \subseteq ToSet(seen'[q])
      BY <1>5, <2>1, RememberProperties DEF Forward
    <2>3. stale' \in [Reactors -> SUBSET Events]
      BY <1>5 DEF TypeOK, Forward, Remember
    <2>4. \A f \in sent' : f.stream \in Streams /\ f.event \in Events /\ f.by \in Reactors
      BY <1>5, <2>1, TargetType DEF TypeOK, Forward, Forwarded
    <2>5. /\ pc' \in [Reactors -> {"read", "handle", "ack", "down"}]
          /\ \A q \in Reactors : batch'[q] = <<>> <=> pc'[q] \in {"read", "down"}
      BY <1>5 DEF TypeOK, Forward
    <2> QED BY <1>5, <2>2, <2>3, <2>4, <2>5 DEF TypeOK, Forward, stream
  <1>6. ASSUME NEW r \in Reactors, ForwardError(r)
        PROVE  TypeOK'
    <2>1. /\ Event(r) \in Events /\ seen \in [Reactors -> Seq(Events)]
          /\ Without(seen[r], Event(r)) \in Seq(Events)
          /\ Len(Without(seen[r], Event(r))) <= Len(seen[r])
          /\ \A d \in ToSet(seen[r]) : d # Event(r) => d \in ToSet(Without(seen[r], Event(r)))
      BY <1>6, AtMessage, WithoutElements DEF TypeOK, ForwardError
    <2>2. Len(Without(seen[r], Event(r))) <= DedupMax
      <3>1. /\ Len(seen[r]) \in Nat /\ Len(Without(seen[r], Event(r))) \in Nat
            /\ Len(seen[r]) <= DedupMax
        BY <2>1, LenProperties DEF TypeOK
      <3> QED BY <1>0, <2>1, <3>1
    <2>3. /\ seen' \in [Reactors -> Seq(Events)]
          /\ stale' \in [Reactors -> SUBSET Events]
          /\ \A q \in Reactors : Len(seen'[q]) <= DedupMax /\ stale'[q] \subseteq ToSet(seen'[q])
          /\ \A f \in sent' : f.stream \in Streams /\ f.event \in Events /\ f.by \in Reactors
      <3>1. CASE Remember(r, Without(seen[r], Event(r))) /\ UNCHANGED sent
        <4>1. stale' \in [Reactors -> SUBSET Events]
          BY <3>1 DEF TypeOK, Remember
        <4> QED BY <2>1, <2>2, <3>1, <4>1, RememberProperties DEF TypeOK
      <3>2. CASE /\ sent' = sent \cup Forwarded(r)
                 /\ seen' = [seen EXCEPT ![r] = Without(@, Event(r))]
                 /\ stale' = [stale EXCEPT ![r] = @ \ {Event(r)}]
        <4>1. \A f \in sent' : f.stream \in Streams /\ f.event \in Events /\ f.by \in Reactors
          BY <2>1, <3>2, TargetType DEF TypeOK, Forwarded
        <4>2. /\ seen' = [seen EXCEPT ![r] = Without(seen[r], Event(r))]
              /\ stale' = [stale EXCEPT ![r] = stale[r] \ {Event(r)}]
          BY <2>1, <3>2 DEF TypeOK
        <4>3. ASSUME NEW q \in Reactors
              PROVE  Len(seen'[q]) <= DedupMax /\ stale'[q] \subseteq ToSet(seen'[q])
          <5>1. CASE q # r
            BY <4>2, <5>1 DEF TypeOK
          <5>2. CASE q = r
            BY <2>1, <2>2, <4>2, <5>2 DEF TypeOK
          <5> QED BY <5>1, <5>2
        <4> QED BY <2>1, <4>1, <4>2, <4>3 DEF TypeOK
      <3> QED BY <1>6, <3>1, <3>2 DEF ForwardError
    <2>4. /\ batch' \in [Reactors -> Seq(1..delivered)]
          /\ pc' \in [Reactors -> {"read", "handle", "ack", "down"}]
          /\ \A q \in Reactors : batch'[q] = <<>> <=> pc'[q] \in {"read", "down"}
      BY <1>6, AdvanceProperties DEF ForwardError
    <2>5. faults' \in 0..MaxFaults
      BY <1>0, <1>6 DEF TypeOK, ForwardError
    <2> QED BY <1>6, <2>3, <2>4, <2>5 DEF TypeOK, ForwardError, stream
  <1>7. ASSUME NEW r \in Reactors, Ack(r)
        PROVE  TypeOK'
    <2>1. /\ batch' \in [Reactors -> Seq(1..delivered)]
          /\ pc' \in [Reactors -> {"read", "handle", "ack", "down"}]
          /\ \A q \in Reactors : batch'[q] = <<>> <=> pc'[q] \in {"read", "down"}
      BY <1>7, AdvanceProperties DEF Ack
    <2> QED BY <1>7, <2>1 DEF TypeOK, Ack, memory
  <1>8. ASSUME NEW r \in Reactors, AckError(r)
        PROVE  TypeOK'
    <2>1. /\ batch' \in [Reactors -> Seq(1..delivered)]
          /\ pc' \in [Reactors -> {"read", "handle", "ack", "down"}]
          /\ \A q \in Reactors : batch'[q] = <<>> <=> pc'[q] \in {"read", "down"}
      BY <1>8, AdvanceProperties DEF AckError
    <2>2. faults' \in 0..MaxFaults
      BY <1>0, <1>8 DEF TypeOK, AckError
    <2> QED BY <1>8, <2>1, <2>2 DEF TypeOK, AckError, stream, memory
  <1>9. ASSUME NEW r \in Reactors, NEW e \in Events, GoStale(r, e)
        PROVE  TypeOK'
    <2>1. faults' \in 0..MaxFaults
      BY <1>0, <1>9 DEF TypeOK, GoStale
    <2>2. /\ stale' \in [Reactors -> SUBSET Events]
          /\ \A q \in Reactors : stale'[q] \subseteq ToSet(seen'[q])
      BY <1>9 DEF TypeOK, GoStale
    <2> QED BY <1>9, <2>1, <2>2 DEF TypeOK, GoStale, stream
  <1>10. ASSUME NEW r \in Reactors, RequestShutdown(r)
         PROVE  TypeOK'
    BY <1>0, <1>10 DEF TypeOK, RequestShutdown, stream, memory
  <1>11. ASSUME NEW r \in Reactors, Down(r), UNCHANGED <<stream, sent>>,
                faults' \in 0..MaxFaults
         PROVE  TypeOK'
    <2>1. /\ batch' \in [Reactors -> Seq(1..delivered)]
          /\ pc' \in [Reactors -> {"read", "handle", "ack", "down"}]
          /\ \A q \in Reactors : batch'[q] = <<>> <=> pc'[q] \in {"read", "down"}
          /\ stopping' \subseteq Reactors
      BY <1>11, EmptySeq DEF TypeOK, Down
    <2>2. /\ seen' \in [Reactors -> Seq(Events)]
          /\ stale' \in [Reactors -> SUBSET Events]
      BY <1>11, EmptySeq DEF TypeOK, Down
    <2>3. ASSUME NEW q \in Reactors
          PROVE  Len(seen'[q]) <= DedupMax /\ stale'[q] \subseteq ToSet(seen'[q])
      <3>1. CASE q # r
        BY <1>11, <3>1 DEF TypeOK, Down
      <3>2. CASE q = r
        <4>1. seen'[q] = <<>> /\ stale'[q] = {}
          BY <1>11, <3>2 DEF TypeOK, Down
        <4>2. Len(<<>>) = 0 /\ 0 <= DedupMax
          BY <1>0
        <4> QED BY <4>1, <4>2
      <3> QED BY <3>1, <3>2
    <2> QED BY <1>11, <2>1, <2>2, <2>3 DEF TypeOK, stream
  <1>12. ASSUME NEW r \in Reactors, Stop(r) \/ Crash(r)
         PROVE  TypeOK'
    <2>1. faults' \in 0..MaxFaults
      BY <1>0, <1>12 DEF TypeOK, Stop, Crash
    <2> QED BY <1>11, <1>12, <2>1 DEF Stop, Crash
  <1>13. ASSUME NEW r \in Reactors, Start(r)
         PROVE  TypeOK'
    BY <1>13 DEF TypeOK, Start, stream, memory
  <1>14. CASE UNCHANGED vars
    BY <1>14 DEF TypeOK, vars, stream, memory
  <1> QED BY <1>1, <1>2, <1>3, <1>4, <1>5, <1>6, <1>7, <1>8, <1>9, <1>10, <1>12, <1>13, <1>14
          DEF Next, Run

-----------------------------------------------------------------------------
\* A step that takes nothing off the stream, the pending list or what was
\* forwarded keeps the order of the stream.
LEMMA StreamFrame ==
    ASSUME TypeOK, StreamInv, UNCHANGED <<log, trimmed, delivered, skipped>>,
           pel \subseteq pel', sent \subseteq sent'
    PROVE  StreamInv'
  BY DEF StreamInv, Handled

\* Each step keeps the stream in order.
LEMMA StreamStep == TypeOK /\ HandledInv /\ StreamInv /\ [Next]_vars => StreamInv'
  <1> SUFFICES ASSUME TypeOK, HandledInv, StreamInv, [Next]_vars
               PROVE  StreamInv'
    OBVIOUS
  <1>0. /\ log \in Seq(Events) /\ Len(log) \in Nat
        /\ trimmed \in 0..Len(log) /\ delivered \in 0..Len(log)
    BY LenProperties DEF TypeOK
  <1>1. ASSUME NEW e \in Events, Publish(e)
        PROVE  StreamInv'
    <2>1. \A m \in 1..Len(log) : log'[m] = log[m]
      BY <1>0, <1>1, AppendProperties DEF Publish
    <2>2. PICK t \in trimmed..Len(log) :
              trimmed' = t /\ skipped' = skipped \cup {m \in 1..t : m > delivered}
      BY <1>1 DEF Publish
    <2>4. \A m \in 1..delivered : m \in 1..Len(log)
      BY <1>0
    <2>5. \A m \in 1..delivered : m \in pel \/ m \in skipped' \/ Handled(log'[m])
      BY <2>1, <2>2, <2>4 DEF StreamInv
    <2>6. \A m \in 1..t : m > delivered => m \in skipped'
      BY <2>2
    <2> QED BY <1>1, <2>2, <2>5, <2>6 DEF StreamInv, Handled, Publish
  <1>2. ASSUME Deliver, UNCHANGED <<log, trimmed, skipped, sent>>
        PROVE  StreamInv'
    <2>1. /\ delivered' \in 1..Len(log) /\ delivered < delivered'
          /\ \A m \in 1..delivered' : m > delivered /\ m > trimmed => m \in pel'
          /\ pel \subseteq pel'
      BY <1>2, DeliverProperties
    <2>2. ASSUME NEW m \in 1..delivered'
          PROVE  m \in pel' \/ m \in skipped \/ Handled(log[m])
      <3>1. CASE m \in 1..delivered
        BY <2>1, <3>1 DEF StreamInv
      <3>2. CASE m \in 1..trimmed /\ m > delivered
        BY <3>2 DEF StreamInv
      <3>3. CASE m > delivered /\ m > trimmed
        BY <2>1, <3>3
      <3>4. m \in 1..delivered \/ (m > delivered /\ (m \in 1..trimmed \/ m > trimmed))
        BY <1>0, <2>1
      <3> QED BY <3>1, <3>2, <3>3, <3>4
    <2>3. \A m \in 1..trimmed : m > delivered' => m > delivered
      BY <1>0, <2>1
    <2>4. \A m \in 1..trimmed : m > delivered' => m \in skipped
      BY <2>3 DEF StreamInv
    <2> QED BY <1>2, <2>2, <2>4 DEF StreamInv, Handled
  <1>3. ASSUME NEW r \in Reactors, Read(r) \/ ReadError(r)
        PROVE  StreamInv'
    <2>1. CASE Deliver
      BY <1>2, <1>3, <2>1 DEF Read, ReadError
    <2>2. CASE UNCHANGED <<delivered, pel>>
      BY <1>3, <2>2, StreamFrame DEF Read, ReadError
    <2> QED BY <1>3, <2>1, <2>2 DEF Read, ReadError
  <1>4. ASSUME NEW r \in Reactors, Ack(r)
        PROVE  StreamInv'
    <2>1. Handled(log[Current(r)])
      BY <1>4 DEF HandledInv, Ack, Event
    <2> QED BY <1>4, <2>1 DEF StreamInv, Handled, Ack
  <1>5. ASSUME NEW r \in Reactors,
               \/ Duplicate(r) \/ Forward(r) \/ ForwardError(r) \/ AckError(r)
               \/ RequestShutdown(r) \/ Stop(r) \/ Crash(r) \/ Start(r)
               \/ \E e \in Events : GoStale(r, e)
        PROVE  StreamInv'
    <2>1. UNCHANGED stream
      BY <1>5 DEF Duplicate, Forward, ForwardError, AckError, RequestShutdown, Stop, Crash,
                  Start, GoStale
    <2>2. sent \subseteq sent'
      BY <1>5 DEF Duplicate, Forward, ForwardError, AckError, RequestShutdown, Stop, Crash,
                  Start, GoStale
    <2> QED BY <2>1, <2>2, StreamFrame DEF stream
  <1>6. CASE UNCHANGED vars
    BY <1>6, StreamFrame DEF vars, stream
  <1> QED BY <1>1, <1>3, <1>4, <1>5, <1>6 DEF Next, Run

-----------------------------------------------------------------------------
\* A step that keeps the messages and what was forwarded keeps the rest of
\* the invariant for a reactor that stays as it is.
LEMMA HandledFrame ==
    ASSUME TypeOK, HandledInv, NEW r \in Reactors,
           \A m \in 1..delivered : log'[m] = log[m],
           sent \subseteq sent',
           ToSet(seen'[r]) \subseteq ToSet(seen[r]),
           pc'[r] = "ack" => pc[r] = "ack" /\ batch'[r] = batch[r]
    PROVE  /\ \A e \in ToSet(seen'[r]) : Handled(e)'
           /\ pc'[r] = "ack" => Handled(Event(r))'
  <1>1. \A e \in ToSet(seen'[r]) : Handled(e)'
    BY DEF HandledInv, Handled
  <1>2. ASSUME pc'[r] = "ack"
        PROVE  Handled(Event(r))'
    <2>1. Current(r) \in 1..delivered /\ Handled(Event(r)) /\ batch'[r] = batch[r]
      BY <1>2, AtMessage DEF HandledInv
    <2>2. log'[Current(r)] = log[Current(r)] /\ Current(r)' = Current(r)
      BY <2>1 DEF Current
    <2> QED BY <2>1, <2>2 DEF Handled, Event
  <1> QED BY <1>1, <1>2

\* Each step keeps the memories, and what is about to be acknowledged, handled.
LEMMA HandledStep == TypeOK /\ HandledInv /\ [Next]_vars => HandledInv'
  <1> SUFFICES ASSUME TypeOK, HandledInv, [Next]_vars,
                      NEW r \in Reactors
               PROVE  /\ \A e \in ToSet(seen'[r]) : Handled(e)'
                      /\ pc'[r] = "ack" => Handled(Event(r))'
    BY DEF HandledInv
  <1>0. /\ log \in Seq(Events) /\ Len(log) \in Nat /\ delivered \in 0..Len(log)
        /\ pc \in [Reactors -> {"read", "handle", "ack", "down"}]
        /\ seen \in [Reactors -> Seq(Events)]
        /\ batch \in [Reactors -> Seq(1..delivered)]
    BY LenProperties DEF TypeOK
  <1>1. ASSUME NEW e \in Events, Publish(e)
        PROVE  /\ \A d \in ToSet(seen'[r]) : Handled(d)'
               /\ pc'[r] = "ack" => Handled(Event(r))'
    <2>1. \A m \in 1..Len(log) : log'[m] = log[m]
      BY <1>0, <1>1, AppendProperties DEF Publish
    <2>2. \A m \in 1..delivered : log'[m] = log[m]
      BY <1>0, <2>1
    <2> QED BY <1>1, <2>2, HandledFrame DEF Publish, memory
  <1>2. ASSUME NEW q \in Reactors, Read(q) \/ ReadError(q)
        PROVE  /\ \A d \in ToSet(seen'[r]) : Handled(d)'
               /\ pc'[r] = "ack" => Handled(Event(r))'
    <2>1. pc'[r] = "ack" => pc[r] = "ack" /\ batch'[r] = batch[r]
      BY <1>0, <1>2 DEF Read, ReadError
    <2>2. log' = log /\ sent' = sent /\ seen' = seen
      BY <1>2 DEF Read, ReadError, memory
    <2> QED BY <2>1, <2>2, HandledFrame
  <1>3. ASSUME NEW q \in Reactors, Duplicate(q)
        PROVE  /\ \A d \in ToSet(seen'[r]) : Handled(d)'
               /\ pc'[r] = "ack" => Handled(Event(r))'
    <2>1. UNCHANGED <<log, batch, seen, sent>> /\ pc' = [pc EXCEPT ![q] = "ack"]
      BY <1>3 DEF Duplicate, stream, memory
    <2>2. CASE r # q
      BY <1>0, <2>1, <2>2, HandledFrame
    <2>3. CASE r = q
      <3>1. Event(r) \in ToSet(seen[r])
        BY <1>3, <2>3 DEF Duplicate, Remembered
      <3> QED BY <2>1, <3>1 DEF HandledInv, Handled, Event, Current
    <2> QED BY <2>2, <2>3
  <1>4. ASSUME NEW q \in Reactors, Forward(q)
        PROVE  /\ \A d \in ToSet(seen'[r]) : Handled(d)'
               /\ pc'[r] = "ack" => Handled(Event(r))'
    <2>1. /\ UNCHANGED <<log, batch>> /\ pc' = [pc EXCEPT ![q] = "ack"]
          /\ sent' = sent \cup Forwarded(q)
          /\ Remember(q, Marked(seen[q], Event(q)))
          /\ pc[q] = "handle"
      BY <1>4 DEF Forward, stream
    <2>2. CASE r # q
      <3>1. seen'[r] = seen[r] /\ pc'[r] = pc[r]
        BY <1>0, <2>1, <2>2 DEF Remember
      <3> QED BY <2>1, <3>1, HandledFrame
    <2>3. CASE r = q
      <3>1. Event(r) \in Events
        BY <2>1, <2>3, AtMessage
      <3>2. /\ seen'[r] = Marked(seen[r], Event(r))
            /\ ToSet(seen'[r]) \subseteq ToSet(seen[r]) \cup {Event(r)}
        BY <1>0, <2>1, <2>3, <3>1, MarkedElements DEF Remember
      <3>3. Handled(Event(r))' /\ Event(r)' = Event(r)
        <4>1. Event(r)' = Event(r)
          BY <2>1 DEF Event, Current
        <4>2. CASE Target(Event(r)) # "nowhere"
          <5>1. \E f \in Forwarded(r) : f.event = Event(r)
            BY <4>2 DEF Forwarded
          <5> QED BY <2>1, <2>3, <4>1, <5>1 DEF Handled
        <4> QED BY <4>1, <4>2 DEF Handled
      <3>4. \A d \in ToSet(seen[r]) : Handled(d)'
        BY <2>1 DEF HandledInv, Handled
      <3> QED BY <3>2, <3>3, <3>4 DEF Handled
    <2> QED BY <2>2, <2>3
  <1>5. ASSUME NEW q \in Reactors, ForwardError(q)
        PROVE  /\ \A d \in ToSet(seen'[r]) : Handled(d)'
               /\ pc'[r] = "ack" => Handled(Event(r))'
    <2>1. /\ UNCHANGED log /\ sent \subseteq sent' /\ Advance(q)
          /\ seen' = [seen EXCEPT ![q] = Without(seen[q], Event(q))]
          /\ pc[q] = "handle"
      BY <1>0, <1>5 DEF ForwardError, Remember, stream
    <2>2. ToSet(Without(seen[q], Event(q))) \subseteq ToSet(seen[q])
      BY <1>0, WithoutElements
    <2>3. ToSet(seen'[r]) \subseteq ToSet(seen[r])
      BY <1>0, <2>1, <2>2
    <2>4. pc'[r] = "ack" => pc[r] = "ack" /\ batch'[r] = batch[r]
      BY <2>1, AdvanceProperties
    <2> QED BY <2>1, <2>3, <2>4, HandledFrame
  <1>6. ASSUME NEW q \in Reactors, Ack(q) \/ AckError(q)
        PROVE  /\ \A d \in ToSet(seen'[r]) : Handled(d)'
               /\ pc'[r] = "ack" => Handled(Event(r))'
    <2>1. UNCHANGED <<log, sent, seen>> /\ Advance(q) /\ pc[q] = "ack"
      BY <1>6 DEF Ack, AckError, stream, memory
    <2>2. pc'[r] = "ack" => pc[r] = "ack" /\ batch'[r] = batch[r]
      BY <2>1, AdvanceProperties
    <2> QED BY <2>1, <2>2, HandledFrame
  <1>7. ASSUME NEW q \in Reactors, Stop(q) \/ Crash(q)
        PROVE  /\ \A d \in ToSet(seen'[r]) : Handled(d)'
               /\ pc'[r] = "ack" => Handled(Event(r))'
    <2>1. UNCHANGED <<log, sent>> /\ Down(q)
      BY <1>7 DEF Stop, Crash, stream
    <2>2. pc'[r] = "ack" => pc[r] = "ack" /\ batch'[r] = batch[r]
      BY <1>0, <2>1 DEF Down
    <2>3. ToSet(seen'[r]) \subseteq ToSet(seen[r])
      <3>1. ToSet(<<>>) = {}
        BY DEF ToSet
      <3> QED BY <1>0, <2>1, <3>1 DEF Down
    <2> QED BY <2>1, <2>2, <2>3, HandledFrame
  <1>8. ASSUME NEW q \in Reactors,
               \/ RequestShutdown(q) \/ Start(q) \/ \E e \in Events : GoStale(q, e)
        PROVE  /\ \A d \in ToSet(seen'[r]) : Handled(d)'
               /\ pc'[r] = "ack" => Handled(Event(r))'
    <2>1. UNCHANGED <<log, sent, seen, batch>>
      BY <1>8 DEF RequestShutdown, Start, GoStale, stream, memory
    <2>2. pc'[r] = "ack" => pc[r] = "ack"
      BY <1>0, <1>8 DEF RequestShutdown, Start, GoStale
    <2> QED BY <2>1, <2>2, HandledFrame
  <1>9. CASE UNCHANGED vars
    BY <1>9, HandledFrame DEF vars, stream, memory
  <1> QED BY <1>1, <1>2, <1>3, <1>4, <1>5, <1>6, <1>7, <1>8, <1>9 DEF Next, Run

-----------------------------------------------------------------------------
\* A step that forwards nothing and counts an id as forgotten when it leaves
\* the memory.
LEMMA OnceFrame ==
    ASSUME OnceInv, sent' = sent, forgotten' \in [Reactors -> [Events -> Nat]],
           \A r \in Reactors, e \in Events :
               \/ forgotten'[r][e] = forgotten[r][e] /\ (e \in ToSet(seen[r]) => e \in ToSet(seen'[r]))
               \/ forgotten'[r][e] = forgotten[r][e] + 1
    PROVE  OnceInv'
  <1> SUFFICES ASSUME NEW r \in Reactors, NEW e \in Events
               PROVE  Cardinality(ForwardsOf(r, e))
                          <= forgotten'[r][e] + (IF e \in ToSet(seen'[r]) THEN 1 ELSE 0)
    BY DEF OnceInv, ForwardsOf
  <1>1. IsFiniteSet(ForwardsOf(r, e))
    BY FS_Subset DEF OnceInv, ForwardsOf
  <1>2. PICK c \in Nat : c = Cardinality(ForwardsOf(r, e))
    BY <1>1, FS_CardinalityType
  <1>3. forgotten[r][e] \in Nat /\ forgotten'[r][e] \in Nat
    BY DEF OnceInv
  <1>4. c <= forgotten[r][e] + (IF e \in ToSet(seen[r]) THEN 1 ELSE 0)
    BY <1>2 DEF OnceInv
  <1> QED BY <1>2, <1>3, <1>4

\* A step that forwards one event and then remembers it, or counts it as
\* forgotten once more.
LEMMA OnceForward ==
    ASSUME TypeOK, OnceInv, NEW r \in Reactors, Event(r) \in Events,
           sent' = sent \cup Forwarded(r),
           forgotten' \in [Reactors -> [Events -> Nat]],
           \A q \in Reactors, e \in Events : q # r \/ e # Event(r) =>
               \/ forgotten'[q][e] = forgotten[q][e] /\ (e \in ToSet(seen[q]) => e \in ToSet(seen'[q]))
               \/ forgotten'[q][e] = forgotten[q][e] + 1,
           forgotten[r][Event(r)] + (IF Event(r) \in ToSet(seen[r]) THEN 1 ELSE 0) + 1
               <= forgotten'[r][Event(r)] + (IF Event(r) \in ToSet(seen'[r]) THEN 1 ELSE 0)
    PROVE  OnceInv'
  <1>1. PICK f : Forwarded(r) \subseteq {f} /\ f.by = r /\ f.event = Event(r)
    <2> DEFINE g(n) == [stream |-> Target(Event(r)), event |-> Event(r), by |-> r, nth |-> n]
               c    == Cardinality({f \in sent : f.by = r /\ f.event = Event(r)}) + 1
    <2>1. \A n : g(n).by = r /\ g(n).event = Event(r)
      OBVIOUS
    <2>2. Forwarded(r) \subseteq {g(c)}
      BY DEF Forwarded
    <2> HIDE DEF g, c
    <2> QED BY <2>1, <2>2, Zenon
  <1>2. sent \subseteq sent' /\ sent' \subseteq sent \cup {f}
    BY <1>1
  <1>3. IsFiniteSet(sent')
    <2>1. IsFiniteSet(sent \cup {f})
      BY FS_AddElement DEF OnceInv
    <2> QED BY <1>2, <2>1, FS_Subset
  <1>4. ASSUME NEW q \in Reactors, NEW e \in Events
        PROVE  Cardinality(ForwardsOf(q, e)')
                   <= forgotten'[q][e] + (IF e \in ToSet(seen'[q]) THEN 1 ELSE 0)
    <2>1. IsFiniteSet(ForwardsOf(q, e))
      BY FS_Subset DEF OnceInv, ForwardsOf
    <2>2. PICK c \in Nat : c = Cardinality(ForwardsOf(q, e))
      BY <2>1, FS_CardinalityType
    <2>3. forgotten[q][e] \in Nat /\ forgotten'[q][e] \in Nat
      BY DEF OnceInv
    <2>4. c <= forgotten[q][e] + (IF e \in ToSet(seen[q]) THEN 1 ELSE 0)
      BY <2>2 DEF OnceInv
    <2>5. CASE q # r \/ e # Event(r)
      <3>1. ForwardsOf(q, e)' = ForwardsOf(q, e)
        BY <1>1, <1>2, <2>5 DEF ForwardsOf
      <3>2. \/ forgotten'[q][e] = forgotten[q][e] /\ (e \in ToSet(seen[q]) => e \in ToSet(seen'[q]))
            \/ forgotten'[q][e] = forgotten[q][e] + 1
        BY <2>5
      <3> QED BY <2>2, <2>3, <2>4, <3>1, <3>2
    <2>6. CASE q = r /\ e = Event(r)
      <3>1. ForwardsOf(q, e)' \subseteq ForwardsOf(q, e) \cup {f}
        BY <1>2 DEF ForwardsOf
      <3>2. /\ IsFiniteSet(ForwardsOf(q, e) \cup {f})
            /\ Cardinality(ForwardsOf(q, e) \cup {f}) \in {c, c + 1}
        BY <2>1, <2>2, FS_AddElement
      <3>3. /\ Cardinality(ForwardsOf(q, e)') <= Cardinality(ForwardsOf(q, e) \cup {f})
            /\ IsFiniteSet(ForwardsOf(q, e)')
        BY <3>1, <3>2, FS_Subset
      <3>4. PICK n \in Nat : n = Cardinality(ForwardsOf(q, e)') /\ n <= c + 1
        BY <2>2, <3>2, <3>3, FS_CardinalityType
      <3>5. PICK g \in Nat : g = forgotten'[q][e]
        BY <2>3
      <3>6. c + 1 <= g + (IF e \in ToSet(seen'[q]) THEN 1 ELSE 0)
        BY <2>2, <2>3, <2>4, <2>6, <3>5
      <3> QED BY <2>2, <3>4, <3>5, <3>6
    <2> QED BY <2>5, <2>6
  <1> QED BY <1>3, <1>4 DEF OnceInv

\* Each step keeps the count of what was forwarded.
LEMMA OnceStep == TypeOK /\ OnceInv /\ [Next]_vars => OnceInv'
  <1> SUFFICES ASSUME TypeOK, OnceInv, [Next]_vars
               PROVE  OnceInv'
    OBVIOUS
  <1>0. /\ seen \in [Reactors -> Seq(Events)] /\ stale \in [Reactors -> SUBSET Events]
        /\ forgotten \in [Reactors -> [Events -> Nat]]
    BY DEF TypeOK, OnceInv
  <1>1. ASSUME UNCHANGED <<sent, seen, forgotten>>
        PROVE  OnceInv'
    BY <1>0, <1>1, OnceFrame
  <1>2. ASSUME NEW e \in Events, Publish(e)
        PROVE  OnceInv'
    BY <1>1, <1>2 DEF Publish, memory
  <1>3. ASSUME NEW r \in Reactors,
               \/ Read(r) \/ ReadError(r) \/ Duplicate(r) \/ Ack(r) \/ AckError(r)
               \/ RequestShutdown(r) \/ Start(r) \/ \E e \in Events : GoStale(r, e)
        PROVE  OnceInv'
    BY <1>1, <1>3 DEF Read, ReadError, Duplicate, Ack, AckError, RequestShutdown, Start,
                      GoStale, memory
  <1>4. ASSUME NEW r \in Reactors, NEW s, Remember(r, s)
        PROVE  /\ forgotten' \in [Reactors -> [Events -> Nat]]
               /\ seen'[r] = s
               /\ \A q \in Reactors, e \in Events : q # r =>
                      forgotten'[q][e] = forgotten[q][e] /\ seen'[q] = seen[q]
               /\ \A e \in Events :
                      forgotten'[r][e] =
                          IF \/ e \in ToSet(seen[r]) /\ e \notin ToSet(s)
                             \/ e = Event(r) /\ e \in stale[r]
                          THEN forgotten[r][e] + 1 ELSE forgotten[r][e]
    BY <1>0, <1>4 DEF Remember
  <1>5. ASSUME NEW r \in Reactors, Forward(r)
        PROVE  OnceInv'
    <2>1. Event(r) \in Events
      BY <1>5, AtMessage DEF Forward
    <2>2. /\ Remember(r, Marked(seen[r], Event(r))) /\ sent' = sent \cup Forwarded(r)
          /\ Event(r) \in ToSet(seen[r]) => Event(r) \in stale[r]
      BY <1>5 DEF Forward, Remembered
    <2>3. Event(r) \in ToSet(Marked(seen[r], Event(r)))
      BY <1>0, <2>1, MarkedElements
    <2>4. /\ forgotten[r][Event(r)] \in Nat /\ forgotten'[r][Event(r)] \in Nat
          /\ forgotten'[r][Event(r)] = IF Event(r) \in stale[r] THEN forgotten[r][Event(r)] + 1
                                       ELSE forgotten[r][Event(r)]
          /\ Event(r) \in ToSet(seen'[r])
      BY <1>0, <1>4, <2>1, <2>2, <2>3
    <2>5. forgotten[r][Event(r)] + (IF Event(r) \in ToSet(seen[r]) THEN 1 ELSE 0) + 1
              <= forgotten'[r][Event(r)] + (IF Event(r) \in ToSet(seen'[r]) THEN 1 ELSE 0)
      BY <2>2, <2>4
    <2>6. \A q \in Reactors, e \in Events : q # r \/ e # Event(r) =>
              \/ forgotten'[q][e] = forgotten[q][e] /\ (e \in ToSet(seen[q]) => e \in ToSet(seen'[q]))
              \/ forgotten'[q][e] = forgotten[q][e] + 1
      BY <1>4, <2>2
    <2>7. forgotten' \in [Reactors -> [Events -> Nat]]
      BY <1>4, <2>2
    <2> QED BY <2>1, <2>2, <2>5, <2>6, <2>7, OnceForward
  <1>6. ASSUME NEW r \in Reactors, ForwardError(r)
        PROVE  OnceInv'
    <2>1. Event(r) \in Events
      BY <1>6, AtMessage DEF ForwardError
    <2>2. CASE Remember(r, Without(seen[r], Event(r))) /\ UNCHANGED sent
      <3>1. Event(r) \in ToSet(seen[r]) => Event(r) \in stale[r]
        BY <1>6 DEF ForwardError, Remembered
      <3>2. \A d \in ToSet(seen[r]) : d # Event(r) => d \in ToSet(Without(seen[r], Event(r)))
        BY <1>0, WithoutElements
      <3>3. \A q \in Reactors, e \in Events :
                \/ forgotten'[q][e] = forgotten[q][e] /\ (e \in ToSet(seen[q]) => e \in ToSet(seen'[q]))
                \/ forgotten'[q][e] = forgotten[q][e] + 1
        BY <1>4, <2>2, <3>1, <3>2
      <3>4. forgotten' \in [Reactors -> [Events -> Nat]]
        BY <1>4, <2>2
      <3> QED BY <2>2, <3>3, <3>4, OnceFrame
    <2>3. CASE /\ sent' = sent \cup Forwarded(r)
               /\ seen' = [seen EXCEPT ![r] = Without(@, Event(r))]
               /\ forgotten' = [forgotten EXCEPT ![r][Event(r)] =
                                    @ + IF Event(r) \in ToSet(seen[r]) THEN 2 ELSE 1]
      <3>1. \A d \in ToSet(seen[r]) : d # Event(r) => d \in ToSet(Without(seen[r], Event(r)))
        BY <1>0, WithoutElements
      <3>2. PICK n \in {1, 2} : n = IF Event(r) \in ToSet(seen[r]) THEN 2 ELSE 1
        OBVIOUS
      <3>3. forgotten' = [forgotten EXCEPT ![r] =
                              [forgotten[r] EXCEPT ![Event(r)] = forgotten[r][Event(r)] + n]]
        BY <1>0, <2>1, <2>3, <3>2
      <3>4. /\ forgotten' \in [Reactors -> [Events -> Nat]]
            /\ forgotten'[r][Event(r)] = forgotten[r][Event(r)] + n
            /\ \A q \in Reactors, e \in Events :
                   q # r \/ e # Event(r) => forgotten'[q][e] = forgotten[q][e]
        <4>1. forgotten[r] \in [Events -> Nat] /\ forgotten[r][Event(r)] + n \in Nat
          BY <1>0, <2>1
        <4>2. [forgotten[r] EXCEPT ![Event(r)] = forgotten[r][Event(r)] + n] \in [Events -> Nat]
          BY <4>1
        <4> QED BY <1>0, <2>1, <3>3, <4>1, <4>2
      <3>5. \A q \in Reactors, e \in Events : q # r \/ e # Event(r) =>
                (e \in ToSet(seen[q]) => e \in ToSet(seen'[q]))
        <4>1. seen' = [seen EXCEPT ![r] = Without(seen[r], Event(r))]
          BY <1>0, <2>3
        <4> QED BY <1>0, <3>1, <4>1
      <3>6. forgotten[r][Event(r)] \in Nat /\ forgotten'[r][Event(r)] \in Nat
        BY <1>0, <2>1, <3>4
      <3>7. forgotten[r][Event(r)] + (IF Event(r) \in ToSet(seen[r]) THEN 1 ELSE 0) + 1
                <= forgotten'[r][Event(r)] + (IF Event(r) \in ToSet(seen'[r]) THEN 1 ELSE 0)
        BY <3>2, <3>4, <3>6
      <3> QED BY <2>1, <2>3, <3>4, <3>5, <3>7, OnceForward
    <2> QED BY <1>6, <2>2, <2>3 DEF ForwardError
  <1>7. ASSUME NEW r \in Reactors, Stop(r) \/ Crash(r)
        PROVE  OnceInv'
    <2>1. Down(r) /\ UNCHANGED sent
      BY <1>7 DEF Stop, Crash
    <2>2. /\ forgotten' \in [Reactors -> [Events -> Nat]]
          /\ \A q \in Reactors, e \in Events :
                \/ forgotten'[q][e] = forgotten[q][e] /\ (e \in ToSet(seen[q]) => e \in ToSet(seen'[q]))
                \/ forgotten'[q][e] = forgotten[q][e] + 1
      BY <1>0, <2>1 DEF Down
    <2> QED BY <2>1, <2>2, OnceFrame
  <1>8. CASE UNCHANGED vars
    BY <1>1, <1>8 DEF vars, memory
  <1> QED BY <1>2, <1>3, <1>5, <1>6, <1>7, <1>8 DEF Next, Run

-----------------------------------------------------------------------------
\* Before anything is published.
LEMMA InitReactor == Init => ReactorInv
  <1> SUFFICES ASSUME Init
               PROVE  ReactorInv
    OBVIOUS
  <1>1. TypeOK
    <2>1. Len(log) = 0 /\ ToSet(<<>>) = {} /\ Len(<<>>) = 0
      BY DEF Init, ToSet
    <2>2. DedupMax \in Nat /\ MaxFaults \in Nat
      BY ReactorAssumption
    <2> QED BY <2>1, <2>2, EmptySeq DEF Init, TypeOK
  <1>2. StreamInv
    BY DEF Init, StreamInv
  <1>3. HandledInv
    <2>1. ToSet(<<>>) = {}
      BY DEF ToSet
    <2> QED BY <2>1 DEF Init, HandledInv
  <1>4. OnceInv
    <2>1. \A r \in Reactors, e \in Events : ForwardsOf(r, e) = {}
      BY DEF Init, ForwardsOf
    <2>2. Cardinality({}) = 0 /\ IsFiniteSet({})
      BY FS_EmptySet
    <2>3. \A r \in Reactors, e \in Events : forgotten[r][e] = 0 /\ e \notin ToSet(seen[r])
      BY DEF Init, ToSet
    <2>4. ASSUME NEW r \in Reactors, NEW e \in Events
          PROVE  Cardinality(ForwardsOf(r, e))
                     <= forgotten[r][e] + (IF e \in ToSet(seen[r]) THEN 1 ELSE 0)
      <3>1. Cardinality(ForwardsOf(r, e)) = 0 /\ forgotten[r][e] = 0 /\ e \notin ToSet(seen[r])
        BY <2>1, <2>2, <2>3, Zenon
      <3> QED BY <3>1
    <2> QED BY <2>2, <2>4 DEF Init, OnceInv
  <1> QED BY <1>1, <1>2, <1>3, <1>4 DEF ReactorInv

\* Every state of the reactors is in order.
THEOREM ReactorInvariant == Spec => []ReactorInv
  <1>1. ReactorInv /\ [Next]_vars => ReactorInv'
    BY TypeStep, StreamStep, HandledStep, OnceStep DEF ReactorInv
  <1> QED BY InitReactor, <1>1, PTL DEF Spec

\* A message that was delivered and is not pending any more was forwarded,
\* whatever errors, duplicates, timeouts, crashes and restarts came between
\* (_handle_event_safely, _safe_ack).
THEOREM AcknowledgedIsForwarded == Spec => []AckedIsForwarded
  <1>1. ReactorInv => AckedIsForwarded
    BY DEF ReactorInv, StreamInv, Handled, AckedIsForwarded
  <1> QED BY ReactorInvariant, <1>1, PTL

\* A reactor forwards an event again only after it lost its id or could not
\* record it (_is_duplicate, _mark_processed).
THEOREM MemoryIsAlwaysSound == Spec => []MemoryIsSound
  <1>1. ReactorInv => ForwardedOncePerMemory
    <2> SUFFICES ASSUME ReactorInv, NEW r \in Reactors, NEW e \in Events
                 PROVE  Cardinality(ForwardsOf(r, e)) <= 1 + forgotten[r][e]
      BY DEF ForwardedOncePerMemory, ForwardsOf
    <2>1. IsFiniteSet(ForwardsOf(r, e))
      BY FS_Subset DEF ReactorInv, OnceInv, ForwardsOf
    <2>2. Cardinality(ForwardsOf(r, e)) \in Nat /\ forgotten[r][e] \in Nat
      BY <2>1, FS_CardinalityType DEF ReactorInv, OnceInv
    <2>3. Cardinality(ForwardsOf(r, e))
              <= forgotten[r][e] + (IF e \in ToSet(seen[r]) THEN 1 ELSE 0)
      BY DEF ReactorInv, OnceInv
    <2> QED BY <2>2, <2>3
  <1>2. ReactorInv => MemoryIsSound
    BY <1>1 DEF ReactorInv, MemoryIsSound
  <1> QED BY ReactorInvariant, <1>2, PTL
=============================================================================
