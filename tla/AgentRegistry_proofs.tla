------------------------ MODULE AgentRegistry_proofs ------------------------
(***************************************************************************)
(* Proofs about AgentRegistry: a retired agent never comes back, and an    *)
(* enrolment that no other overtakes leaves one active agent, for any      *)
(* number of daemons, sweepers and agents.                                 *)
(***************************************************************************)
EXTENDS AgentRegistry, WellFoundedInduction, TLAPS

\* A set of naturals has a least element.
LEMMA LeastNatural ==
    ASSUME NEW T, T \subseteq Nat, T # {}
    PROVE  \E m \in T : \A k \in T : m <= k
  <1>1. PICK R : IsWellFoundedOn(R, Nat) /\ \A k, m \in Nat : k < m => <<k, m>> \in R
    <2>1. \A k, m \in Nat : k < m => <<k, m>> \in OpToRel(<, Nat)
      BY Zenon DEF OpToRel
    <2> QED BY <2>1, NatLessThanWellFounded, Zenon
  <1>2. PICK m \in T : \A k \in T : ~(<<k, m>> \in R)
    <2>1. IsWellFoundedOn(R, Nat)
      BY <1>1, Zenon
    <2> QED BY <2>1, WFMin
  <1>3. ASSUME NEW k \in T PROVE m <= k
    <2>1. k \in Nat /\ m \in Nat
      OBVIOUS
    <2>2. ~(k < m)
      BY <1>1, <1>2, <2>1
    <2> QED BY <2>1, <2>2
  <1> QED BY <1>3

\* There is a newest one among agents.
LEMMA NewestAgent ==
    ASSUME NEW as, as \subseteq Agents, as # {}
    PROVE  Newest(as) \in as
  <1>0. MaxAgents \in Nat
    BY RegistryAssumption
  <1>1. ASSUME NEW a \in as PROVE a \in Nat /\ a <= MaxAgents /\ MaxAgents - a \in Nat
    <2>1. a \in 1..MaxAgents
      BY DEF Agents
    <2> QED BY <1>0, <2>1
  <1> DEFINE T == {MaxAgents - a : a \in as}
  <1>2. T \subseteq Nat /\ T # {}
    BY <1>1
  <1> HIDE DEF T
  <1>3. PICK m \in T : \A k \in T : m <= k
    BY <1>2, LeastNatural
  <1>4. PICK a \in as : m = MaxAgents - a
    BY <1>3 DEF T
  <1>5. ASSUME NEW b \in as PROVE b <= a
    <2>1. MaxAgents - a <= MaxAgents - b
      BY <1>3, <1>4 DEF T
    <2>2. MaxAgents \in Nat /\ a \in Nat /\ b \in Nat
      BY <1>0, <1>1
    <2> QED BY <2>1, <2>2
  <1> QED BY <1>4, <1>5 DEF Newest

-----------------------------------------------------------------------------
(* The inductive invariant.                                                  *)
Row == [active : BOOLEAN, status : Statuses, beat : Beats]

\* Types, and a row exists only for a number that has been given.
RowsInv ==
    /\ TypeOK
    /\ pc = [x \in Daemons \cup Sweepers |-> pc[x]] /\ me = [p \in Daemons |-> me[p]]
    /\ \A a \in Agents : /\ rows[a].active => rows[a].status # "none"
                         /\ rows[a].status # "none" => a <= issued

\* What an enrolment under way has read is still true of the rows: a new agent has
\* no row yet and nobody else has its number; the agents it has found exist, and
\* while no other enrolment has committed they are all the active ones.
EnrolmentIsSound(p) ==
    /\ me[p] \in Agents
    /\ IF found[p] = {} THEN rows[me[p]].status = "none" ELSE me[p] \in found[p]
    /\ \A a \in found[p] : rows[a].status # "none"
    /\ p \in lone => Active(rows) \subseteq found[p]
EnrolmentsInv ==
    /\ \A p \in Daemons : pc[p] = "enrolling" => EnrolmentIsSound(p)
    /\ \A p, q \in Daemons :
         (/\ p # q /\ pc[p] = "enrolling" /\ pc[q] = "enrolling"
          /\ found[p] = {} /\ found[q] = {})
             => me[p] # me[q]
    /\ \A p \in renew : pc[p] = "enrolling" /\ found[p] # {}

\* Who reports or is swept has a row.
ReportsInv ==
    /\ \A p \in Daemons : pc[p] = "up" => me[p] \in Agents /\ rows[me[p]].status # "none"
    /\ \A w \in Sweepers : \A a \in Agents : writes[w][a] # "none" => rows[a].status # "none"

RegistryInv == RowsInv /\ EnrolmentsInv /\ ReportsInv

LEMMA RegistryInit == Init => RegistryInv
  <1> SUFFICES ASSUME Init PROVE RegistryInv
    OBVIOUS
  <1>1. MaxAgents \in Nat /\ MaxFaults \in Nat /\ Daemons \cap Sweepers = {}
    BY RegistryAssumption
  <1>2. /\ NoRow \in Row /\ NoRow.status = "none" /\ ~NoRow.active
        /\ NoWrites \in [Agents -> Statuses] /\ \A a \in Agents : NoWrites[a] = "none"
    BY DEF NoRow, Row, NoWrites, Statuses, Beats
  <1>3. /\ \A p \in Daemons : pc[p] = "down" /\ me[p] = 0 /\ found[p] = {}
        /\ \A w \in Sweepers : pc[w] = "idle" /\ writes[w] = NoWrites
        /\ \A a \in Agents : rows[a] = NoRow
        /\ renew = {} /\ issued = 0 /\ lone = {} /\ faults = 0
    BY <1>1 DEF Init
  <1>4. TypeOK
    <2>1. rows \in [Agents -> Row] /\ found \in [Daemons -> SUBSET Agents]
      BY <1>2 DEF Init
    <2>2. writes \in [Sweepers -> [Agents -> Statuses]]
      BY <1>2 DEF Init
    <2> QED BY <1>1, <1>3, <2>1, <2>2 DEF TypeOK, Row
  <1>5. RowsInv
    BY <1>2, <1>3, <1>4 DEF RowsInv, Init
  <1>6. EnrolmentsInv
    <2>1. \A p \in Daemons : ~(pc[p] = "enrolling")
      BY <1>3
    <2> QED BY <1>3, <2>1, Zenon DEF EnrolmentsInv
  <1>7. ReportsInv
    <2>1. ASSUME NEW w \in Sweepers, NEW a \in Agents
          PROVE  writes[w][a] = "none"
      BY <1>2, <1>3
    <2> QED BY <1>3, <2>1 DEF ReportsInv
  <1> QED BY <1>5, <1>6, <1>7 DEF RegistryInv

\* A step that makes no row and no agent active, and changes no enrolment.
Gentle ==
    /\ rows' \in [Agents -> Row]
    /\ \A a \in Agents : /\ rows'[a].status = "none" <=> rows[a].status = "none"
                         /\ rows'[a].active => rows[a].active

LEMMA GentleStep ==
    ASSUME RegistryInv, Gentle, UNCHANGED enrolments,
           pc' = [x \in Daemons \cup Sweepers |-> pc'[x]],
           \A p \in Daemons : pc'[p] = pc[p],
           \A w \in Sweepers : pc'[w] \in {"idle", "sweeping"},
           writes' \in [Sweepers -> [Agents -> Statuses]], faults' \in 0..MaxFaults,
           \A w \in Sweepers : \A a \in Agents : writes'[w][a] # "none" => rows[a].status # "none"
    PROVE  RegistryInv'
  <1>1. issued' = issued /\ me' = me /\ found' = found /\ renew' = renew /\ lone' = lone
    BY DEF enrolments
  <1>2. RowsInv'
    <2>1. TypeOK'
      BY <1>1 DEF RegistryInv, RowsInv, TypeOK, Gentle, Row
    <2> QED BY <1>1, <2>1 DEF RegistryInv, RowsInv, Gentle
  <1>3. ASSUME NEW p \in Daemons, pc'[p] = "enrolling"
        PROVE  EnrolmentIsSound(p)'
    <2>1. EnrolmentIsSound(p)
      BY <1>3 DEF RegistryInv, EnrolmentsInv
    <2>2. Active(rows') \subseteq Active(rows)
      BY DEF Active, Gentle
    <2> QED BY <1>1, <2>1, <2>2 DEF EnrolmentIsSound, Gentle, Active, RegistryInv, RowsInv, TypeOK
  <1>4. EnrolmentsInv'
    <2>1. \A p, q \in Daemons :
            (/\ p # q /\ pc'[p] = "enrolling" /\ pc'[q] = "enrolling"
             /\ found'[p] = {} /\ found'[q] = {})
                => me'[p] # me'[q]
      BY <1>1 DEF RegistryInv, EnrolmentsInv
    <2>2. \A p \in renew' : pc'[p] = "enrolling" /\ found'[p] # {}
      BY <1>1 DEF RegistryInv, RowsInv, TypeOK, EnrolmentsInv
    <2> QED BY <1>3, <2>1, <2>2 DEF EnrolmentsInv
  <1>5. ReportsInv'
    BY <1>1 DEF RegistryInv, ReportsInv, Gentle
  <1> QED BY <1>2, <1>4, <1>5 DEF RegistryInv

-----------------------------------------------------------------------------
(* The steps.                                                                *)
LEMMA EnrollReadStep ==
    ASSUME RegistryInv, NEW p \in Daemons, EnrollRead(p)
    PROVE  RegistryInv'
  <1>1. /\ TypeOK /\ pc = [x \in Daemons \cup Sweepers |-> pc[x]] /\ me = [q \in Daemons |-> me[q]]
        /\ pc[p] = "down" /\ rows' = rows /\ writes' = writes /\ faults' = faults
        /\ found' = [found EXCEPT ![p] = Active(rows)] /\ lone' = lone \cup {p}
        /\ pc' = [pc EXCEPT ![p] = "enrolling"]
    BY DEF EnrollRead, RegistryInv, RowsInv
  <1>2. /\ MaxAgents \in Nat /\ Daemons \cap Sweepers = {} /\ issued \in Nat /\ issued <= MaxAgents
        /\ \A q \in Daemons : me[q] \in Nat /\ me[q] <= issued
    BY <1>1, RegistryAssumption DEF TypeOK
  <1>3. Active(rows) \subseteq Agents /\ \A a \in Active(rows) : rows[a].status # "none"
    BY DEF Active, RegistryInv, RowsInv
  <1>4. /\ issued' \in Nat /\ issued <= issued' /\ issued' <= MaxAgents
        /\ me' = [me EXCEPT ![p] = me'[p]] /\ me'[p] \in Agents /\ me'[p] <= issued'
        /\ renew \subseteq renew' /\ renew' \subseteq renew \cup {p}
        /\ IF Active(rows) = {} THEN me'[p] = issued + 1 /\ renew' = renew
           ELSE me'[p] \in Active(rows)
    <2>1. CASE Active(rows) = {}
      <3>1. issued < MaxAgents /\ issued' = issued + 1 /\ me' = [me EXCEPT ![p] = issued + 1] /\ renew' = renew
        BY <2>1 DEF EnrollRead
      <3>2. me'[p] = issued + 1 /\ issued + 1 \in 1..MaxAgents
        BY <1>1, <1>2, <3>1
      <3>3. me' = [me EXCEPT ![p] = me'[p]]
        BY <3>1, <3>2, Zenon
      <3>4. issued' \in Nat /\ issued <= issued' /\ issued' <= MaxAgents /\ me'[p] \in Agents /\ me'[p] <= issued'
        BY <1>2, <3>1, <3>2 DEF Agents
      <3> QED BY <2>1, <3>1, <3>2, <3>3, <3>4
    <2>2. CASE Active(rows) # {}
      <3>1. /\ issued' = issued /\ me' = [me EXCEPT ![p] = Newest(Active(rows))]
            /\ renew \subseteq renew' /\ renew' \subseteq renew \cup {p}
        BY <2>2 DEF EnrollRead
      <3>2. Newest(Active(rows)) \in Active(rows)
        BY <1>3, <2>2, NewestAgent
      <3>3. me'[p] = Newest(Active(rows))
        BY <1>1, <3>1
      <3>4. me'[p] <= issued
        BY <1>3, <3>2, <3>3 DEF RegistryInv, RowsInv
      <3>5. me' = [me EXCEPT ![p] = me'[p]]
        BY <3>1, <3>3, Zenon
      <3>6. issued' \in Nat /\ issued <= issued' /\ issued' <= MaxAgents
        BY <1>2, <3>1
      <3> QED BY <1>3, <2>2, <3>1, <3>2, <3>3, <3>4, <3>5, <3>6
    <2> QED BY <2>1, <2>2
  <1>5. /\ \A q \in Daemons : q # p => pc'[q] = pc[q] /\ me'[q] = me[q] /\ found'[q] = found[q]
        /\ pc'[p] = "enrolling" /\ found'[p] = Active(rows)
        /\ \A w \in Sweepers : pc'[w] = pc[w]
        /\ pc' = [x \in Daemons \cup Sweepers |-> pc'[x]] /\ me' = [q \in Daemons |-> me'[q]]
        /\ found' \in [Daemons -> SUBSET Agents]
    <2>1. pc' = [x \in Daemons \cup Sweepers |-> pc'[x]] /\ me' = [q \in Daemons |-> me'[q]]
      BY <1>1, <1>4
    <2>2. \A q \in Daemons : q # p => me'[q] = me[q]
      BY <1>1, <1>4
    <2>3. /\ \A q \in Daemons : q # p => pc'[q] = pc[q]
          /\ pc'[p] = "enrolling" /\ \A w \in Sweepers : pc'[w] = pc[w]
      BY <1>1, <1>2
    <2>4. /\ \A q \in Daemons : q # p => found'[q] = found[q]
          /\ found'[p] = Active(rows) /\ found' \in [Daemons -> SUBSET Agents]
      BY <1>1, <1>3 DEF TypeOK
    <2> QED BY <2>1, <2>2, <2>3, <2>4
  <1>6. RowsInv'
    <2>1. \A q \in Daemons : pc'[q] \in {"down", "enrolling", "up"} /\ me'[q] \in 0..issued'
      <3>1. ASSUME NEW q \in Daemons PROVE me'[q] \in Nat /\ me'[q] <= issued'
        <4>1. CASE q = p
          <5>1. me'[p] \in 1..MaxAgents
            BY <1>4 DEF Agents
          <5> QED BY <1>4, <4>1, <5>1
        <4> QED BY <1>2, <1>4, <1>5, <4>1
      <3> QED BY <1>1, <1>4, <1>5, <3>1 DEF TypeOK
    <2>2. issued' \in 0..MaxAgents
      BY <1>2, <1>4
    <2>3. TypeOK'
      BY <1>1, <1>4, <1>5, <2>1, <2>2 DEF TypeOK
    <2>4. ASSUME NEW a \in Agents, rows[a].status # "none" PROVE a <= issued'
      <3>1. a <= issued /\ a \in 1..MaxAgents
        BY <2>4 DEF RegistryInv, RowsInv, Agents
      <3> QED BY <1>2, <1>4, <3>1
    <2> QED BY <1>1, <1>5, <2>3, <2>4 DEF RegistryInv, RowsInv
  <1>7. issued + 1 \in Agents => rows[issued + 1].status = "none"
    BY <1>2 DEF RegistryInv, RowsInv
  <1>8. ASSUME NEW q \in Daemons, pc'[q] = "enrolling"
        PROVE  EnrolmentIsSound(q)'
    <2>1. CASE q = p
      BY <1>1, <1>3, <1>4, <1>5, <1>7, <2>1 DEF EnrolmentIsSound
    <2>2. CASE q # p
      <3>1. EnrolmentIsSound(q)
        BY <1>5, <1>8, <2>2 DEF RegistryInv, EnrolmentsInv
      <3> QED BY <1>1, <1>5, <2>2, <3>1 DEF EnrolmentIsSound, Active
    <2> QED BY <2>1, <2>2
  <1>9. EnrolmentsInv'
    <2>1. ASSUME NEW q \in Daemons, NEW r \in Daemons, q # r, pc'[q] = "enrolling", pc'[r] = "enrolling",
                 found'[q] = {}, found'[r] = {}
          PROVE  me'[q] # me'[r]
      <3>1. CASE q = p
        <4>1. me'[q] = issued + 1 /\ me'[r] <= issued /\ me'[r] \in Nat
          BY <1>2, <1>4, <1>5, <2>1, <3>1
        <4> QED BY <1>2, <4>1
      <3>2. CASE r = p
        <4>1. me'[r] = issued + 1 /\ me'[q] <= issued /\ me'[q] \in Nat
          BY <1>2, <1>4, <1>5, <2>1, <3>2
        <4> QED BY <1>2, <4>1
      <3>3. CASE q # p /\ r # p
        BY <1>5, <2>1, <3>3 DEF RegistryInv, EnrolmentsInv
      <3> QED BY <3>1, <3>2, <3>3
    <2>2. ASSUME NEW q \in renew' PROVE pc'[q] = "enrolling" /\ found'[q] # {}
      <3>1. CASE q \in renew
        <4>1. q \in Daemons /\ pc[q] = "enrolling" /\ found[q] # {}
          BY <1>1, <3>1 DEF RegistryInv, EnrolmentsInv, TypeOK
        <4> QED BY <1>1, <1>5, <4>1
      <3>2. CASE q \notin renew
        BY <1>4, <1>5, <2>2, <3>2
      <3> QED BY <3>1, <3>2
    <2>3. \A q, r \in Daemons :
            (/\ q # r /\ pc'[q] = "enrolling" /\ pc'[r] = "enrolling"
             /\ found'[q] = {} /\ found'[r] = {})
                => me'[q] # me'[r]
      BY <2>1
    <2>4. \A q \in Daemons : pc'[q] = "enrolling" => EnrolmentIsSound(q)'
      BY <1>8
    <2>5. \A q \in renew' : pc'[q] = "enrolling" /\ found'[q] # {}
      BY <2>2
    <2> QED BY <2>3, <2>4, <2>5, Zenon DEF EnrolmentsInv
  <1>10. ReportsInv'
    <2>1. UNCHANGED <<rows, writes>>
      BY <1>1
    <2>2. \A q \in Daemons : pc'[q] = "up" => me'[q] \in Agents /\ rows[me'[q]].status # "none"
      BY <1>5 DEF RegistryInv, ReportsInv
    <2>3. \A w \in Sweepers : \A a \in Agents : writes[w][a] # "none" => rows[a].status # "none"
      BY DEF RegistryInv, ReportsInv
    <2> QED BY <2>1, <2>2, <2>3 DEF ReportsInv
  <1> QED BY <1>6, <1>9, <1>10 DEF RegistryInv

\* What an enrolment makes of the rows: its own agent has one now, the others it
\* has found are retired, and the rest is as it was.
LEMMA EnrolledRows ==
    ASSUME RegistryInv, NEW p \in Daemons, EnrollCommit(p)
    PROVE  /\ me[p] \in Agents
           /\ rows' \in [Agents -> Row] /\ rows'[me[p]].status # "none"
           /\ \A a \in Agents : rows[a].status # "none" => rows'[a].status # "none"
           /\ \A a \in Agents : a # me[p] /\ rows'[a].status # "none" => rows[a].status # "none"
           /\ \A a \in Agents : rows'[a].active /\ ~rows[a].active => a = me[p] /\ found[p] = {}
           /\ \A a \in found[p] : a # me[p] => ~rows'[a].active
           /\ found[p] = {} => rows[me[p]].status = "none"
  <1>1. EnrolmentIsSound(p) /\ (p \in renew => found[p] # {}) /\ found[p] \subseteq Agents
    BY DEF EnrollCommit, RegistryInv, RowsInv, EnrolmentsInv, TypeOK
  <1>2. rows \in [Agents -> Row] /\ rows' = [b \in Agents |-> Enrolled(p, b)]
    BY DEF EnrollCommit, RegistryInv, RowsInv, TypeOK, Row
  <1>3. ASSUME NEW b \in Agents, b = me[p], found[p] = {}
        PROVE  Enrolled(p, b) = [active |-> TRUE, status |-> "online", beat |-> "never"]
    BY <1>1, <1>3 DEF Enrolled
  <1>4. ASSUME NEW b \in Agents, b = me[p], found[p] # {}
        PROVE  Enrolled(p, b) \in {rows[b], [rows[b] EXCEPT !.status = "online"]}
    <2>1. CASE p \in renew
      <3>1. Enrolled(p, b) = [rows[b] EXCEPT !.status = "online"]
        BY <1>4, <2>1 DEF Enrolled
      <3> QED BY <3>1
    <2>2. CASE p \notin renew
      <3>1. Enrolled(p, b) = rows[b]
        BY <1>4, <2>2 DEF Enrolled
      <3> QED BY <3>1
    <2> QED BY <2>1, <2>2
  <1>5. ASSUME NEW b \in Agents, b # me[p], b \in found[p]
        PROVE  Enrolled(p, b) = [rows[b] EXCEPT !.active = FALSE, !.status = "retired"]
    BY <1>5 DEF Enrolled
  <1>6. ASSUME NEW b \in Agents, b # me[p], b \notin found[p]
        PROVE  Enrolled(p, b) = rows[b]
    BY <1>6 DEF Enrolled
  <1>7. \A b \in Agents : rows'[b] = Enrolled(p, b)
    BY <1>2
  <1>8. ASSUME NEW b \in Agents
        PROVE  /\ rows'[b] \in Row
               /\ rows[b].status # "none" \/ b = me[p] => rows'[b].status # "none"
               /\ b # me[p] /\ rows'[b].status # "none" => rows[b].status # "none"
               /\ rows'[b].active /\ ~rows[b].active => b = me[p] /\ found[p] = {}
               /\ b \in found[p] /\ b # me[p] => ~rows'[b].active
    <2>1. rows[b] \in Row /\ (b \in found[p] => rows[b].status # "none") /\ rows'[b] = Enrolled(p, b)
      BY <1>1, <1>2, <1>7 DEF EnrolmentIsSound
    <2>2. CASE b = me[p] /\ found[p] = {}
      <3>1. rows'[b] = [active |-> TRUE, status |-> "online", beat |-> "never"]
        BY <1>3, <2>1, <2>2
      <3>2. rows'[b] \in Row /\ rows'[b].status = "online"
        BY <3>1 DEF Row, Statuses, Beats
      <3> QED BY <2>2, <3>2
    <2>3. CASE b = me[p] /\ found[p] # {}
      <3>1. rows[b].status # "none"
        BY <1>1, <2>1, <2>3 DEF EnrolmentIsSound
      <3> QED BY <1>4, <2>1, <2>3, <3>1 DEF Row, Statuses, Beats
    <2>4. CASE b # me[p] /\ b \in found[p]
      <3>1. rows'[b] = [rows[b] EXCEPT !.active = FALSE, !.status = "retired"]
        BY <1>5, <2>1, <2>4
      <3>2. rows'[b] \in Row /\ rows'[b].status = "retired" /\ rows'[b].active = FALSE
        BY <2>1, <3>1 DEF Row, Statuses
      <3> QED BY <2>1, <2>4, <3>2
    <2>5. CASE b # me[p] /\ b \notin found[p]
      BY <1>6, <2>1, <2>5
    <2> QED BY <2>2, <2>3, <2>4, <2>5
  <1>9. rows' \in [Agents -> Row]
    BY <1>2, <1>7, <1>8
  <1> QED BY <1>1, <1>8, <1>9 DEF EnrolmentIsSound

LEMMA EnrollCommitStep ==
    ASSUME RegistryInv, NEW p \in Daemons, EnrollCommit(p)
    PROVE  RegistryInv'
  <1>1. /\ TypeOK /\ pc = [x \in Daemons \cup Sweepers |-> pc[x]] /\ me = [q \in Daemons |-> me[q]]
        /\ pc[p] = "enrolling" /\ issued' = issued /\ me' = me /\ writes' = writes /\ faults' = faults
        /\ found' = [found EXCEPT ![p] = {}] /\ renew' = renew \ {p} /\ lone' = {}
        /\ pc' = [pc EXCEPT ![p] = "up"] /\ Daemons \cap Sweepers = {}
    BY RegistryAssumption DEF EnrollCommit, RegistryInv, RowsInv
  <1>2. /\ me[p] \in Agents
        /\ rows' \in [Agents -> Row] /\ rows'[me[p]].status # "none"
        /\ \A a \in Agents : rows[a].status # "none" => rows'[a].status # "none"
        /\ \A a \in Agents : a # me[p] /\ rows'[a].status # "none" => rows[a].status # "none"
        /\ \A a \in Agents : rows'[a].active /\ ~rows[a].active => a = me[p] /\ found[p] = {}
    BY EnrolledRows
  <1>3. /\ \A q \in Daemons : q # p => pc'[q] = pc[q] /\ found'[q] = found[q]
        /\ pc'[p] = "up" /\ \A w \in Sweepers : pc'[w] = pc[w]
        /\ pc' = [x \in Daemons \cup Sweepers |-> pc'[x]]
        /\ found' \in [Daemons -> SUBSET Agents]
    BY <1>1 DEF TypeOK
  <1>4. RowsInv'
    <2>1. TypeOK'
      <3>1. \A q \in Daemons : pc'[q] \in {"down", "enrolling", "up"} /\ me'[q] \in 0..issued'
        BY <1>1, <1>3 DEF TypeOK
      <3>2. rows' \in [Agents -> [active : BOOLEAN, status : Statuses, beat : Beats]]
        BY <1>2 DEF Row
      <3> QED BY <1>1, <1>3, <3>1, <3>2 DEF TypeOK
    <2>2. ASSUME NEW a \in Agents
          PROVE  /\ rows'[a].active => rows'[a].status # "none"
                 /\ rows'[a].status # "none" => a <= issued'
      <3>1. me[p] <= issued
        BY <1>1 DEF TypeOK
      <3> QED BY <1>1, <1>2, <3>1 DEF RegistryInv, RowsInv
    <2> QED BY <1>1, <1>3, <2>1, <2>2 DEF RowsInv
  <1>5. ASSUME NEW q \in Daemons, pc'[q] = "enrolling"
        PROVE  EnrolmentIsSound(q)'
    <2>1. q # p /\ pc[q] = "enrolling" /\ found'[q] = found[q] /\ EnrolmentIsSound(q) /\ found[q] \subseteq Agents
      BY <1>1, <1>3, <1>5 DEF RegistryInv, EnrolmentsInv, TypeOK
    <2>2. found[q] = {} => me[q] # me[p]
      <3>1. CASE found[p] = {}
        BY <1>1, <2>1, <3>1 DEF RegistryInv, EnrolmentsInv
      <3>2. CASE found[p] # {}
        <4>1. rows[me[p]].status # "none"
          BY <1>1, <3>2 DEF RegistryInv, EnrolmentsInv, EnrolmentIsSound
        <4> QED BY <2>1, <4>1 DEF EnrolmentIsSound
      <3> QED BY <3>1, <3>2
    <2>3. me'[q] \in Agents /\ q \notin lone'
      BY <1>1, <2>1 DEF EnrolmentIsSound
    <2>4. IF found'[q] = {} THEN rows'[me'[q]].status = "none" ELSE me'[q] \in found'[q]
      BY <1>1, <1>2, <2>1, <2>2 DEF EnrolmentIsSound
    <2>5. \A a \in found'[q] : rows'[a].status # "none"
      BY <1>2, <2>1 DEF EnrolmentIsSound
    <2> QED BY <2>3, <2>4, <2>5 DEF EnrolmentIsSound
  <1>6. EnrolmentsInv'
    <2>1. \A q \in Daemons : pc'[q] = "enrolling" => EnrolmentIsSound(q)'
      BY <1>5
    <2>2. \A q, r \in Daemons :
            (/\ q # r /\ pc'[q] = "enrolling" /\ pc'[r] = "enrolling"
             /\ found'[q] = {} /\ found'[r] = {})
                => me'[q] # me'[r]
      <3>1. \A q \in Daemons : pc'[q] = "enrolling" => pc[q] = "enrolling" /\ found'[q] = found[q]
        BY <1>3
      <3> QED BY <1>1, <3>1 DEF RegistryInv, EnrolmentsInv
    <2>3. \A q \in renew' : pc'[q] = "enrolling" /\ found'[q] # {}
      <3>1. ASSUME NEW q \in renew' PROVE pc'[q] = "enrolling" /\ found'[q] # {}
        <4>1. q \in renew /\ q # p /\ q \in Daemons
          BY <1>1, <3>1 DEF TypeOK
        <4> QED BY <1>3, <4>1 DEF RegistryInv, EnrolmentsInv
      <3> QED BY <3>1
    <2> QED BY <2>1, <2>2, <2>3, Zenon DEF EnrolmentsInv
  <1>7. ReportsInv'
    <2>1. ASSUME NEW q \in Daemons, pc'[q] = "up"
          PROVE  me'[q] \in Agents /\ rows'[me'[q]].status # "none"
      BY <1>1, <1>2, <1>3, <2>1 DEF RegistryInv, ReportsInv
    <2>2. \A w \in Sweepers : \A a \in Agents : writes'[w][a] # "none" => rows'[a].status # "none"
      BY <1>1, <1>2 DEF RegistryInv, ReportsInv
    <2> QED BY <2>1, <2>2 DEF ReportsInv
  <1> QED BY <1>4, <1>6, <1>7 DEF RegistryInv

LEMMA ReportStep ==
    ASSUME RegistryInv, NEW p \in Daemons, Report(p)
    PROVE  RegistryInv' /\ Gentle
  <1>1. /\ me[p] \in Agents /\ rows[me[p]].status # "none" /\ rows \in [Agents -> Row]
        /\ rows' = [rows EXCEPT ![me[p]].beat = "fresh", ![me[p]].status = "online"]
        /\ pc' = pc /\ UNCHANGED enrolments /\ writes' = writes /\ faults' = faults
    BY DEF Report, RegistryInv, RowsInv, ReportsInv, TypeOK, Row
  <1>2. Gentle
    <2>1. PICK new \in Row : new = [rows[me[p]] EXCEPT !.beat = "fresh", !.status = "online"]
      BY <1>1 DEF Row, Beats, Statuses
    <2>2. rows' = [rows EXCEPT ![me[p]] = new]
      BY <1>1, <2>1
    <2>3. new.status # "none" /\ new.active = rows[me[p]].active
      BY <1>1, <2>1 DEF Row
    <2> QED BY <1>1, <2>2, <2>3 DEF Gentle
  <1> QED BY <1>1, <1>2, GentleStep DEF RegistryInv, RowsInv, ReportsInv, TypeOK

LEMMA RetireStep ==
    ASSUME RegistryInv, NEW a \in Agents, Retire(a)
    PROVE  RegistryInv' /\ Gentle
  <1>1. /\ rows[a].status # "none" /\ rows \in [Agents -> Row]
        /\ rows' = [rows EXCEPT ![a].active = FALSE, ![a].status = "retired"]
        /\ pc' = pc /\ UNCHANGED enrolments /\ writes' = writes /\ faults' = faults
    BY DEF Retire, RegistryInv, RowsInv, TypeOK, Row
  <1>2. Gentle
    <2>1. PICK new \in Row : new = [rows[a] EXCEPT !.active = FALSE, !.status = "retired"]
      BY <1>1 DEF Row, Statuses
    <2>2. rows' = [rows EXCEPT ![a] = new]
      BY <1>1, <2>1
    <2>3. new.status # "none" /\ ~new.active
      BY <1>1, <2>1 DEF Row
    <2> QED BY <1>1, <2>2, <2>3 DEF Gentle
  <1> QED BY <1>1, <1>2, GentleStep DEF RegistryInv, RowsInv, ReportsInv, TypeOK

LEMMA AgeStep ==
    ASSUME RegistryInv, NEW a \in Agents, Age(a)
    PROVE  RegistryInv' /\ Gentle
  <1>1. /\ rows \in [Agents -> Row]
        /\ rows' = [rows EXCEPT ![a].beat = IF @ = "fresh" THEN "late" ELSE "old"]
        /\ pc' = pc /\ UNCHANGED enrolments /\ writes' = writes /\ faults' = faults
    BY DEF Age, RegistryInv, RowsInv, TypeOK, Row
  <1>2. Gentle
    <2>1. PICK b \in Beats : b = IF rows[a].beat = "fresh" THEN "late" ELSE "old"
      BY DEF Beats
    <2>2. PICK new \in Row : new = [rows[a] EXCEPT !.beat = b]
      BY <1>1 DEF Row
    <2>3. rows' = [rows EXCEPT ![a] = new]
      BY <1>1, <2>1, <2>2
    <2>4. new.status = rows[a].status /\ new.active = rows[a].active
      BY <1>1, <2>2 DEF Row
    <2> QED BY <1>1, <2>3, <2>4 DEF Gentle
  <1> QED BY <1>1, <1>2, GentleStep DEF RegistryInv, RowsInv, ReportsInv, TypeOK

LEMMA DieStep ==
    ASSUME RegistryInv, NEW p \in Daemons, Die(p)
    PROVE  RegistryInv'
  <1>1. /\ TypeOK /\ pc = [x \in Daemons \cup Sweepers |-> pc[x]] /\ me = [q \in Daemons |-> me[q]]
        /\ pc[p] = "up" /\ pc' = [pc EXCEPT ![p] = "down"] /\ me' = [me EXCEPT ![p] = 0]
        /\ rows' = rows /\ issued' = issued /\ found' = found /\ renew' = renew /\ lone' = lone
        /\ writes' = writes /\ faults' = faults /\ Daemons \cap Sweepers = {} /\ MaxAgents \in Nat
    BY RegistryAssumption DEF Die, RegistryInv, RowsInv
  <1>2. /\ \A q \in Daemons : q # p => pc'[q] = pc[q] /\ me'[q] = me[q]
        /\ pc'[p] = "down" /\ me'[p] = 0 /\ \A w \in Sweepers : pc'[w] = pc[w]
        /\ pc' = [x \in Daemons \cup Sweepers |-> pc'[x]] /\ me' = [q \in Daemons |-> me'[q]]
    BY <1>1
  <1>3. RowsInv'
    <2>1. issued \in Nat
      BY <1>1 DEF TypeOK
    <2>2. \A q \in Daemons : pc'[q] \in {"down", "enrolling", "up"} /\ me'[q] \in 0..issued'
      BY <1>1, <1>2, <2>1 DEF TypeOK
    <2>3. TypeOK'
      BY <1>1, <1>2, <2>2 DEF TypeOK
    <2> QED BY <1>1, <1>2, <2>3 DEF RegistryInv, RowsInv
  <1>4. \A q \in Daemons : pc'[q] = "enrolling" => q # p /\ pc[q] = "enrolling" /\ me'[q] = me[q]
    BY <1>2
  <1>5. EnrolmentsInv'
    <2>1. ASSUME NEW q \in Daemons, pc'[q] = "enrolling" PROVE EnrolmentIsSound(q)'
      <3>1. EnrolmentIsSound(q) /\ me'[q] = me[q]
        BY <1>4, <2>1 DEF RegistryInv, EnrolmentsInv
      <3> QED BY <1>1, <3>1 DEF EnrolmentIsSound, Active
    <2>2. \A q, r \in Daemons :
            (/\ q # r /\ pc'[q] = "enrolling" /\ pc'[r] = "enrolling"
             /\ found'[q] = {} /\ found'[r] = {})
                => me'[q] # me'[r]
      BY <1>1, <1>4 DEF RegistryInv, EnrolmentsInv
    <2>3. \A q \in renew' : pc'[q] = "enrolling" /\ found'[q] # {}
      <3>1. \A q \in renew : q \in Daemons /\ q # p /\ pc[q] = "enrolling" /\ found[q] # {}
        BY <1>1 DEF RegistryInv, EnrolmentsInv, TypeOK
      <3> QED BY <1>1, <1>2, <3>1
    <2> QED BY <2>1, <2>2, <2>3 DEF EnrolmentsInv
  <1>6. ReportsInv'
    BY <1>1, <1>2 DEF RegistryInv, ReportsInv
  <1> QED BY <1>3, <1>5, <1>6 DEF RegistryInv

\* What a sweep reads are agents with a row, and what it derives is a status.
LEMMA SweepReadStep ==
    ASSUME RegistryInv, NEW w \in Sweepers, SweepRead(w)
    PROVE  RegistryInv' /\ Gentle
  <1> DEFINE new == [a \in Agents |-> IF a \in Swept /\ DerivedStatus(rows[a]) # rows[a].status
                                      THEN DerivedStatus(rows[a]) ELSE "none"]
  <1>1. /\ TypeOK /\ rows \in [Agents -> Row] /\ pc = [x \in Daemons \cup Sweepers |-> pc[x]]
        /\ pc' = [pc EXCEPT ![w] = "sweeping"] /\ writes' = [writes EXCEPT ![w] = new]
        /\ rows' = rows /\ UNCHANGED enrolments /\ faults' = faults
        /\ Daemons \cap Sweepers = {}
    BY RegistryAssumption DEF SweepRead, RegistryInv, RowsInv, TypeOK, Row
  <1>2. \A row \in Row : DerivedStatus(row) \in Statuses
    <2>1. ASSUME NEW row \in Row PROVE DerivedStatus(row) \in Statuses
      <3>1. CASE ~row.active \/ row.status = "retired"
        BY <3>1 DEF DerivedStatus, Statuses
      <3>2. CASE ~(~row.active \/ row.status = "retired")
        <4>1. CASE row.beat = "fresh"
          BY <3>2, <4>1 DEF DerivedStatus, Statuses
        <4>2. CASE row.beat = "late"
          BY <3>2, <4>2 DEF DerivedStatus, Statuses
        <4>3. CASE row.beat # "fresh" /\ row.beat # "late"
          BY <3>2, <4>3 DEF DerivedStatus, Statuses
        <4> QED BY <4>1, <4>2, <4>3
      <3> QED BY <3>1, <3>2
    <2> QED BY <2>1
  <1>3. \A a \in Agents : new[a] \in Statuses /\ (new[a] # "none" => a \in Swept)
    BY <1>1, <1>2 DEF Statuses
  <1>4. new \in [Agents -> Statuses] /\ \A a \in Agents : new[a] # "none" => rows[a].status # "none"
    BY <1>3 DEF Swept, Active, RegistryInv, RowsInv
  <1> HIDE DEF new
  <1>5. /\ pc' = [x \in Daemons \cup Sweepers |-> pc'[x]]
        /\ \A p \in Daemons : pc'[p] = pc[p]
        /\ \A v \in Sweepers : pc'[v] \in {"idle", "sweeping"}
    BY <1>1 DEF TypeOK
  <1>6. /\ writes' \in [Sweepers -> [Agents -> Statuses]]
        /\ \A v \in Sweepers : \A a \in Agents : writes'[v][a] # "none" => rows[a].status # "none"
    BY <1>1, <1>4 DEF TypeOK, RegistryInv, ReportsInv
  <1>7. Gentle
    BY <1>1 DEF Gentle
  <1> QED BY <1>1, <1>5, <1>6, <1>7, GentleStep DEF TypeOK

LEMMA NothingToWrite ==
    ASSUME RegistryInv, NEW w \in Sweepers, pc' = [pc EXCEPT ![w] = "idle"],
           writes' = [writes EXCEPT ![w] = NoWrites]
    PROVE  /\ pc' = [x \in Daemons \cup Sweepers |-> pc'[x]]
           /\ \A p \in Daemons : pc'[p] = pc[p]
           /\ \A v \in Sweepers : pc'[v] \in {"idle", "sweeping"}
           /\ writes' \in [Sweepers -> [Agents -> Statuses]]
           /\ \A v \in Sweepers : \A a \in Agents : writes'[v][a] # "none" => rows[a].status # "none"
  <1>1. /\ TypeOK /\ pc = [x \in Daemons \cup Sweepers |-> pc[x]]
        /\ Daemons \cap Sweepers = {}
    BY RegistryAssumption DEF RegistryInv, RowsInv
  <1>2. NoWrites \in [Agents -> Statuses] /\ \A a \in Agents : NoWrites[a] = "none"
    BY DEF NoWrites, Statuses
  <1>3. /\ pc' = [x \in Daemons \cup Sweepers |-> pc'[x]]
        /\ \A p \in Daemons : pc'[p] = pc[p]
        /\ \A v \in Sweepers : pc'[v] \in {"idle", "sweeping"}
    BY <1>1 DEF TypeOK
  <1>4. /\ writes' \in [Sweepers -> [Agents -> Statuses]]
        /\ \A v \in Sweepers : \A a \in Agents : writes'[v][a] # "none" => rows[a].status # "none"
    BY <1>1, <1>2 DEF TypeOK, RegistryInv, ReportsInv
  <1> QED BY <1>3, <1>4

\* A sweep writes to agents that have had a row when it read them, and a row stays.
LEMMA SweepCommitStep ==
    ASSUME RegistryInv, NEW w \in Sweepers, SweepCommit(w)
    PROVE  RegistryInv' /\ Gentle
  <1>1. /\ TypeOK /\ rows \in [Agents -> Row]
        /\ rows' = [a \in Agents |-> IF writes[w][a] = "none" THEN rows[a]
                                     ELSE [rows[a] EXCEPT !.status = writes[w][a]]]
        /\ pc' = [pc EXCEPT ![w] = "idle"] /\ writes' = [writes EXCEPT ![w] = NoWrites]
        /\ UNCHANGED enrolments /\ faults' = faults
    BY DEF SweepCommit, RegistryInv, RowsInv, TypeOK, Row
  <1>2. ASSUME NEW a \in Agents
        PROVE  /\ rows'[a] \in Row
               /\ rows'[a].status = "none" <=> rows[a].status = "none"
               /\ rows'[a].active => rows[a].active
    <2>1. CASE writes[w][a] = "none"
      BY <1>1, <2>1
    <2>2. CASE writes[w][a] # "none"
      <3>1. writes[w][a] \in Statuses /\ rows[a] \in Row /\ rows[a].status # "none"
        BY <1>1, <2>2 DEF TypeOK, RegistryInv, ReportsInv
      <3>2. rows'[a] = [rows[a] EXCEPT !.status = writes[w][a]]
        BY <1>1, <2>2
      <3>3. rows'[a] \in Row /\ rows'[a].status = writes[w][a] /\ rows'[a].active = rows[a].active
        BY <3>1, <3>2 DEF Row
      <3> QED BY <2>2, <3>1, <3>3
    <2> QED BY <2>1, <2>2
  <1>3. rows' \in [Agents -> Row]
    BY <1>1, <1>2
  <1>4. Gentle
    BY <1>2, <1>3 DEF Gentle
  <1>5. faults' \in 0..MaxFaults
    BY <1>1 DEF TypeOK
  <1> QED BY <1>1, <1>4, <1>5, NothingToWrite, GentleStep

LEMMA SweepFailsStep ==
    ASSUME RegistryInv, NEW w \in Sweepers, SweepFails(w)
    PROVE  RegistryInv' /\ Gentle
  <1>1. /\ TypeOK /\ rows \in [Agents -> Row] /\ MaxFaults \in Nat
        /\ rows' = rows /\ faults < MaxFaults /\ faults' = faults + 1
        /\ pc' = [pc EXCEPT ![w] = "idle"] /\ writes' = [writes EXCEPT ![w] = NoWrites]
        /\ UNCHANGED enrolments
    BY RegistryAssumption DEF SweepFails, RegistryInv, RowsInv, TypeOK, Row
  <1>2. Gentle
    BY <1>1 DEF Gentle
  <1>3. faults' \in 0..MaxFaults
    BY <1>1 DEF TypeOK
  <1> QED BY <1>1, <1>2, <1>3, NothingToWrite, GentleStep

-----------------------------------------------------------------------------
(* The theorems.                                                             *)

\* A retired agent stays retired and a lone enrolment leaves one active agent: what a
\* single step may do to the activity of the agents.
NoReturn == \A a \in Agents : (rows[a].status # "none" /\ ~rows[a].active) => ~rows'[a].active
OneAgent ==
    \A p \in Daemons :
        (pc[p] = "enrolling" /\ pc'[p] = "up" /\ p \in lone) => Active(rows') \subseteq {me[p]}

LEMMA RegistryStep ==
    ASSUME RegistryInv, [Next]_vars
    PROVE  RegistryInv' /\ NoReturn /\ OneAgent
  <1>0. /\ rows \in [Agents -> Row] /\ pc = [x \in Daemons \cup Sweepers |-> pc[x]]
        /\ Daemons \cap Sweepers = {}
    BY RegistryAssumption DEF RegistryInv, RowsInv, TypeOK, Row
  <1>1. ASSUME Gentle PROVE NoReturn
    BY <1>1 DEF Gentle, NoReturn
  <1>2. ASSUME NEW p \in Daemons, EnrollRead(p)
        PROVE  RegistryInv' /\ NoReturn /\ OneAgent
    <2>1. RegistryInv'
      BY <1>2, EnrollReadStep
    <2>2. rows' = rows /\ \A q \in Daemons : pc'[q] \in {pc[q], "enrolling"}
      BY <1>0, <1>2 DEF EnrollRead
    <2> QED BY <2>1, <2>2 DEF NoReturn, OneAgent
  <1>3. ASSUME NEW p \in Daemons, EnrollCommit(p)
        PROVE  RegistryInv' /\ NoReturn /\ OneAgent
    <2>1. RegistryInv'
      BY <1>3, EnrollCommitStep
    <2>2. /\ \A a \in Agents : rows'[a].active /\ ~rows[a].active => a = me[p] /\ found[p] = {}
          /\ \A a \in found[p] : a # me[p] => ~rows'[a].active
          /\ found[p] = {} => rows[me[p]].status = "none"
      BY <1>3, EnrolledRows
    <2>3. NoReturn
      BY <2>2 DEF NoReturn
    <2>4. ASSUME NEW q \in Daemons, pc[q] = "enrolling", pc'[q] = "up", q \in lone
          PROVE  Active(rows') \subseteq {me[q]}
      <3>1. q = p
        BY <1>0, <1>3, <2>4 DEF EnrollCommit
      <3>2. Active(rows) \subseteq found[p]
        BY <2>4, <3>1 DEF RegistryInv, EnrolmentsInv, EnrolmentIsSound
      <3>3. ASSUME NEW a \in Active(rows') PROVE a = me[p]
        BY <2>2, <3>2, <3>3 DEF Active
      <3> QED BY <3>1, <3>3
    <2>5. OneAgent
      BY <2>4 DEF OneAgent
    <2> QED BY <2>1, <2>3, <2>5
  <1>4. ASSUME NEW p \in Daemons, Report(p)
        PROVE  RegistryInv' /\ NoReturn /\ OneAgent
    <2>1. RegistryInv' /\ Gentle
      BY <1>4, ReportStep
    <2>2. pc' = pc
      BY <1>4 DEF Report
    <2> QED BY <1>1, <2>1, <2>2 DEF OneAgent
  <1>5. ASSUME NEW p \in Daemons, Die(p)
        PROVE  RegistryInv' /\ NoReturn /\ OneAgent
    <2>1. RegistryInv'
      BY <1>5, DieStep
    <2>2. rows' = rows /\ \A q \in Daemons : pc'[q] \in {pc[q], "down"}
      BY <1>0, <1>5 DEF Die
    <2> QED BY <2>1, <2>2 DEF NoReturn, OneAgent
  <1>6. ASSUME NEW a \in Agents, Retire(a) \/ Age(a)
        PROVE  RegistryInv' /\ NoReturn /\ OneAgent
    <2>1. RegistryInv' /\ Gentle
      BY <1>6, RetireStep, AgeStep
    <2>2. pc' = pc
      BY <1>6 DEF Retire, Age
    <2> QED BY <1>1, <2>1, <2>2 DEF OneAgent
  <1>7. ASSUME NEW w \in Sweepers, Sweep(w)
        PROVE  RegistryInv' /\ NoReturn /\ OneAgent
    <2>1. RegistryInv' /\ Gentle
      BY <1>7, SweepReadStep, SweepCommitStep, SweepFailsStep DEF Sweep
    <2>2. \A q \in Daemons : pc'[q] = pc[q]
      BY <1>0, <1>7 DEF Sweep, SweepRead, SweepCommit, SweepFails
    <2> QED BY <1>1, <2>1, <2>2 DEF OneAgent
  <1>8. CASE UNCHANGED vars
    <2>1. UNCHANGED <<rows, pc, writes, faults>> /\ UNCHANGED enrolments
      BY <1>8 DEF vars
    <2>2. Gentle
      BY <1>0, <2>1 DEF Gentle
    <2>3. RegistryInv'
      BY <1>0, <2>1, <2>2, GentleStep DEF RegistryInv, RowsInv, ReportsInv, TypeOK
    <2> QED BY <1>1, <2>1, <2>2, <2>3 DEF OneAgent
  <1> QED BY <1>2, <1>3, <1>4, <1>5, <1>6, <1>7, <1>8 DEF Next

\* The rows, the enrolments under way and the sweeps fit together in every state.
THEOREM RegistryInvariant == Spec => []RegistryInv
  <1>1. Init => RegistryInv
    BY RegistryInit
  <1>2. RegistryInv /\ [Next]_vars => RegistryInv'
    BY RegistryStep
  <1> QED BY <1>1, <1>2, PTL DEF Spec

\* Every variable has its type, and a retired agent never becomes active again,
\* whatever enrolments (enroll_agent) and sweeps (check_staleness) have read before
\* it was retired and write afterwards.
THEOREM RetirementIsFinal == Spec => RowsAreSound
  <1>1. RegistryInv => TypeOK
    BY DEF RegistryInv, RowsInv
  <1>2. RegistryInv /\ [Next]_vars => [NoReturn]_vars
    BY RegistryStep
  <1>3. Spec => [][NoReturn]_vars
    BY <1>2, RegistryInvariant, PTL DEF Spec
  <1>4. Spec => RetiredIsFinal
    BY <1>3 DEF RetiredIsFinal, NoReturn
  <1> QED BY <1>1, <1>4, RegistryInvariant, PTL DEF RowsAreSound

\* An enrolment during which no other one commits leaves at most its own agent active.
THEOREM LoneEnrolmentsLeaveOneAgent == Spec => EnrolmentLeavesOneAgent
  <1>1. RegistryInv /\ [Next]_vars => [OneAgent]_vars
    BY RegistryStep
  <1>2. Spec => [][OneAgent]_vars
    BY <1>1, RegistryInvariant, PTL DEF Spec
  <1> QED BY <1>2 DEF EnrolmentLeavesOneAgent, OneAgent
=============================================================================
