--------------------------- MODULE MCMotor_proofs ---------------------------
(***************************************************************************)
(* Proofs about the parts of the motor and of the calls to the language    *)
(* models, for every number of callers, jobs, runs, hosts and policies.    *)
(* The parts share no state, so each has an inductive invariant of its     *)
(* own, and a step of the whole is a step of each part or leaves it alone. *)
(***************************************************************************)
EXTENDS MCMotor, SequencesExt, SequenceTheorems, FiniteSetTheorems, FunctionTheorems, TLAPS

-----------------------------------------------------------------------------
(* Sequences without repetitions, which waiting callers form.              *)

\* The elements of a sequence.
LEMMA Elements ==
    ASSUME NEW S, NEW s \in Seq(S)
    PROVE  /\ \A i \in 1..Len(s) : s[i] \in ToSet(s)
           /\ \A x \in ToSet(s) : x \in S /\ \E i \in 1..Len(s) : s[i] = x
  <1>1. DOMAIN s = 1..Len(s)
    BY LenProperties
  <1>2. ToSet(s) = {s[i] : i \in 1..Len(s)}
    BY <1>1 DEF ToSet
  <1>3. \A i \in 1..Len(s) : s[i] \in S
    BY ElementOfSeq
  <1> QED BY <1>2, <1>3

\* No element occurs twice.
Distinct(s) == \A i, k \in 1..Len(s) : s[i] = s[k] => i = k
\* The first n elements.
First(s, n) == {s[i] : i \in 1..n}

\* Where the elements are when one has been taken out.
LEMMA RemoveAtIndices ==
    ASSUME NEW S, NEW s \in Seq(S), NEW p \in 1..Len(s)
    PROVE  /\ RemoveAt(s, p) \in Seq(S) /\ Len(RemoveAt(s, p)) = Len(s) - 1
           /\ \A j \in 1..(Len(s) - 1) : RemoveAt(s, p)[j] = IF j < p THEN s[j] ELSE s[j + 1]
  <1>1. Len(s) \in Nat /\ p \in Nat /\ \A j \in 1..Len(s) : s[j] \in S
    BY LenProperties, ElementOfSeq
  <1>2. PICK a, b : a = SubSeq(s, 1, p - 1) /\ b = SubSeq(s, p + 1, Len(s))
    OBVIOUS
  <1>3. a \in Seq(S) /\ Len(a) = p - 1 /\ \A j \in 1..(p - 1) : a[j] = s[j]
    <2>1. \A j \in 1..(p - 1) : s[j] \in S
      BY <1>1
    <2> QED BY <1>1, <1>2, <2>1, SubSeqProperties
  <1>4. b \in Seq(S) /\ Len(b) = Len(s) - p /\ \A j \in 1..(Len(s) - p) : b[j] = s[p + j]
    <2>1. \A j \in (p + 1)..Len(s) : s[j] \in S
      BY <1>1
    <2> QED BY <1>1, <1>2, <2>1, SubSeqProperties
  <1>5. /\ a \o b \in Seq(S) /\ Len(a \o b) = Len(a) + Len(b)
        /\ \A j \in 1..(Len(a) + Len(b)) :
               (a \o b)[j] = IF j <= Len(a) THEN a[j] ELSE b[j - Len(a)]
    BY <1>3, <1>4, ConcatProperties
  <1>6. PICK r \in Seq(S) : r = a \o b
    BY <1>5
  <1>7. Len(r) = Len(s) - 1 /\ RemoveAt(s, p) = r
    <2>1. (p - 1) + (Len(s) - p) = Len(s) - 1
      BY <1>1
    <2>2. Len(r) = (p - 1) + (Len(s) - p)
      BY <1>3, <1>4, <1>5, <1>6, Zenon
    <2> QED BY <1>2, <1>6, <2>1, <2>2, Zenon DEF RemoveAt
  <1>8. ASSUME NEW j \in 1..(Len(s) - 1)
        PROVE  r[j] = IF j < p THEN s[j] ELSE s[j + 1]
    <2>1. r[j] = IF j <= p - 1 THEN a[j] ELSE b[j - (p - 1)]
      BY <1>1, <1>3, <1>4, <1>5, <1>6
    <2>2. CASE j < p
      BY <1>1, <1>3, <2>1, <2>2
    <2>3. CASE ~(j < p)
      <3>1. j - (p - 1) \in 1..(Len(s) - p) /\ p + (j - (p - 1)) = j + 1
        BY <1>1, <2>3
      <3> QED BY <1>1, <1>4, <2>1, <2>3, <3>1
    <2> QED BY <2>2, <2>3
  <1> QED BY <1>6, <1>7, <1>8

\* An element taken out of a sequence without repetitions: of the first ones those
\* that were in front of it, or all but that one, are the first ones that remain.
LEMMA RemoveAtFirst ==
    ASSUME NEW S, NEW s \in Seq(S), Distinct(s), NEW p \in 1..Len(s)
    PROVE  /\ Distinct(RemoveAt(s, p))
           /\ \A n \in p..Len(s) : First(RemoveAt(s, p), n - 1) = First(s, n) \ {s[p]}
           /\ \A n \in 0..(p - 1) : First(RemoveAt(s, p), n) = First(s, n)
  <1>1. PICK r \in Seq(S) :
            /\ r = RemoveAt(s, p) /\ Len(r) = Len(s) - 1
            /\ \A j \in 1..(Len(s) - 1) : r[j] = IF j < p THEN s[j] ELSE s[j + 1]
    BY RemoveAtIndices
  <1>2. Len(s) \in Nat
    BY LenProperties
  <1>3. Distinct(r)
    BY <1>1, <1>2 DEF Distinct
  <1>4. ASSUME NEW n \in p..Len(s)
        PROVE  First(r, n - 1) = First(s, n) \ {s[p]}
    <2>1. ASSUME NEW j \in 1..(n - 1)
          PROVE  r[j] \in First(s, n) \ {s[p]}
      <3>1. j \in 1..(Len(s) - 1) /\ j \in 1..n /\ j + 1 \in 1..n
        BY <1>2
      <3>2. CASE j < p
        <4>1. r[j] = s[j] /\ s[j] # s[p]
          BY <1>1, <1>2, <3>1, <3>2 DEF Distinct
        <4> QED BY <3>1, <4>1 DEF First
      <3>3. CASE ~(j < p)
        <4>1. r[j] = s[j + 1]
          BY <1>1, <3>1, <3>3
        <4>2. s[j + 1] # s[p]
          BY <1>2, <3>1, <3>3 DEF Distinct
        <4> QED BY <3>1, <4>1, <4>2 DEF First
      <3> QED BY <3>2, <3>3
    <2>2. ASSUME NEW i \in 1..n, s[i] # s[p]
          PROVE  s[i] \in First(r, n - 1)
      <3>1. CASE i < p
        <4>1. i \in 1..(Len(s) - 1) /\ i \in 1..(n - 1)
          BY <1>2, <3>1
        <4>2. r[i] = s[i]
          BY <1>1, <3>1, <4>1
        <4> QED BY <4>1, <4>2 DEF First
      <3>2. CASE i > p
        <4>1. i - 1 \in 1..(Len(s) - 1) /\ i - 1 \in 1..(n - 1) /\ (i - 1) + 1 = i /\ ~(i - 1 < p)
          BY <1>2, <3>2
        <4>2. r[i - 1] = s[i]
          BY <1>1, <4>1
        <4> QED BY <4>1, <4>2 DEF First
      <3> QED BY <1>2, <2>2, <3>1, <3>2
    <2> QED BY <2>1, <2>2 DEF First
  <1>5. ASSUME NEW n \in 0..(p - 1)
        PROVE  First(r, n) = First(s, n)
    <2>1. \A j \in 1..n : r[j] = s[j]
      BY <1>1, <1>2
    <2> QED BY <2>1 DEF First
  <1> QED BY <1>1, <1>3, <1>4, <1>5

\* A new element appended: nothing occurs twice, and the first ones stay.
LEMMA AppendFirst ==
    ASSUME NEW S, NEW s \in Seq(S), Distinct(s), NEW e \in S, e \notin ToSet(s)
    PROVE  /\ Append(s, e) \in Seq(S) /\ Distinct(Append(s, e)) /\ Len(Append(s, e)) = Len(s) + 1
           /\ \A n \in 0..Len(s) : First(Append(s, e), n) = First(s, n)
  <1>1. PICK t \in Seq(S) :
            /\ t = Append(s, e) /\ Len(t) = Len(s) + 1 /\ t[Len(s) + 1] = e
            /\ \A i \in 1..Len(s) : t[i] = s[i]
    <2>1. Append(s, e) \in Seq(S) /\ Len(Append(s, e)) = Len(s) + 1
      BY AppendProperties
    <2>2. Append(s, e)[Len(s) + 1] = e /\ \A i \in 1..Len(s) : Append(s, e)[i] = s[i]
      BY AppendProperties
    <2> QED BY <2>1, <2>2, Zenon
  <1>2. Len(s) \in Nat /\ \A i \in 1..Len(s) : s[i] # e
    BY LenProperties, Elements
  <1>3. Distinct(t)
    BY <1>1, <1>2 DEF Distinct
  <1>4. ASSUME NEW n \in 0..Len(s)
        PROVE  First(t, n) = First(s, n)
    <2>1. \A i \in 1..n : t[i] = s[i]
      BY <1>1, <1>2
    <2> QED BY <2>1 DEF First
  <1> QED BY <1>1, <1>3, <1>4

-----------------------------------------------------------------------------
(* The chaos engine.                                                       *)

\* The instance of the module counts as the theorems about finite sets do.
LEMMA ChaosCounts == ASSUME NEW S PROVE Chaos!Cardinality(S) = Cardinality(S)
  BY DEF Chaos!Cardinality, Cardinality

\* What a call of run_experiment may be.
ChaosRun == [pc : {"new", "refused", "approval", "simulate", "done"},
             target : Targets \cup {"free"}, dry : BOOLEAN]

\* A run of the chaos engine that is registered holds the lock of its target and
\* sleeps in the simulation; a run that abort() caught is marked for good.
ChaosInv ==
    /\ run \in [Runs -> ChaosRun]
    /\ locks \in [Targets -> Runs \cup {"free"}]
    /\ running \subseteq Runs /\ IsFiniteSet(running) /\ Cardinality(running) <= MaxConcurrent
    /\ \A r \in Runs : r \in running <=> run[r].pc = "simulate"
    /\ \A r \in running : run[r].target \in Targets
    /\ \A t \in Targets : \A r \in Runs : locks[t] = r <=> r \in running /\ run[r].target = t
    /\ killed \subseteq aborted
    /\ \A h \in history : h.run \in Runs /\ run[h.run].pc = "done"
    /\ Chaos!KillSwitchWins

\* The chaos engine starts without runs, locks and records.
LEMMA ChaosInit == Chaos!Init => ChaosInv
  <1> SUFFICES ASSUME Chaos!Init PROVE ChaosInv
    OBVIOUS
  <1> USE DEF Chaos!Init, Chaos!New, Chaos!Free
  <1>1. IsFiniteSet(running) /\ Cardinality(running) <= MaxConcurrent
    BY FS_EmptySet, MotorAssumption
  <1>2. run \in [Runs -> ChaosRun]
    <2>1. Chaos!New \in ChaosRun
      BY DEF ChaosRun
    <2> QED BY <2>1, Zenon
  <1>3. locks \in [Targets -> Runs \cup {"free"}]
    OBVIOUS
  <1>4. \A t \in Targets : \A r \in Runs : locks[t] = r <=> r \in running /\ run[r].target = t
    BY MotorAssumption
  <1>5. \A r \in Runs : r \in running <=> run[r].pc = "simulate"
    OBVIOUS
  <1> QED BY <1>1, <1>2, <1>3, <1>4, <1>5 DEF ChaosInv, Chaos!KillSwitchWins

\* A run that only moves on without being registered leaves the others alone.
LEMMA ChaosMoves ==
    ASSUME ChaosInv, NEW r \in Runs, NEW new \in ChaosRun,
           run[r].pc \in {"new", "approval"}, new.pc \in {"refused", "approval"},
           run' = [run EXCEPT ![r] = new],
           UNCHANGED <<running, locks, aborted, killed, history>>
    PROVE  ChaosInv'
  <1> USE DEF ChaosInv
  <1>1. run' \in [Runs -> ChaosRun]
    OBVIOUS
  <1>2. \A x \in Runs : run'[x] = IF x = r THEN new ELSE run[x]
    OBVIOUS
  <1>3. r \notin running
    OBVIOUS
  <1>4. \A h \in history : h.run # r
    OBVIOUS
  <1>5. \A x \in Runs : x \in running <=> run'[x].pc = "simulate"
    BY <1>2, <1>3
  <1>6. \A x \in running : run'[x] = run[x]
    BY <1>2, <1>3
  <1>7. \A t \in Targets : \A x \in Runs : locks[t] = x <=> x \in running /\ run'[x].target = t
    BY <1>6
  <1> QED BY <1>1, <1>2, <1>4, <1>5, <1>6, <1>7 DEF Chaos!KillSwitchWins

\* A run that is started registers itself and takes a lock nobody holds.
LEMMA ChaosStarts ==
    ASSUME ChaosInv, NEW r \in Runs, NEW new \in ChaosRun,
           run[r].pc = "new", new.pc = "simulate", new.target \in Targets,
           Cardinality(running) < MaxConcurrent, locks[new.target] = "free",
           run' = [run EXCEPT ![r] = new],
           running' = running \cup {r},
           locks' = [locks EXCEPT ![new.target] = r],
           UNCHANGED <<aborted, killed, history>>
    PROVE  ChaosInv'
  <1> USE DEF ChaosInv
  <1>1. run' \in [Runs -> ChaosRun] /\ locks' \in [Targets -> Runs \cup {"free"}]
    OBVIOUS
  <1>2. \A x \in Runs : run'[x] = IF x = r THEN new ELSE run[x]
    OBVIOUS
  <1>3. r \notin running
    OBVIOUS
  <1>4. IsFiniteSet(running') /\ Cardinality(running') <= MaxConcurrent
    <2>1. PICK n \in Nat : n = Cardinality(running)
      BY FS_CardinalityType
    <2>2. IsFiniteSet(running \cup {r}) /\ Cardinality(running \cup {r}) = n + 1
      BY <1>3, <2>1, FS_AddElement
    <2>3. n + 1 <= MaxConcurrent
      BY <2>1, MotorAssumption
    <2> QED BY <2>2, <2>3
  <1>5. \A h \in history : h.run # r
    OBVIOUS
  <1>6. \A x \in Runs : x \in running' <=> run'[x].pc = "simulate"
    BY <1>2, <1>3
  <1>7. \A x \in running' : run'[x].target \in Targets
    BY <1>2
  <1>8. \A t \in Targets : \A x \in Runs : locks'[t] = x <=> x \in running' /\ run'[x].target = t
    <2> TAKE t \in Targets
    <2> TAKE x \in Runs
    <2>1. CASE t = new.target
      <3>1. locks'[t] = r
        BY <2>1
      <3>2. x # r => ~(x \in running /\ run[x].target = t)
        BY <2>1, MotorAssumption
      <3> QED BY <1>2, <2>1, <3>1, <3>2
    <2>2. CASE t # new.target
      <3>1. locks'[t] = locks[t]
        BY <2>2
      <3>2. locks[t] # r
        BY <1>3
      <3> QED BY <1>2, <1>3, <2>2, <3>1, <3>2
    <2> QED BY <2>1, <2>2
  <1> QED BY <1>1, <1>2, <1>4, <1>5, <1>6, <1>7, <1>8 DEF Chaos!KillSwitchWins

\* A run that ends gives its place and its lock back, and is a success only if
\* nobody aborted it.
LEMMA ChaosEnds ==
    ASSUME ChaosInv, NEW r \in Runs, NEW outcome \in BOOLEAN, r \in aborted => ~outcome,
           run[r].pc = "simulate", Chaos!Leave(r),
           history' = history \cup {[run |-> r, success |-> outcome]},
           UNCHANGED <<aborted, killed>>
    PROVE  ChaosInv'
  <1> USE DEF ChaosInv, Chaos!Leave, Chaos!Free
  <1> DEFINE new == [run[r] EXCEPT !.pc = "done"]
  <1>1. new \in ChaosRun /\ new.pc = "done"
    BY DEF ChaosRun
  <1>2. run' = [run EXCEPT ![r] = new]
    OBVIOUS
  <1> HIDE DEF new
  <1>3. r \in running /\ run[r].target \in Targets
    OBVIOUS
  <1>4. run' \in [Runs -> ChaosRun] /\ locks' \in [Targets -> Runs \cup {"free"}]
    BY <1>1, <1>2
  <1>5. \A x \in Runs : run'[x] = IF x = r THEN new ELSE run[x]
    BY <1>2
  <1>6. IsFiniteSet(running') /\ Cardinality(running') <= MaxConcurrent
    <2>1. PICK n \in Nat : n = Cardinality(running)
      BY FS_CardinalityType
    <2>2. IsFiniteSet(running \ {r}) /\ Cardinality(running \ {r}) = n - 1
      BY <1>3, <2>1, FS_RemoveElement
    <2>3. n - 1 <= MaxConcurrent
      BY <2>1, MotorAssumption
    <2> QED BY <2>2, <2>3
  <1>7. \A x \in Runs : x \in running' <=> run'[x].pc = "simulate"
    BY <1>1, <1>5
  <1>8. \A x \in running' : run'[x].target \in Targets
    BY <1>5
  <1>9. \A t \in Targets : \A x \in Runs : locks'[t] = x <=> x \in running' /\ run'[x].target = t
    <2> TAKE t \in Targets
    <2> TAKE x \in Runs
    <2>1. CASE t = run[r].target
      <3>1. locks'[t] = "free" /\ locks[t] = r
        BY <1>3, <2>1
      <3>2. x # r => ~(x \in running /\ run[x].target = t)
        BY <3>1
      <3> QED BY <1>5, <3>1, <3>2, MotorAssumption
    <2>2. CASE t # run[r].target
      <3>1. locks'[t] = locks[t]
        BY <2>2
      <3> QED BY <1>5, <2>2, <3>1
    <2> QED BY <2>1, <2>2
  <1>10. \A h \in history' : h.run \in Runs /\ run'[h.run].pc = "done"
    BY <1>1, <1>5
  <1>11. \A h \in history' : h.run \in killed' => ~h.success
    <2>1. \A h \in history : h.run \in killed => ~h.success
      BY DEF Chaos!KillSwitchWins
    <2>2. r \in killed => ~outcome
      OBVIOUS
    <2> QED BY <2>1, <2>2
  <1> QED BY <1>4, <1>6, <1>7, <1>8, <1>9, <1>10, <1>11 DEF Chaos!KillSwitchWins

\* Every step of the chaos engine keeps its invariant.
LEMMA ChaosStep == ChaosInv /\ [Chaos!Next]_chaosVars => ChaosInv'
  <1> SUFFICES ASSUME ChaosInv, [Chaos!Next]_chaosVars PROVE ChaosInv'
    OBVIOUS
  <1> USE DEF Chaos!Free
  <1>1. ASSUME NEW r \in Runs, NEW e, NEW t \in Targets,
               NEW dry \in BOOLEAN, NEW production \in BOOLEAN,
               Chaos!run_experiment(r, e, t, dry, production)
        PROVE  ChaosInv'
    <2> USE <1>1 DEF Chaos!run_experiment
    <2>1. CASE e \notin Chaos!Experiments \/ ~Chaos!PreFlight(e, t, dry, production)
      <3>1. PICK new : new = [run[r] EXCEPT !.pc = "refused"]
        OBVIOUS
      <3>2. run[r] \in ChaosRun
        BY DEF ChaosInv
      <3>3. new \in ChaosRun /\ new.pc = "refused"
        BY <3>1, <3>2 DEF ChaosRun
      <3>4. run' = [run EXCEPT ![r] = new] /\ UNCHANGED <<running, locks, aborted, killed, history>>
        BY <2>1, <3>1
      <3> QED BY <3>3, <3>4, ChaosMoves
    <2>2. CASE e \in Chaos!Experiments /\ Chaos!PreFlight(e, t, dry, production) /\ dry
      <3>1. PICK new : new = [pc |-> "simulate", target |-> t, dry |-> dry]
        OBVIOUS
      <3>2. new \in ChaosRun /\ new.pc = "simulate" /\ new.target = t
        BY <3>1 DEF ChaosRun
      <3>3. Cardinality(running) < MaxConcurrent /\ locks[t] = "free"
        BY <2>2, ChaosCounts DEF Chaos!PreFlight
      <3>4. /\ run' = [run EXCEPT ![r] = new] /\ running' = running \cup {r}
            /\ locks' = [locks EXCEPT ![new.target] = r] /\ UNCHANGED <<aborted, killed, history>>
        BY <2>2, <3>1, <3>2
      <3> QED BY <3>2, <3>3, <3>4, ChaosStarts
    <2>3. CASE e \in Chaos!Experiments /\ Chaos!PreFlight(e, t, dry, production) /\ ~dry
      <3>1. PICK new : new = [pc |-> "approval", target |-> t, dry |-> dry]
        OBVIOUS
      <3>2. new \in ChaosRun /\ new.pc = "approval"
        BY <3>1 DEF ChaosRun
      <3>3. run' = [run EXCEPT ![r] = new] /\ UNCHANGED <<running, locks, aborted, killed, history>>
        BY <2>3, <3>1
      <3> QED BY <3>2, <3>3, ChaosMoves
    <2> QED BY <2>1, <2>2, <2>3
  <1>2. ASSUME NEW r \in Runs, Chaos!not_approved(r)
        PROVE  ChaosInv'
    <2> USE <1>2 DEF Chaos!not_approved
    <2>1. PICK new : new = [run[r] EXCEPT !.pc = "refused"]
      OBVIOUS
    <2>2. run[r] \in ChaosRun
      BY DEF ChaosInv
    <2>3. new \in ChaosRun /\ new.pc = "refused"
      BY <2>1, <2>2 DEF ChaosRun
    <2>4. run' = [run EXCEPT ![r] = new] /\ UNCHANGED <<running, locks, aborted, killed, history>>
      BY <2>1
    <2> QED BY <2>3, <2>4, ChaosMoves
  <1>3. ASSUME NEW r \in Runs, Chaos!simulated(r)
        PROVE  ChaosInv'
    <2>1. history' = history \cup {[run |-> r, success |-> r \notin aborted]}
      BY <1>3 DEF Chaos!simulated
    <2>2. PICK outcome \in BOOLEAN : outcome = (r \notin aborted)
      OBVIOUS
    <2> QED BY <1>3, <2>1, <2>2, ChaosEnds DEF Chaos!simulated
  <1>4. ASSUME NEW r \in Runs, Chaos!cancelled(r)
        PROVE  ChaosInv'
    BY <1>4, ChaosEnds DEF Chaos!cancelled
  <1>5. ASSUME NEW r \in Runs, Chaos!abort(r)
        PROVE  ChaosInv'
    <2> USE <1>5 DEF Chaos!abort, ChaosInv
    <2>1. killed' \subseteq aborted'
      OBVIOUS
    <2>2. \A h \in history : h.run \notin running
      OBVIOUS
    <2>3. \A h \in history' : h.run \in killed' => ~h.success
      BY <2>2 DEF Chaos!KillSwitchWins
    <2> QED BY <2>1, <2>3 DEF Chaos!KillSwitchWins
  <1>6. CASE UNCHANGED chaosVars
    BY <1>6 DEF chaosVars, ChaosInv, Chaos!KillSwitchWins
  <1> QED BY <1>1, <1>2, <1>3, <1>4, <1>5, <1>6 DEF Chaos!Next

\* The invariant is what the runs check.
LEMMA ChaosGuards == ChaosInv => Chaos!RunsAreGuarded /\ Chaos!KillSwitchWins
  <1> SUFFICES ASSUME ChaosInv PROVE Chaos!RunsAreGuarded
    BY DEF ChaosInv
  <1> USE DEF ChaosInv, Chaos!Free
  <1>1. ASSUME NEW t \in Targets
        PROVE  {r \in running : run[r].target = t} = IF locks[t] = "free" THEN {} ELSE {locks[t]}
    <2>1. CASE locks[t] = "free"
      BY <2>1, MotorAssumption
    <2>2. CASE locks[t] # "free"
      <3>1. locks[t] \in Runs
        BY <2>2
      <3> QED BY <2>2, <3>1
    <2> QED BY <2>1, <2>2
  <1> QED BY <1>1, ChaosCounts DEF Chaos!RunsAreGuarded

-----------------------------------------------------------------------------
(* The remediation engine.                                                 *)

\* What propose routes for an insight.
RoutedFor(p, i) ==
    LET a == Remedy!ActionOf(i.type)
    IN [by |-> p, key |-> Remedy!KeyOf(i), action |-> a, risk |-> Remedy!RiskOfAction(a),
        confidence |-> Remedy!Confidence(i, a), status |-> "proposed"]

\* A plan that is not blocked is remembered by its key.  A proposal under way with
\* the key of another one, or of a plan, has overlapped it at the await.
RemedyInv ==
    /\ pending \in [Proposers -> {Remedy!NoPlan} \cup {RoutedFor(p, i) : p \in Proposers, i \in Insights}]
    /\ \A x \in plans : x.status # "blocked" => x.key \in seen
    /\ \A p, q \in Proposers :
          p # q /\ ~Remedy!Idle(p) /\ ~Remedy!Idle(q) /\ pending[p].key = pending[q].key
          => pending[p].key \in overlapped
    /\ \A p \in Proposers : \A x \in plans :
          ~Remedy!Idle(p) /\ x.status # "blocked" /\ x.key = pending[p].key => x.key \in overlapped
    /\ Remedy!DuplicatePlanNeedsOverlap
    /\ Remedy!OnlyLoggingIsAutoApproved

\* The remediation engine starts with nothing proposed.
LEMMA RemedyInit == Remedy!Init => RemedyInv
  BY DEF Remedy!Init, RemedyInv, Remedy!Idle, Remedy!DuplicatePlanNeedsOverlap,
         Remedy!OnlyLoggingIsAutoApproved

\* Of the actions an insight may ask for only the log entry has the lowest risk.
LEMMA OnlyLoggingIsRiskFree ==
    ASSUME NEW type, Remedy!RiskOfAction(Remedy!ActionOf(type)) = 1
    PROVE  Remedy!ActionOf(type) = "log_observation"
  <1>1. \/ Remedy!ActionOf(type) \in {"clear_disk_space", "restart_container", "alert_escalate"}
        \/ Remedy!ActionOf(type) \in {"rotate_certificate", "rebalance_gpu_load", "restart_llm_engine"}
        \/ Remedy!ActionOf(type) = "log_observation"
    BY DEF Remedy!ActionOf
  <1>2. \A a \in {"clear_disk_space", "restart_container", "alert_escalate"} : Remedy!RiskOfAction(a) = 2
    BY DEF Remedy!RiskOfAction
  <1>3. \A a \in {"rotate_certificate", "rebalance_gpu_load", "restart_llm_engine"} : Remedy!RiskOfAction(a) = 3
    BY DEF Remedy!RiskOfAction
  <1> QED BY <1>1, <1>2, <1>3

\* A plan that is routed keeps its proposer, key and action, and is approved at
\* once only if it logs, with enough confidence.
LEMMA RoutedPlan ==
    ASSUME NEW p \in Proposers, NEW i \in Insights, NEW plan, plan = RoutedFor(p, i)
    PROVE  /\ Remedy!Routed(plan).key = plan.key
           /\ Remedy!Routed(plan).status = "auto_approved"
              => Remedy!Routed(plan).action = "log_observation" /\ Remedy!Routed(plan).confidence > 65
  <1> DEFINE a == Remedy!ActionOf(i.type)
  <1>1. /\ plan.action = a /\ plan.risk = Remedy!RiskOfAction(a)
        /\ plan.confidence = Remedy!Confidence(i, a) /\ plan.status = "proposed"
    BY DEF RoutedFor
  <1>2. Remedy!Confidence(i, a) \in Nat
    <2>1. \A b : \A n \in Nat : Remedy!Points(b, n) \in Nat
      BY DEF Remedy!Points
    <2>2. PICK k \in Nat, l \in Nat, m \in Nat, n \in Nat :
              /\ k = Remedy!Points(i.source, 10) /\ l = Remedy!Points(i.evidence, 15)
              /\ m = Remedy!Points(i.severity # "", 10) /\ n = Remedy!Points(a \in Remedy!Known, 15)
      BY <2>1
    <2>3. Remedy!Confidence(i, a) = 50 + k + l + m + n
      BY <2>2, Zenon DEF Remedy!Confidence
    <2> QED BY <2>3
  <1>3. plan.risk = 1 => plan.action = "log_observation"
    BY <1>1, OnlyLoggingIsRiskFree
  <1> HIDE DEF a
  <1>4. /\ Remedy!Routed(plan).key = plan.key /\ Remedy!Routed(plan).action = plan.action
        /\ Remedy!Routed(plan).confidence = plan.confidence
    BY DEF Remedy!Routed, RoutedFor
  <1>5. Remedy!Routed(plan).status = "auto_approved"
        => plan.risk = 1 /\ plan.confidence >= Remedy!MinAutoExecuteConfidence
    BY DEF Remedy!Routed, RoutedFor
  <1> QED BY <1>1, <1>2, <1>3, <1>4, <1>5 DEF Remedy!MinAutoExecuteConfidence

\* Every step of the remediation engine keeps its invariant.
LEMMA RemedyStep == RemedyInv /\ [Remedy!Next]_remedyVars => RemedyInv'
  <1> SUFFICES ASSUME RemedyInv, [Remedy!Next]_remedyVars PROVE RemedyInv'
    OBVIOUS
  <1> DEFINE Candidates == {Remedy!NoPlan} \cup {RoutedFor(p, i) : p \in Proposers, i \in Insights}
  <1>1. ASSUME NEW p \in Proposers, NEW i \in Insights, Remedy!propose(p, i)
        PROVE  RemedyInv'
    <2>1. CASE Remedy!Proposed(p, i).status = "blocked"
      <3>1. PICK x : x = Remedy!Proposed(p, i)
        OBVIOUS
      <3>2. x.status = "blocked" /\ plans' = plans \cup {x} /\ UNCHANGED <<pending, overlapped, seen>>
        BY <1>1, <2>1, <3>1 DEF Remedy!propose
      <3> QED BY <3>2 DEF RemedyInv, Remedy!Idle, Remedy!DuplicatePlanNeedsOverlap,
                          Remedy!OnlyLoggingIsAutoApproved
    <2>2. CASE Remedy!Proposed(p, i).status # "blocked"
      <3>1. PICK x : x = RoutedFor(p, i)
        OBVIOUS
      <3>2. Remedy!Proposed(p, i) = x /\ x.key \notin seen
        BY <2>2, <3>1 DEF Remedy!Proposed, Remedy!Blocked, RoutedFor
      <3>3. /\ pending' = [pending EXCEPT ![p] = x] /\ plans' = plans /\ seen' = seen
            /\ overlapped \subseteq overlapped'
            /\ \A q \in Proposers \ {p} : ~Remedy!Idle(q) /\ pending[q].key = x.key => x.key \in overlapped'
        BY <1>1, <2>2, <3>2 DEF Remedy!propose
      <3>4. pending' \in [Proposers -> Candidates]
        <4>1. pending \in [Proposers -> Candidates]
          BY DEF RemedyInv
        <4>2. x \in Candidates
          BY <3>1
        <4> QED BY <3>3, <4>1, <4>2
      <3>5. \A q \in Proposers : pending'[q] = IF q = p THEN x ELSE pending[q]
        BY <3>3 DEF RemedyInv
      <3>6. \A q, r \in Proposers :
              q # r /\ ~Remedy!Idle(q)' /\ ~Remedy!Idle(r)' /\ pending'[q].key = pending'[r].key
              => pending'[q].key \in overlapped'
        BY <3>3, <3>5 DEF RemedyInv, Remedy!Idle
      <3>7. \A q \in Proposers : \A y \in plans :
              ~Remedy!Idle(q)' /\ y.status # "blocked" /\ y.key = pending'[q].key => y.key \in overlapped'
        BY <3>2, <3>3, <3>5 DEF RemedyInv, Remedy!Idle
      <3> QED BY <3>3, <3>4, <3>6, <3>7 DEF RemedyInv, Remedy!DuplicatePlanNeedsOverlap,
                                            Remedy!OnlyLoggingIsAutoApproved
    <2> QED BY <2>1, <2>2
  <1>2. ASSUME NEW p \in Proposers, Remedy!route(p)
        PROVE  RemedyInv'
    <2>1. PICK x : x = Remedy!Routed(pending[p])
      OBVIOUS
    <2>2. /\ ~Remedy!Idle(p) /\ plans' = plans \cup {x} /\ seen' = seen \cup {pending[p].key}
          /\ pending' = [pending EXCEPT ![p] = Remedy!NoPlan] /\ overlapped' = overlapped
      BY <1>2, <2>1 DEF Remedy!route
    <2>3. \E i \in Insights, q \in Proposers : pending[p] = RoutedFor(q, i)
      BY <2>2 DEF RemedyInv, Remedy!Idle
    <2>4. /\ x.key = pending[p].key
          /\ x.status = "auto_approved" => x.action = "log_observation" /\ x.confidence > 65
      BY <2>1, <2>3, RoutedPlan, Zenon
    <2>5. pending' \in [Proposers -> Candidates]
      <3>1. pending \in [Proposers -> Candidates]
        BY DEF RemedyInv
      <3> QED BY <2>2, <3>1
    <2>6. \A q \in Proposers : pending'[q] = IF q = p THEN Remedy!NoPlan ELSE pending[q]
      BY <2>2 DEF RemedyInv
    <2>7. \A q \in Proposers : ~Remedy!Idle(q)' => q # p /\ ~Remedy!Idle(q) /\ pending'[q] = pending[q]
      BY <2>6 DEF Remedy!Idle
    <2>8. \A y \in plans' : y.status # "blocked" => y.key \in seen'
      BY <2>2, <2>4 DEF RemedyInv
    <2>9. \A q \in Proposers : \A y \in plans' :
            ~Remedy!Idle(q)' /\ y.status # "blocked" /\ y.key = pending'[q].key => y.key \in overlapped'
      BY <2>2, <2>4, <2>7 DEF RemedyInv
    <2>10. Remedy!DuplicatePlanNeedsOverlap'
      BY <2>2, <2>4 DEF RemedyInv, Remedy!DuplicatePlanNeedsOverlap
    <2>11. Remedy!OnlyLoggingIsAutoApproved'
      BY <2>2, <2>4 DEF RemedyInv, Remedy!OnlyLoggingIsAutoApproved
    <2>12. \A q, r \in Proposers :
            q # r /\ ~Remedy!Idle(q)' /\ ~Remedy!Idle(r)' /\ pending'[q].key = pending'[r].key
            => pending'[q].key \in overlapped'
      BY <2>2, <2>7 DEF RemedyInv
    <2> QED BY <2>5, <2>8, <2>9, <2>10, <2>11, <2>12 DEF RemedyInv
  <1>3. CASE UNCHANGED remedyVars
    BY <1>3 DEF remedyVars, RemedyInv, Remedy!Idle, Remedy!DuplicatePlanNeedsOverlap,
                Remedy!OnlyLoggingIsAutoApproved
  <1> QED BY <1>1, <1>2, <1>3 DEF Remedy!Next

-----------------------------------------------------------------------------
(* The parts together.                                                     *)

\* A step of the motor is a step of one part, which leaves the others alone.
LEMMA PartsStep ==
    ASSUME [Next]_allVars
    PROVE  /\ [Bucket!Next]_bucketVars /\ [Remedy!Next]_remedyVars /\ [Chaos!Next]_chaosVars
           /\ [Notify!Next]_notifyVars /\ [Heal!Next]_healVars /\ [Llm!Next]_llmVars
           /\ [Budget!Next]_budgetVars /\ [Gate!Next]_gateVars
  <1> USE DEF Rest
  <1>1. CASE Rest("bucket") /\ Bucket!Next
    BY <1>1
  <1>2. CASE Rest("remedy") /\ Remedy!Next
    BY <1>2
  <1>3. CASE Rest("chaos") /\ Chaos!Next
    BY <1>3
  <1>4. CASE Rest("notify") /\ Notify!Next
    BY <1>4
  <1>5. CASE Rest("heal") /\ Heal!Next
    BY <1>5
  <1>6. CASE Rest("plan") /\ Heal!Next
    BY <1>6
  <1>7. CASE Rest("llm") /\ Llm!Next
    BY <1>7
  <1>8. CASE Rest("budget") /\ Budget!Next
    BY <1>8
  <1>9. CASE Rest("gate") /\ Gate!Next
    BY <1>9
  <1>10. CASE UNCHANGED allVars
    BY <1>10 DEF allVars
  <1> QED BY <1>1, <1>2, <1>3, <1>4, <1>5, <1>6, <1>7, <1>8, <1>9, <1>10 DEF Next

\* What runs was let through: a plan is approved without a human only to log,
\* chaos runs keep to their limit and their locks, and a run that abort() caught
\* never ends as a success.
THEOREM GuardsAlwaysHold == Spec => []GuardsHold
  <1>1. Init => RemedyInv /\ ChaosInv
    BY RemedyInit, ChaosInit DEF Init
  <1>2. RemedyInv /\ ChaosInv /\ [Next]_allVars => (RemedyInv /\ ChaosInv)'
    BY PartsStep, RemedyStep, ChaosStep
  <1>3. RemedyInv /\ ChaosInv => GuardsHold
    BY ChaosGuards DEF RemedyInv, GuardsHold
  <1> QED BY <1>1, <1>2, <1>3, PTL DEF Spec

-----------------------------------------------------------------------------
(* The guard gate.                                                         *)

\* Where an evaluator may be, and what it may have been told.
GateEvaluations == [at : {"idle", "scan"}, action : Gate!Actions \cup {Gate!NoAction}]
GateDecisions == [allowed : BOOLEAN, level : Nat, hitl : BOOLEAN,
                  scan : {"none", "safe", "silent", "unsafe", "failed"}]

\* While the guard service is asked, the action is clean, nothing is allowed yet,
\* and what has stood since the evaluation began is still active.
GateInv ==
    /\ active \subseteq Policies
    /\ evaluation \in [Evaluators -> GateEvaluations]
    /\ standing \in [Evaluators -> SUBSET Policies]
    /\ decision \in [Evaluators -> GateDecisions]
    /\ \A e \in Evaluators : evaluation[e].at = "scan" =>
          evaluation[e].action.clean /\ standing[e] \subseteq active /\ ~decision[e].allowed
    /\ Gate!AllowedIsVetted

\* What an evaluator may have been allowed.
Vetted(a, scan, stood) ==
    /\ a.clean /\ scan \in {"safe", "silent"}
    /\ \A p \in stood :
          /\ a.type \notin p.blocked_actions
          /\ a.type \in p.requires_approval_for => a.has_approval
          /\ a.target \in p.restricted_targets => a.override
    /\ a.type \notin Gate!HighRiskMutations \cup Gate!CriticalActions
    /\ a.type \in Gate!LowRiskMutations => a.target \notin Gate!CriticalTargets

\* The gate's property, one evaluator at a time.
LEMMA VettedMeansAllowed ==
    Gate!AllowedIsVetted <=>
        \A e \in Evaluators : decision[e].allowed
                              => Vetted(evaluation[e].action, decision[e].scan, standing[e])
  BY DEF Gate!AllowedIsVetted, Vetted

\* The gate starts with nothing to decide.
LEMMA GateInit == Gate!Init => GateInv
  <1> SUFFICES ASSUME Gate!Init PROVE GateInv
    OBVIOUS
  <1> USE DEF Gate!Init
  <1>1. evaluation \in [Evaluators -> GateEvaluations]
    <2>1. Gate!Nothing \in GateEvaluations
      BY DEF Gate!Nothing, GateEvaluations
    <2> QED BY <2>1, Zenon
  <1>2. decision \in [Evaluators -> GateDecisions]
    <2>1. Gate!Undecided \in GateDecisions
      BY DEF Gate!Undecided, GateDecisions
    <2> QED BY <2>1, Zenon
  <1>3. standing \in [Evaluators -> SUBSET Policies]
    OBVIOUS
  <1>4. \A e \in Evaluators : evaluation[e].at # "scan" /\ ~decision[e].allowed
    BY DEF Gate!Nothing, Gate!Undecided
  <1> QED BY <1>1, <1>2, <1>3, <1>4 DEF GateInv, Gate!AllowedIsVetted

\* Of the types an action may have, those that need no human.
LEMMA NoHumanNeeded ==
    ASSUME NEW a \in Gate!Actions, Gate!classify_risk(a) \notin {"RC-3", "RC-4"}
    PROVE  /\ a.type \notin Gate!HighRiskMutations \cup Gate!CriticalActions
           /\ a.type \in Gate!LowRiskMutations => a.target \notin Gate!CriticalTargets
  BY DEF Gate!classify_risk, Gate!HighRiskMutations, Gate!CriticalActions, Gate!LowRiskMutations,
         Gate!CriticalTargets, Gate!ReadActions

\* An evaluator's move that ends in a decision for which its action is vetted.
LEMMA GateDecides ==
    ASSUME GateInv, NEW e \in Evaluators,
           NEW now \in GateEvaluations,
           NEW stood \in SUBSET active,
           NEW dec \in GateDecisions,
           evaluation' = [evaluation EXCEPT ![e] = now],
           standing' = [standing EXCEPT ![e] = stood],
           decision' = [decision EXCEPT ![e] = dec],
           active' = active,
           now.at = "scan" => now.action.clean /\ ~dec.allowed,
           dec.allowed => Vetted(now.action, dec.scan, stood)
    PROVE  GateInv'
  <1> USE DEF GateInv
  <1>1. \A d \in Evaluators :
          /\ evaluation'[d] = IF d = e THEN now ELSE evaluation[d]
          /\ standing'[d] = IF d = e THEN stood ELSE standing[d]
          /\ decision'[d] = IF d = e THEN dec ELSE decision[d]
    OBVIOUS
  <1>2. evaluation' \in [Evaluators -> GateEvaluations]
    OBVIOUS
  <1>3. standing' \in [Evaluators -> SUBSET Policies]
    OBVIOUS
  <1>4. decision' \in [Evaluators -> GateDecisions]
    OBVIOUS
  <1>5. \A d \in Evaluators : decision'[d].allowed
                              => Vetted(evaluation'[d].action, decision'[d].scan, standing'[d])
    BY <1>1, VettedMeansAllowed
  <1>6. Gate!AllowedIsVetted'
    BY <1>5 DEF Gate!AllowedIsVetted, Vetted
  <1>7. \A d \in Evaluators : evaluation'[d].at = "scan" =>
          evaluation'[d].action.clean /\ standing'[d] \subseteq active' /\ ~decision'[d].allowed
    BY <1>1
  <1> QED BY <1>2, <1>3, <1>4, <1>6, <1>7

\* Every step of the gate keeps its invariant.
LEMMA GateStep == GateInv /\ [Gate!Next]_gateVars => GateInv'
  <1> SUFFICES ASSUME GateInv, [Gate!Next]_gateVars PROVE GateInv'
    OBVIOUS
  <1>1. ASSUME NEW e \in Evaluators, NEW a \in Gate!Actions, Gate!evaluate(e, a)
        PROVE  GateInv'
    <2>1. PICK now : now = [at |-> IF a.clean THEN "scan" ELSE "idle", action |-> a]
      OBVIOUS
    <2>2. PICK dec : dec = [Gate!Undecided EXCEPT !.level = IF a.clean THEN 0 ELSE 1]
      OBVIOUS
    <2>3. now \in GateEvaluations /\ (now.at = "scan" => now.action.clean)
      BY <2>1 DEF GateEvaluations
    <2>4. dec \in GateDecisions /\ ~dec.allowed
      BY <2>2 DEF GateDecisions, Gate!Undecided
    <2>5. /\ evaluation' = [evaluation EXCEPT ![e] = now] /\ standing' = [standing EXCEPT ![e] = active]
          /\ decision' = [decision EXCEPT ![e] = dec] /\ active' = active
      BY <1>1, <2>1, <2>2 DEF Gate!evaluate
    <2> QED BY <2>3, <2>4, <2>5, GateDecides
  <1>2. ASSUME NEW e \in Evaluators, NEW answer \in {"safe", "silent", "unsafe", "failed"},
               NEW readable \in BOOLEAN, Gate!Scanned(e, answer, readable)
        PROVE  GateInv'
    <2>1. PICK a : a = evaluation[e].action
      OBVIOUS
    <2>2. PICK level : level = IF ~Gate!Scan(answer) THEN 2 ELSE Gate!Levels(a, readable)
      OBVIOUS
    <2>3. PICK dec : dec = [allowed |-> level = 0, level |-> level, scan |-> answer, hitl |-> level = 5]
      OBVIOUS
    <2>4. PICK now : now = [evaluation[e] EXCEPT !.at = "idle"]
      OBVIOUS
    <2>5. /\ evaluation[e] \in GateEvaluations /\ evaluation[e].at = "scan"
          /\ a.clean /\ standing[e] \subseteq active
      BY <1>2, <2>1 DEF GateInv, Gate!Scanned
    <2>6. now \in GateEvaluations /\ now.at = "idle" /\ now.action = a
      BY <2>1, <2>4, <2>5 DEF GateEvaluations
    <2>7. level \in {0, 2, 3, 5}
      BY <2>2 DEF Gate!Levels
    <2>8. dec \in GateDecisions
      BY <2>3, <2>7 DEF GateDecisions
    <2>9. ASSUME dec.allowed
          PROVE  Vetted(a, dec.scan, standing[e])
      <3>1. level = 0 /\ dec.scan = answer
        BY <2>3, <2>9
      <3>2. Gate!Scan(answer) /\ Gate!check(a, readable) /\ Gate!classify_risk(a) \notin {"RC-3", "RC-4"}
        BY <2>2, <3>1 DEF Gate!Levels
      <3>3. a \in Gate!Actions \/ a = Gate!NoAction
        BY <2>1, <2>5 DEF GateEvaluations
      <3>4. /\ a.type \notin Gate!HighRiskMutations \cup Gate!CriticalActions
            /\ a.type \in Gate!LowRiskMutations => a.target \notin Gate!CriticalTargets
        <4>1. CASE a \in Gate!Actions
          BY <3>2, <4>1, NoHumanNeeded
        <4>2. CASE a = Gate!NoAction
          BY <4>2 DEF Gate!NoAction, Gate!HighRiskMutations, Gate!CriticalActions, Gate!LowRiskMutations
        <4> QED BY <3>3, <4>1, <4>2
      <3>5. answer \notin {"unsafe", "failed"}
        BY <3>2 DEF Gate!Scan
      <3>6. \A p \in standing[e] : ~Gate!Violates(a, p)
        BY <2>5, <3>2 DEF Gate!check
      <3> QED BY <2>5, <3>1, <3>4, <3>5, <3>6 DEF Vetted, Gate!Violates
    <2>10. /\ evaluation' = [evaluation EXCEPT ![e] = now] /\ decision' = [decision EXCEPT ![e] = dec]
           /\ active' = active /\ standing' = standing
      BY <1>2, <2>1, <2>2, <2>3, <2>4 DEF Gate!Scanned
    <2>11. standing' = [standing EXCEPT ![e] = standing[e]]
      BY <2>10 DEF GateInv
    <2> QED BY <2>5, <2>6, <2>8, <2>9, <2>10, <2>11, GateDecides
  <1>3. ASSUME NEW e \in Evaluators, Gate!Forget(e)
        PROVE  GateInv'
    <2>1. PICK now : now = Gate!Nothing
      OBVIOUS
    <2>2. PICK dec : dec = Gate!Undecided
      OBVIOUS
    <2>3. now \in GateEvaluations /\ now.at = "idle"
      BY <2>1 DEF GateEvaluations, Gate!Nothing
    <2>4. dec \in GateDecisions /\ ~dec.allowed
      BY <2>2 DEF GateDecisions, Gate!Undecided
    <2>5. /\ evaluation' = [evaluation EXCEPT ![e] = now] /\ standing' = [standing EXCEPT ![e] = {}]
          /\ decision' = [decision EXCEPT ![e] = dec] /\ active' = active
      BY <1>3, <2>1, <2>2 DEF Gate!Forget
    <2> QED BY <2>3, <2>4, <2>5, GateDecides
  <1>4. ASSUME NEW p \in Policies, Gate!PolicyChanges(p)
        PROVE  GateInv'
    <2> USE DEF GateInv
    <2>1. /\ active' \subseteq Policies /\ UNCHANGED <<evaluation, decision>>
          /\ standing' = [e \in Evaluators |->
                             IF evaluation[e].at = "scan" THEN standing[e] \cap active' ELSE standing[e]]
      BY <1>4 DEF Gate!PolicyChanges
    <2>2. standing' \in [Evaluators -> SUBSET Policies]
      BY <2>1
    <2>3. \A e \in Evaluators : standing'[e] \subseteq standing[e]
      BY <2>1
    <2>4. \A e \in Evaluators : evaluation[e].at = "scan" => standing'[e] \subseteq active'
      BY <2>1
    <2>5. Gate!AllowedIsVetted'
      BY <2>1, <2>3 DEF Gate!AllowedIsVetted
    <2> QED BY <2>1, <2>2, <2>4, <2>5
  <1>5. CASE UNCHANGED gateVars
    BY <1>5 DEF gateVars, GateInv, Gate!AllowedIsVetted
  <1> QED BY <1>1, <1>2, <1>3, <1>4, <1>5 DEF Gate!Next

-----------------------------------------------------------------------------
(* The guarded calls to the language models.                               *)

\* What a caller may be waiting for.
Calls == [op : Llm!Ops \cup {"none"}, at : {"idle", "sent", "backoff"},
          stage : {"only", "guided", "free", "scan_input", "generate", "scan_output"},
          backend : {"none", "guard", "reasoning", "embed", "fast"}, attempt : Nat, good : BOOLEAN]

\* A call that is under way has not passed; the one that generates, or has its
\* answer scanned, has had exactly its prompt accepted.
LlmInv ==
    /\ call \in [Clients -> Calls]
    /\ verdict \in [Clients -> SUBSET {"input", "output"}]
    /\ passed \subseteq Clients
    /\ \A c \in passed : call[c].at = "idle"
    /\ \A c \in Clients : call[c].stage \in {"generate", "scan_output"} => verdict[c] = {"input"}
    /\ \A c \in Clients : call[c].at = "idle" => call[c].stage = "only"
    /\ Llm!PassedIsScanned

\* The client starts with no call.
LEMMA LlmInit == Llm!Init => LlmInv
  <1> SUFFICES ASSUME Llm!Init PROVE LlmInv
    OBVIOUS
  <1> USE DEF Llm!Init
  <1>1. Llm!Idle \in Calls /\ Llm!Idle.stage = "only"
    BY DEF Llm!Idle, Calls
  <1>2. call \in [Clients -> Calls]
    BY <1>1, Zenon
  <1>3. \A c \in Clients : call[c] = Llm!Idle
    BY Zenon
  <1> QED BY <1>1, <1>2, <1>3 DEF LlmInv, Llm!PassedIsScanned

\* A caller that is not among the passed ones goes to another stage.
LEMMA LlmMoves ==
    ASSUME LlmInv, NEW c \in Clients, NEW new \in Calls, NEW seenBy \in SUBSET {"input", "output"},
           call' = [call EXCEPT ![c] = new],
           verdict' = [verdict EXCEPT ![c] = seenBy],
           passed' = passed \ {c},
           new.stage \in {"generate", "scan_output"} => seenBy = {"input"},
           new.at = "idle" => new.stage = "only"
    PROVE  LlmInv'
  <1> USE DEF LlmInv
  <1>1. \A d \in Clients : /\ call'[d] = IF d = c THEN new ELSE call[d]
                           /\ verdict'[d] = IF d = c THEN seenBy ELSE verdict[d]
    OBVIOUS
  <1>2. call' \in [Clients -> Calls] /\ verdict' \in [Clients -> SUBSET {"input", "output"}]
    OBVIOUS
  <1>3. \A d \in passed' : call'[d].at = "idle" /\ verdict'[d] = {"input", "output"}
    BY <1>1 DEF Llm!PassedIsScanned
  <1>4. \A d \in Clients : /\ call'[d].stage \in {"generate", "scan_output"} => verdict'[d] = {"input"}
                           /\ call'[d].at = "idle" => call'[d].stage = "only"
    BY <1>1
  <1> QED BY <1>2, <1>3, <1>4 DEF Llm!PassedIsScanned

\* Whatever a call sends next, it keeps its operation.
LEMMA LlmSends ==
    ASSUME NEW op \in Llm!Ops \cup {"none"}, NEW good \in BOOLEAN, NEW c,
           NEW stage \in {"only", "guided", "free", "scan_input", "generate", "scan_output"},
           Llm!Send(c, op, stage, good)
    PROVE  \E new \in Calls : /\ call' = [call EXCEPT ![c] = new]
                              /\ new.stage = stage /\ new.at = "sent"
  <1>1. PICK b : b = Llm!Backend(op, stage)
    OBVIOUS
  <1>2. Llm!ReasonBackend \in {"fast", "reasoning"}
    BY DEF Llm!ReasonBackend
  <1>3. b \in {"guard", "reasoning", "embed", "fast"}
    BY <1>1, <1>2 DEF Llm!Backend
  <1>4. PICK new : new = [op |-> op, at |-> "sent", stage |-> stage, good |-> good, backend |-> b, attempt |-> 0]
    OBVIOUS
  <1>5. new \in Calls /\ new.stage = stage /\ new.at = "sent"
    BY <1>3, <1>4 DEF Calls
  <1>6. call' = [call EXCEPT ![c] = new]
    BY <1>1, <1>4 DEF Llm!Send
  <1> QED BY <1>5, <1>6

\* A call that ends without having passed.
LEMMA LlmEnds ==
    ASSUME LlmInv, NEW c \in Clients, Llm!End(c)
    PROVE  LlmInv'
  <1>1. Llm!Idle \in Calls /\ Llm!Idle.stage = "only"
    BY DEF Llm!Idle, Calls
  <1> QED BY <1>1, LlmMoves DEF Llm!End

\* An answer or an exception moves a call that was sent on, or ends it.
LEMMA LlmAnswered ==
    ASSUME LlmInv, NEW c \in Clients, call[c].at = "sent", NEW a,
           Llm!Answered(c, a)
    PROVE  LlmInv'
  <1>1. PICK x : x = call[c]
    OBVIOUS
  <1>2. /\ x \in Calls /\ c \notin passed /\ verdict[c] \in SUBSET {"input", "output"}
        /\ x.stage \in {"generate", "scan_output"} => verdict[c] = {"input"}
    BY <1>1 DEF LlmInv
  <1>3. x.op \in Llm!Ops \cup {"none"} /\ x.good \in BOOLEAN
    BY <1>2 DEF Calls
  <1>4. CASE Llm!End(c)
    BY <1>4, LlmEnds
  <1>5. CASE /\ Llm!Send(c, x.op, "generate", x.good)
             /\ verdict' = [verdict EXCEPT ![c] = {"input"}] /\ UNCHANGED passed
    <2>1. PICK new \in Calls : call' = [call EXCEPT ![c] = new] /\ new.stage = "generate" /\ new.at = "sent"
      BY <1>3, <1>5, LlmSends
    <2>2. passed' = passed \ {c}
      BY <1>2, <1>5
    <2> QED BY <1>5, <2>1, <2>2, LlmMoves
  <1>6. CASE /\ x.stage = "generate" /\ Llm!Send(c, x.op, "scan_output", x.good)
             /\ UNCHANGED <<passed, verdict>>
    <2>1. PICK new \in Calls : call' = [call EXCEPT ![c] = new] /\ new.stage = "scan_output" /\ new.at = "sent"
      BY <1>3, <1>6, LlmSends
    <2>2. passed' = passed \ {c} /\ verdict' = [verdict EXCEPT ![c] = verdict[c]]
      BY <1>2, <1>6 DEF LlmInv
    <2> QED BY <1>2, <1>6, <2>1, <2>2, LlmMoves
  <1>7. CASE Llm!Send(c, x.op, "free", x.good) /\ UNCHANGED <<passed, verdict>>
    <2>1. PICK new \in Calls : call' = [call EXCEPT ![c] = new] /\ new.stage = "free" /\ new.at = "sent"
      BY <1>3, <1>7, LlmSends
    <2>2. passed' = passed \ {c} /\ verdict' = [verdict EXCEPT ![c] = verdict[c]]
      BY <1>2, <1>7 DEF LlmInv
    <2> QED BY <1>2, <2>1, <2>2, LlmMoves
  <1>8. CASE /\ x.stage = "scan_output"
             /\ call' = [call EXCEPT ![c] = Llm!Idle]
             /\ passed' = passed \cup {c}
             /\ verdict' = [verdict EXCEPT ![c] = @ \cup {"output"}]
    <2> USE DEF LlmInv
    <2>1. Llm!Idle \in Calls /\ Llm!Idle.stage = "only" /\ Llm!Idle.at = "idle"
      BY DEF Llm!Idle, Calls
    <2>2. verdict' = [verdict EXCEPT ![c] = {"input", "output"}]
      BY <1>2, <1>8
    <2>3. \A d \in Clients : /\ call'[d] = IF d = c THEN Llm!Idle ELSE call[d]
                             /\ verdict'[d] = IF d = c THEN {"input", "output"} ELSE verdict[d]
      BY <1>8, <2>2
    <2>4. call' \in [Clients -> Calls] /\ verdict' \in [Clients -> SUBSET {"input", "output"}]
      BY <1>8, <2>1, <2>2
    <2>5. \A d \in passed' : call'[d].at = "idle" /\ verdict'[d] = {"input", "output"}
      BY <1>8, <2>1, <2>3 DEF Llm!PassedIsScanned
    <2>6. \A d \in Clients : /\ call'[d].stage \in {"generate", "scan_output"} => verdict'[d] = {"input"}
                             /\ call'[d].at = "idle" => call'[d].stage = "only"
      BY <2>1, <2>3
    <2> QED BY <1>8, <2>4, <2>5, <2>6 DEF Llm!PassedIsScanned
  <1> QED BY <1>1, <1>4, <1>5, <1>6, <1>7, <1>8 DEF Llm!Answered

\* An exception blocks a guarded call, or makes one round of another.
LEMMA LlmRaised ==
    ASSUME LlmInv, NEW c \in Clients, call[c].at = "sent", NEW kind, Llm!Raised(c, kind)
    PROVE  LlmInv'
  <1>1. PICK x : x = call[c]
    OBVIOUS
  <1>2. x \in Calls /\ c \notin passed /\ verdict[c] \in SUBSET {"input", "output"}
    BY <1>1 DEF LlmInv
  <1>3. x.op \in Llm!Ops \cup {"none"} /\ x.good \in BOOLEAN
    BY <1>2 DEF Calls
  <1>4. CASE Llm!End(c)
    BY <1>4, LlmEnds
  <1>5. CASE Llm!Send(c, x.op, "free", x.good) /\ UNCHANGED <<passed, verdict>>
    <2>1. PICK new \in Calls : call' = [call EXCEPT ![c] = new] /\ new.stage = "free" /\ new.at = "sent"
      BY <1>3, <1>5, LlmSends
    <2>2. passed' = passed \ {c} /\ verdict' = [verdict EXCEPT ![c] = verdict[c]]
      BY <1>2, <1>5 DEF LlmInv
    <2> QED BY <1>2, <2>1, <2>2, LlmMoves
  <1> QED BY <1>1, <1>4, <1>5 DEF Llm!Raised

\* Every step of the client keeps its invariant.
LEMMA LlmStep == LlmInv /\ [Llm!Next]_llmVars => LlmInv'
  <1> SUFFICES ASSUME LlmInv, [Llm!Next]_llmVars PROVE LlmInv'
    OBVIOUS
  <1>0. ASSUME UNCHANGED <<call, verdict, passed>>
        PROVE  LlmInv'
    BY <1>0 DEF LlmInv, Llm!PassedIsScanned
  <1>1. CASE Llm!CooledDown \/ Llm!BackendChanges
    BY <1>0, <1>1 DEF Llm!CooledDown, Llm!BackendChanges
  <1>2. ASSUME NEW c \in Clients, Llm!BlankPrompt(c)
        PROVE  LlmInv'
    BY <1>2, LlmEnds DEF Llm!BlankPrompt
  <1>3. ASSUME NEW c \in Clients, NEW op \in Llm!Ops, NEW good \in BOOLEAN, Llm!Start(c, op, good)
        PROVE  LlmInv'
    <2>1. PICK stage \in {"scan_input", "guided", "only"} : Llm!Send(c, op, stage, good)
      BY <1>3 DEF Llm!Start
    <2>2. PICK new \in Calls : call' = [call EXCEPT ![c] = new] /\ new.stage = stage /\ new.at = "sent"
      BY <2>1, LlmSends
    <2>3. passed' = passed \ {c} /\ verdict' = [verdict EXCEPT ![c] = {}]
      BY <1>3 DEF Llm!Start
    <2> QED BY <2>1, <2>2, <2>3, LlmMoves
  <1>4. ASSUME NEW c \in Clients, NEW a, Llm!Respond(c, a)
        PROVE  LlmInv'
    <2>1. call[c].at = "sent"
      BY <1>4 DEF Llm!Respond
    <2>2. CASE call' = [call EXCEPT ![c].at = "backoff"] /\ UNCHANGED <<passed, verdict>>
      <3>1. call[c] \in Calls /\ c \notin passed /\ verdict[c] \in SUBSET {"input", "output"}
        BY <2>1 DEF LlmInv
      <3>2. PICK new : new = [call[c] EXCEPT !.at = "backoff"]
        OBVIOUS
      <3>3. new \in Calls /\ new.at = "backoff" /\ new.stage = call[c].stage
        BY <3>1, <3>2 DEF Calls
      <3>4. call' = [call EXCEPT ![c] = new]
        BY <2>2, <3>2
      <3>5. passed' = passed \ {c} /\ verdict' = [verdict EXCEPT ![c] = verdict[c]]
        BY <2>2, <3>1 DEF LlmInv
      <3>6. call[c].stage \in {"generate", "scan_output"} => verdict[c] = {"input"}
        BY DEF LlmInv
      <3> QED BY <3>1, <3>3, <3>4, <3>5, <3>6, LlmMoves
    <2>3. \/ Llm!Answered(c, a) \/ Llm!Raised(c, "status")
          \/ call' = [call EXCEPT ![c].at = "backoff"] /\ UNCHANGED <<passed, verdict>>
          \/ Llm!Raised(c, IF a = "5xx" THEN "status" ELSE "request")
      BY <1>4 DEF Llm!Respond
    <2> QED BY <2>1, <2>2, <2>3, LlmAnswered, LlmRaised
  <1>5. ASSUME NEW c \in Clients, Llm!Retry(c)
        PROVE  LlmInv'
    <2>1. call[c] \in Calls /\ c \notin passed /\ verdict[c] \in SUBSET {"input", "output"}
      BY <1>5 DEF LlmInv, Llm!Retry
    <2>2. PICK new : new = [[call[c] EXCEPT !.at = "sent"] EXCEPT !.attempt = call[c].attempt + 1]
      OBVIOUS
    <2>3. new \in Calls /\ new.at = "sent" /\ new.stage = call[c].stage
      <3>1. PICK n \in Nat : n = call[c].attempt + 1
        BY <2>1 DEF Calls
      <3>2. PICK mid \in Calls : mid = [call[c] EXCEPT !.at = "sent"]
        BY <2>1 DEF Calls
      <3>3. new = [mid EXCEPT !.attempt = n] /\ mid.at = "sent" /\ mid.stage = call[c].stage
        BY <2>1, <2>2, <3>1, <3>2 DEF Calls
      <3> QED BY <3>3 DEF Calls
    <2>4. call' = [call EXCEPT ![c] = new]
      BY <1>5, <2>1, <2>2 DEF Llm!Retry, Calls, LlmInv
    <2>5. passed' = passed \ {c} /\ verdict' = [verdict EXCEPT ![c] = verdict[c]]
      BY <1>5, <2>1 DEF LlmInv, Llm!Retry
    <2>6. call[c].stage \in {"generate", "scan_output"} => verdict[c] = {"input"}
      BY DEF LlmInv
    <2> QED BY <2>1, <2>3, <2>4, <2>5, <2>6, LlmMoves
  <1>6. CASE UNCHANGED llmVars
    BY <1>0, <1>6 DEF llmVars
  <1> QED BY <1>1, <1>2, <1>3, <1>4, <1>5, <1>6 DEF Llm!Next

\* Failures block: an answer is handed out as passed only if the guard accepted
\* prompt and answer, and an action is allowed only if the scan was answered without
\* an objection (a verdict may be missing from it) and every other level was passed.
THEOREM FailuresAlwaysBlock == Spec => []FailuresBlock
  <1>1. Init => LlmInv /\ GateInv
    BY LlmInit, GateInit DEF Init
  <1>2. LlmInv /\ GateInv /\ [Next]_allVars => (LlmInv /\ GateInv)'
    BY PartsStep, LlmStep, GateStep
  <1>3. LlmInv /\ GateInv => FailuresBlock
    BY DEF LlmInv, GateInv, FailuresBlock
  <1> QED BY <1>1, <1>2, <1>3, PTL DEF Spec

-----------------------------------------------------------------------------
(* The token bucket.                                                       *)

\* The instance of the module computes as the theorems about sequences and sets do.
LEMMA BucketOperators ==
    /\ \A S : Bucket!Cardinality(S) = Cardinality(S)
    /\ \A s : Bucket!ToSet(s) = ToSet(s)
    /\ \A s, i : Bucket!RemoveAt(s, i) = RemoveAt(s, i)
  <1>1. ASSUME NEW S PROVE Bucket!Cardinality(S) = Cardinality(S)
    BY DEF Bucket!Cardinality, Cardinality
  <1>2. ASSUME NEW s PROVE Bucket!ToSet(s) = ToSet(s)
    BY DEF Bucket!ToSet, ToSet
  <1>3. ASSUME NEW s, NEW i PROVE Bucket!RemoveAt(s, i) = RemoveAt(s, i)
    BY DEF Bucket!RemoveAt, RemoveAt
  <1> QED BY <1>1, <1>2, <1>3, Zenon

\* The smaller of two numbers.
LEMMA SmallerOfTwo ==
    ASSUME NEW m \in Int, NEW n \in Int
    PROVE  Bucket!Min({m, n}) = IF m <= n THEN m ELSE n
  <1>1. PICK x : x = IF m <= n THEN m ELSE n
    OBVIOUS
  <1>2. x \in {m, n} /\ \A y \in {m, n} : x <= y
    BY <1>1
  <1>3. \A z \in {m, n} : (\A y \in {m, n} : z <= y) => z = x
    BY <1>1
  <1> QED BY <1>1, <1>2, <1>3 DEF Bucket!Min

\* The first n waiters are n.
LEMMA FirstCounts ==
    ASSUME NEW S, NEW s \in Seq(S), Distinct(s), NEW n \in 0..Len(s)
    PROVE  IsFiniteSet(First(s, n)) /\ Cardinality(First(s, n)) = n
  <1>1. Len(s) \in Nat /\ n \in Nat
    BY LenProperties
  <1>2. PICK f : f = [i \in 1..n |-> s[i]]
    OBVIOUS
  <1>3. f \in Bijection(1..n, First(s, n))
    <2>1. f \in [1..n -> First(s, n)]
      BY <1>2 DEF First
    <2>2. \A i, k \in 1..n : f[i] = f[k] => i = k
      BY <1>1, <1>2 DEF Distinct
    <2>3. \A x \in First(s, n) : \E i \in 1..n : f[i] = x
      BY <1>2 DEF First
    <2> QED BY <2>1, <2>2, <2>3, Fun_IsBij
  <1>4. ExistsBijection(1..n, First(s, n))
    BY <1>3 DEF ExistsBijection
  <1> QED BY <1>1, <1>4, FS_CountingElements, FS_NatBijection

\* Callers in the queue wait once, and those that were handed a permit are at its
\* head; the two counters differ by their number.
BucketInv ==
    /\ sem \in Nat /\ tokens \in 0..MaxTokens
    /\ queue \in Seq(Callers) /\ Distinct(queue)
    /\ \E n \in 0..Len(queue) : woken = First(queue, n) /\ tokens = sem + n
    /\ holders \subseteq Callers
    /\ refilled \in 0..Cardinality(Callers)
    /\ Cardinality(holders) + tokens <= MaxTokens + refilled

\* The bucket starts full.
LEMMA BucketInit == Bucket!Init => BucketInv
  <1> SUFFICES ASSUME Bucket!Init PROVE BucketInv
    OBVIOUS
  <1> USE DEF Bucket!Init
  <1>1. MaxTokens \in Nat /\ Cardinality(Callers) \in Nat
    BY MotorAssumption, FS_CardinalityType
  <1>2. queue \in Seq(Callers) /\ Len(queue) = 0 /\ Distinct(queue)
    BY DEF Distinct
  <1>3. woken = First(queue, 0)
    BY DEF First
  <1>4. Cardinality(holders) = 0
    BY FS_EmptySet
  <1> QED BY <1>1, <1>2, <1>3, <1>4 DEF BucketInv

\* What a step has to leave behind.
LEMMA BucketSettles ==
    ASSUME NEW s \in Nat, NEW q \in Seq(Callers), Distinct(q), NEW n \in 0..Len(q), NEW t \in 0..MaxTokens,
           t = s + n, NEW h \in SUBSET Callers, NEW r \in 0..Cardinality(Callers),
           Cardinality(h) + t <= MaxTokens + r,
           sem' = s, queue' = q, woken' = First(q, n), tokens' = t, holders' = h, refilled' = r
    PROVE  BucketInv'
  <1>1. sem' \in Nat /\ tokens' \in 0..MaxTokens /\ queue' \in Seq(Callers) /\ Distinct(queue')
    BY Zenon
  <1>2. \E k \in 0..Len(queue') : woken' = First(queue', k) /\ tokens' = sem' + k
    BY Zenon
  <1>3. holders' \subseteq Callers /\ refilled' \in 0..Cardinality(Callers)
    BY Zenon
  <1>4. Cardinality(holders') + tokens' <= MaxTokens + refilled'
    BY Zenon
  <1> QED BY <1>1, <1>2, <1>3, <1>4 DEF BucketInv

\* Permits that are given wake the oldest waiters that are still asleep.
LEMMA BucketGives ==
    ASSUME BucketInv, NEW n \in Nat, NEW q \in Seq(Callers), Distinct(q), NEW m \in 0..Len(q),
           Bucket!Give(n, q, First(q, m))
    PROVE  \E s \in Nat, j \in 0..Len(q) :
              s + j = sem + n + m /\ sem' = s /\ queue' = q /\ woken' = First(q, j)
  <1>1. sem \in Nat /\ Len(q) \in Nat /\ m \in Nat /\ m <= Len(q)
    BY LenProperties DEF BucketInv
  <1>2. Bucket!Cardinality(First(q, m)) = m
    BY FirstCounts, BucketOperators
  <1>3. PICK k \in Nat : k = Bucket!Min({sem + n, Len(q) - m}) /\ k <= sem + n /\ k <= Len(q) - m
    <2>1. sem + n \in Int /\ Len(q) - m \in Int /\ sem + n >= 0 /\ Len(q) - m >= 0
      BY <1>1
    <2> QED BY <2>1, SmallerOfTwo
  <1>4. /\ sem' = sem + n - k /\ queue' = q
        /\ woken' = First(q, m) \cup {q[i] : i \in (m + 1)..(m + k)}
    BY <1>2, <1>3, Zenon DEF Bucket!Give
  <1>5. First(q, m) \cup {q[i] : i \in (m + 1)..(m + k)} = First(q, m + k)
    <2>1. 1..(m + k) = 1..m \cup (m + 1)..(m + k)
      BY <1>1
    <2> QED BY <2>1 DEF First
  <1>6. PICK s \in Nat, j \in 0..Len(q) : s = sem + n - k /\ j = m + k
    BY <1>1, <1>3
  <1>7. s + j = sem + n + m
    BY <1>1, <1>6
  <1> QED BY <1>4, <1>5, <1>6, <1>7, Zenon

\* A caller leaves the queue: the others keep their order, and those that were
\* handed a permit are still at its head.
LEMMA BucketLeaves ==
    ASSUME BucketInv, NEW c \in ToSet(queue), NEW n \in 0..Len(queue), woken = First(queue, n)
    PROVE  /\ Bucket!Without(c) \in Seq(Callers) /\ Distinct(Bucket!Without(c))
           /\ c \in woken => /\ n > 0 /\ n - 1 \in 0..Len(Bucket!Without(c))
                             /\ woken \ {c} = First(Bucket!Without(c), n - 1)
           /\ c \notin woken => /\ n \in 0..Len(Bucket!Without(c))
                                /\ woken \ {c} = First(Bucket!Without(c), n)
  <1>1. queue \in Seq(Callers) /\ Distinct(queue) /\ Len(queue) \in Nat /\ DOMAIN queue = 1..Len(queue)
    BY LenProperties DEF BucketInv
  <1>2. \E i \in DOMAIN queue : queue[i] = c
    <2>1. \A x \in ToSet(queue) : x \in Callers /\ \E i \in 1..Len(queue) : queue[i] = x
      BY <1>1, Elements
    <2> QED BY <1>1, <2>1, Zenon
  <1>3. PICK p \in 1..Len(queue) : queue[p] = c /\ Bucket!Without(c) = RemoveAt(queue, p)
    BY <1>1, <1>2, BucketOperators, Zenon DEF Bucket!Without
  <1>4. PICK q \in Seq(Callers) :
            /\ q = RemoveAt(queue, p) /\ Len(q) = Len(queue) - 1 /\ Distinct(q)
            /\ \A k \in p..Len(queue) : First(q, k - 1) = First(queue, k) \ {queue[p]}
            /\ \A k \in 0..(p - 1) : First(q, k) = First(queue, k)
    <2>1. RemoveAt(queue, p) \in Seq(Callers) /\ Len(RemoveAt(queue, p)) = Len(queue) - 1
      BY <1>1, RemoveAtIndices, Zenon
    <2> QED BY <1>1, <2>1, RemoveAtFirst, Zenon
  <1>5. CASE n >= p
    <2>1. n \in p..Len(queue) /\ p \in 1..n /\ n > 0 /\ n - 1 \in 0..Len(q)
      BY <1>1, <1>4, <1>5
    <2>2. c \in woken
      BY <1>3, <2>1 DEF First
    <2> QED BY <1>3, <1>4, <2>1, <2>2
  <1>6. CASE ~(n >= p)
    <2>1. n \in 0..(p - 1) /\ n \in 0..Len(q)
      BY <1>1, <1>4, <1>6
    <2>2. c \notin woken
      BY <1>1, <1>3, <2>1 DEF First, Distinct
    <2> QED BY <1>3, <1>4, <2>1, <2>2
  <1> QED BY <1>5, <1>6

\* A caller more, or less, that holds a token.
LEMMA BucketHolders ==
    ASSUME BucketInv, NEW c \in Callers
    PROVE  /\ Cardinality(holders) \in Nat
           /\ Cardinality(holders \cup {c}) \in {Cardinality(holders), Cardinality(holders) + 1}
           /\ c \in holders => Cardinality(holders \ {c}) = Cardinality(holders) - 1
  <1>1. IsFiniteSet(holders)
    BY MotorAssumption, FS_Subset DEF BucketInv
  <1>2. PICK n \in Nat : n = Cardinality(holders)
    BY <1>1, FS_CardinalityType
  <1>3. Cardinality(holders \cup {c}) \in {n, n + 1}
    BY <1>1, <1>2, FS_AddElement
  <1>4. c \in holders => Cardinality(holders \ {c}) = n - 1
    BY <1>1, <1>2, FS_RemoveElement
  <1> QED BY <1>2, <1>3, <1>4, Zenon

\* A permit is taken at once, or the caller waits behind the others.
LEMMA BucketAcquire ==
    ASSUME BucketInv, NEW c \in Callers, Bucket!acquire(c)
    PROVE  BucketInv'
  <1>1. PICK n \in 0..Len(queue) : woken = First(queue, n) /\ tokens = sem + n
    BY DEF BucketInv
  <1>2. /\ sem \in Nat /\ tokens \in 0..MaxTokens /\ MaxTokens \in Nat
        /\ queue \in Seq(Callers) /\ Distinct(queue) /\ Len(queue) \in Nat
        /\ holders \subseteq Callers /\ refilled \in 0..Cardinality(Callers)
        /\ Cardinality(holders) + tokens <= MaxTokens + refilled
        /\ Cardinality(Callers) \in Nat
    BY MotorAssumption, FS_CardinalityType, LenProperties DEF BucketInv
  <1>3. CASE sem > 0 /\ queue = << >>
    <2>1. PICK s \in Nat, t \in 0..MaxTokens : s = sem - 1 /\ t = tokens - 1
      BY <1>1, <1>2, <1>3
    <2>2. PICK h \in SUBSET Callers : h = holders \cup {c}
      BY <1>2
    <2>3. Cardinality(h) + t <= MaxTokens + refilled
      <3>1. PICK k \in Nat : k = Cardinality(holders)
        BY BucketHolders
      <3>2. Cardinality(h) \in {k, k + 1}
        BY <2>2, <3>1, BucketHolders, Zenon
      <3> QED BY <1>2, <2>1, <3>1, <3>2
    <2>4. t = s + n
      BY <1>1, <1>2, <2>1
    <2>5. /\ sem' = s /\ tokens' = t /\ holders' = h /\ queue' = queue
          /\ woken' = First(queue, n) /\ refilled' = refilled
      BY <1>1, <1>3, <2>1, <2>2 DEF Bucket!acquire
    <2> QED BY <1>2, <2>1, <2>3, <2>4, <2>5, BucketSettles
  <1>4. CASE ~(sem > 0 /\ queue = << >>)
    <2>1. c \notin ToSet(queue)
      BY BucketOperators, Zenon DEF Bucket!acquire
    <2>2. PICK q \in Seq(Callers) :
            /\ q = Append(queue, c) /\ Distinct(q) /\ Len(q) = Len(queue) + 1 /\ First(q, n) = First(queue, n)
      BY <1>2, <2>1, AppendFirst, Zenon
    <2>3. n \in 0..Len(q)
      BY <1>2, <2>2
    <2>4. /\ sem' = sem /\ tokens' = tokens /\ holders' = holders /\ queue' = q
          /\ woken' = First(q, n) /\ refilled' = refilled
      BY <1>1, <1>4, <2>2 DEF Bucket!acquire
    <2> QED BY <1>1, <1>2, <2>2, <2>3, <2>4, BucketSettles, Zenon
  <1> QED BY <1>3, <1>4

\* A caller that was handed its permit goes on.
LEMMA BucketResume ==
    ASSUME BucketInv, NEW c \in Callers, Bucket!resume(c)
    PROVE  BucketInv'
  <1>1. PICK n \in 0..Len(queue) : woken = First(queue, n) /\ tokens = sem + n
    BY DEF BucketInv
  <1>2. /\ sem \in Nat /\ tokens \in 0..MaxTokens /\ MaxTokens \in Nat
        /\ queue \in Seq(Callers) /\ Len(queue) \in Nat /\ holders \subseteq Callers
        /\ refilled \in 0..Cardinality(Callers) /\ Cardinality(Callers) \in Nat
        /\ Cardinality(holders) + tokens <= MaxTokens + refilled
    BY MotorAssumption, FS_CardinalityType, LenProperties DEF BucketInv
  <1>3. c \in woken /\ c \in ToSet(queue)
    <2>1. c \in woken
      BY DEF Bucket!resume
    <2>2. PICK i \in 1..n : queue[i] = c
      BY <1>1, <2>1 DEF First
    <2>3. i \in 1..Len(queue)
      BY <1>2
    <2> QED BY <1>2, <2>1, <2>2, <2>3, Elements, Zenon
  <1>4. PICK q \in Seq(Callers) :
            /\ q = Bucket!Without(c) /\ Distinct(q) /\ n > 0 /\ n - 1 \in 0..Len(q)
            /\ woken \ {c} = First(q, n - 1)
    BY <1>1, <1>3, BucketLeaves, Zenon
  <1>5. PICK m \in 0..Len(q) : m = n - 1
    BY <1>4
  <1>6. Bucket!Give(0, q, First(q, m))
    BY <1>4, <1>5, Zenon DEF Bucket!resume
  <1>7. PICK s \in Nat, j \in 0..Len(q) :
            s + j = sem + 0 + m /\ sem' = s /\ queue' = q /\ woken' = First(q, j)
    BY <1>4, <1>6, BucketGives
  <1>8. PICK t \in 0..MaxTokens : t = tokens - 1 /\ t = s + j
    BY <1>1, <1>2, <1>4, <1>5, <1>7, LenProperties
  <1>9. PICK h \in SUBSET Callers : h = holders \cup {c}
    BY <1>2
  <1>10. Cardinality(h) + t <= MaxTokens + refilled
    <2>1. PICK k \in Nat : k = Cardinality(holders)
      BY BucketHolders
    <2>2. Cardinality(h) \in {k, k + 1}
      BY <1>9, <2>1, BucketHolders, Zenon
    <2> QED BY <1>2, <1>8, <2>1, <2>2
  <1>11. tokens' = t /\ holders' = h /\ refilled' = refilled
    BY <1>8, <1>9 DEF Bucket!resume
  <1> QED BY <1>2, <1>4, <1>7, <1>8, <1>10, <1>11, BucketSettles, Zenon

\* A wait is given up: a permit that was handed over goes to the next waiter.
LEMMA BucketGiveUp ==
    ASSUME BucketInv, NEW c \in Callers, Bucket!give_up(c)
    PROVE  BucketInv'
  <1>1. PICK n \in 0..Len(queue) : woken = First(queue, n) /\ tokens = sem + n
    BY DEF BucketInv
  <1>2. /\ sem \in Nat /\ tokens \in 0..MaxTokens /\ MaxTokens \in Nat
        /\ queue \in Seq(Callers) /\ Len(queue) \in Nat /\ holders \in SUBSET Callers
        /\ refilled \in 0..Cardinality(Callers) /\ Cardinality(Callers) \in Nat
        /\ Cardinality(holders) + tokens <= MaxTokens + refilled
    BY MotorAssumption, FS_CardinalityType, LenProperties DEF BucketInv
  <1>3. c \in ToSet(queue)
    BY BucketOperators, Zenon DEF Bucket!give_up
  <1>4. PICK q \in Seq(Callers) :
            /\ q = Bucket!Without(c) /\ Distinct(q)
            /\ c \in woken => n > 0 /\ n - 1 \in 0..Len(q) /\ woken \ {c} = First(q, n - 1)
            /\ c \notin woken => n \in 0..Len(q) /\ woken \ {c} = First(q, n)
    BY <1>1, <1>3, BucketLeaves, Zenon
  <1>5. PICK extra \in {0, 1} : extra = IF c \in woken THEN 1 ELSE 0
    OBVIOUS
  <1>6. PICK m \in 0..Len(q) : m + extra = n /\ woken \ {c} = First(q, m)
    <2>1. CASE c \in woken
      BY <1>4, <1>5, <2>1
    <2>2. CASE c \notin woken
      BY <1>4, <1>5, <2>2
    <2> QED BY <2>1, <2>2
  <1>7. Bucket!Give(extra, q, First(q, m))
    BY <1>4, <1>5, <1>6, Zenon DEF Bucket!give_up
  <1>8. PICK s \in Nat, j \in 0..Len(q) :
            s + j = sem + extra + m /\ sem' = s /\ queue' = q /\ woken' = First(q, j)
    BY <1>4, <1>7, BucketGives
  <1>9. tokens = s + j
    BY <1>1, <1>2, <1>6, <1>8, LenProperties
  <1>10. tokens' = tokens /\ holders' = holders /\ refilled' = refilled
    BY DEF Bucket!give_up
  <1> QED BY <1>2, <1>4, <1>8, <1>9, <1>10, BucketSettles, Zenon

\* A token comes back, unless the refill has filled the bucket meanwhile.
LEMMA BucketRelease ==
    ASSUME BucketInv, NEW c \in Callers, Bucket!release(c)
    PROVE  BucketInv'
  <1>1. PICK n \in 0..Len(queue) : woken = First(queue, n) /\ tokens = sem + n
    BY DEF BucketInv
  <1>2. /\ sem \in Nat /\ tokens \in 0..MaxTokens /\ MaxTokens \in Nat
        /\ queue \in Seq(Callers) /\ Distinct(queue) /\ Len(queue) \in Nat
        /\ refilled \in 0..Cardinality(Callers) /\ Cardinality(Callers) \in Nat
        /\ Cardinality(holders) + tokens <= MaxTokens + refilled
    BY MotorAssumption, FS_CardinalityType, LenProperties DEF BucketInv
  <1>3. PICK h \in SUBSET Callers : h = holders \ {c}
    BY DEF BucketInv
  <1>4. PICK k \in Nat : k = Cardinality(holders) /\ Cardinality(h) = k - 1
    BY <1>3, BucketHolders DEF Bucket!release
  <1>5. CASE tokens < MaxTokens
    <2>1. Bucket!Give(1, queue, First(queue, n))
      BY <1>1, <1>5, Zenon DEF Bucket!release
    <2>2. PICK s \in Nat, j \in 0..Len(queue) :
              s + j = sem + 1 + n /\ sem' = s /\ queue' = queue /\ woken' = First(queue, j)
      BY <1>2, <2>1, BucketGives
    <2>3. PICK t \in 0..MaxTokens : t = tokens + 1
      BY <1>2, <1>5
    <2>4. t = s + j
      BY <1>1, <1>2, <2>2, <2>3
    <2>5. Cardinality(h) + t <= MaxTokens + refilled
      BY <1>2, <1>4, <2>3
    <2>6. tokens' = t /\ holders' = h /\ refilled' = refilled
      BY <1>3, <1>5, <2>3, Zenon DEF Bucket!release
    <2> QED BY <1>2, <2>2, <2>4, <2>5, <2>6, BucketSettles, Zenon
  <1>6. CASE ~(tokens < MaxTokens)
    <2>1. Cardinality(h) + tokens <= MaxTokens + refilled
      BY <1>2, <1>4
    <2>2. /\ tokens' = tokens /\ sem' = sem /\ queue' = queue /\ woken' = First(queue, n)
          /\ holders' = h /\ refilled' = refilled
      BY <1>1, <1>3, <1>6 DEF Bucket!release
    <2> QED BY <1>1, <1>2, <2>1, <2>2, BucketSettles, Zenon
  <1> QED BY <1>5, <1>6

\* The refill adds tokens up to the maximum, also while others are still held.
LEMMA BucketRefill ==
    ASSUME BucketInv, Bucket!refill
    PROVE  BucketInv'
  <1>1. PICK n \in 0..Len(queue) : woken = First(queue, n) /\ tokens = sem + n
    BY DEF BucketInv
  <1>2. /\ sem \in Nat /\ tokens \in 0..MaxTokens /\ MaxTokens \in Nat /\ RefillRate \in Nat
        /\ queue \in Seq(Callers) /\ Distinct(queue) /\ Len(queue) \in Nat /\ holders \in SUBSET Callers
        /\ refilled \in 0..Cardinality(Callers) /\ Cardinality(Callers) \in Nat
        /\ Cardinality(holders) + tokens <= MaxTokens + refilled
    BY MotorAssumption, FS_CardinalityType, LenProperties DEF BucketInv
  <1>3. PICK more \in Nat :
            /\ more = Bucket!Min({RefillRate, MaxTokens - tokens}) /\ more <= MaxTokens - tokens
    <2>1. RefillRate \in Int /\ MaxTokens - tokens \in Int /\ MaxTokens - tokens >= 0
      BY <1>2
    <2> QED BY <1>2, <2>1, SmallerOfTwo
  <1>4. PICK r \in 0..Cardinality(Callers) :
            r = Bucket!Saturate(refilled + more) /\ (r = refilled + more \/ r = Cardinality(Callers))
    <2>1. refilled + more \in Int /\ Cardinality(Callers) \in Int /\ refilled + more >= 0
      BY <1>2
    <2>2. Bucket!Min({refilled + more, Cardinality(Callers)})
              = IF refilled + more <= Cardinality(Callers) THEN refilled + more ELSE Cardinality(Callers)
      BY <2>1, SmallerOfTwo
    <2>3. Bucket!Saturate(refilled + more) = Bucket!Min({refilled + more, Cardinality(Callers)})
      BY BucketOperators, Zenon DEF Bucket!Saturate
    <2> QED BY <1>2, <2>1, <2>2, <2>3
  <1>5. Bucket!Give(more, queue, First(queue, n))
    BY <1>1, <1>3, Zenon DEF Bucket!refill
  <1>6. PICK s \in Nat, j \in 0..Len(queue) :
            s + j = sem + more + n /\ sem' = s /\ queue' = queue /\ woken' = First(queue, j)
    BY <1>2, <1>5, BucketGives
  <1>7. PICK t \in 0..MaxTokens : t = tokens + more
    BY <1>2, <1>3
  <1>8. t = s + j
    BY <1>1, <1>2, <1>6, <1>7
  <1>9. Cardinality(holders) + t <= MaxTokens + r
    <2>1. Cardinality(holders) \in Nat /\ Cardinality(holders) <= Cardinality(Callers)
      BY <1>2, MotorAssumption, FS_Subset, FS_CardinalityType
    <2> QED BY <1>2, <1>4, <1>7, <2>1
  <1>10. tokens' = t /\ refilled' = r /\ holders' = holders
    BY <1>3, <1>4, <1>7, Zenon DEF Bucket!refill
  <1> QED BY <1>2, <1>6, <1>8, <1>9, <1>10, BucketSettles, Zenon

\* Every step of the bucket keeps its invariant.
LEMMA BucketStep == BucketInv /\ [Bucket!Next]_bucketVars => BucketInv'
  <1> SUFFICES ASSUME BucketInv, [Bucket!Next]_bucketVars PROVE BucketInv'
    OBVIOUS
  <1>1. ASSUME UNCHANGED <<sem, tokens, queue, woken, holders, refilled>>
        PROVE  BucketInv'
    BY <1>1 DEF BucketInv
  <1>2. CASE Bucket!start \/ Bucket!stop
    BY <1>1, <1>2 DEF Bucket!start, Bucket!stop
  <1>3. CASE UNCHANGED bucketVars
    BY <1>1, <1>3 DEF bucketVars
  <1> QED BY <1>2, <1>3, BucketAcquire, BucketResume, BucketGiveUp, BucketRelease, BucketRefill
          DEF Bucket!Next

\* The invariant is what the runs check of the bucket.
LEMMA BucketConserves == BucketInv => Bucket!TokensAreConserved
  <1> SUFFICES ASSUME BucketInv PROVE Bucket!TokensAreConserved
    OBVIOUS
  <1>1. PICK n \in 0..Len(queue) : woken = First(queue, n) /\ tokens = sem + n
    BY DEF BucketInv
  <1>2. /\ sem \in Nat /\ tokens \in 0..MaxTokens /\ MaxTokens \in Nat /\ Len(queue) \in Nat
        /\ queue \in Seq(Callers) /\ Distinct(queue)
    BY MotorAssumption, LenProperties DEF BucketInv
  <1>3. Cardinality(woken) = n
    BY <1>1, <1>2, FirstCounts
  <1>4. woken \subseteq ToSet(queue)
    <2>1. \A i \in 1..n : queue[i] \in ToSet(queue)
      <3>1. \A i \in 1..n : i \in 1..Len(queue)
        BY <1>2
      <3> QED BY <1>2, <3>1, Elements, Zenon
    <2> QED BY <1>1, <2>1 DEF First
  <1>5. sem \in 0..MaxTokens
    BY <1>1, <1>2
  <1>6. Bucket!TypeOK
    BY <1>4, <1>5, BucketOperators DEF Bucket!TypeOK, BucketInv
  <1>7. Bucket!CountersAgree
    BY <1>1, <1>3, BucketOperators DEF Bucket!CountersAgree
  <1>8. Bucket!OvercommitIsRefill
    BY BucketOperators DEF Bucket!OvercommitIsRefill, BucketInv
  <1> QED BY <1>6, <1>7, <1>8 DEF Bucket!TokensAreConserved

-----------------------------------------------------------------------------
(* The token budget.                                                       *)

\* What a task has asked for.
BudgetCalls == [asked : Nat, behind : Nat, window : BOOLEAN]

\* A call that was let through in the window that is under way fitted in then:
\* only what others have recorded since is in its way.
BudgetInv ==
    /\ used \in Nat /\ excess \in Nat /\ stale \in BOOLEAN
    /\ task \in [Tasks -> BudgetCalls]
    /\ \A t \in Tasks : task[t].window => used + task[t].asked <= Limit + task[t].behind
    /\ Budget!OverdraftIsExplained

\* The budget starts unused.
LEMMA BudgetInit == Budget!Init => BudgetInv
  <1> SUFFICES ASSUME Budget!Init PROVE BudgetInv
    OBVIOUS
  <1>1. Budget!NoCall \in BudgetCalls /\ ~Budget!NoCall.window
    BY DEF Budget!NoCall, BudgetCalls
  <1>2. task \in [Tasks -> BudgetCalls] /\ \A t \in Tasks : task[t] = Budget!NoCall
    BY <1>1, Zenon DEF Budget!Init
  <1>3. used = 0 /\ excess = 0 /\ stale = FALSE /\ Limit \in Nat
    BY MotorAssumption DEF Budget!Init
  <1>4. Budget!OverdraftIsExplained
    BY <1>3 DEF Budget!OverdraftIsExplained
  <1> QED BY <1>1, <1>2, <1>3, <1>4 DEF BudgetInv

\* What every look at the entry finds: this window's state, or a new window.
LEMMA BudgetEntered ==
    ASSUME BudgetInv
    PROVE  /\ Budget!Used \in Nat /\ Budget!Excess \in Nat /\ Budget!Used <= Limit + Budget!Excess
           /\ Budget!Entered \in [Tasks -> BudgetCalls]
           /\ \A t \in Tasks : Budget!Entered[t].window
                 => Budget!Used + Budget!Entered[t].asked <= Limit + Budget!Entered[t].behind
  <1>0. Limit \in Nat
    BY MotorAssumption
  <1>1. CASE stale
    <2>1. Budget!Used = 0 /\ Budget!Excess = 0
      BY <1>1 DEF Budget!Used, Budget!Excess
    <2>2. PICK f : f = [t \in Tasks |-> [[task[t] EXCEPT !.behind = 0] EXCEPT !.window = FALSE]]
      OBVIOUS
    <2>3. \A t \in Tasks : f[t] \in BudgetCalls /\ ~f[t].window
      <3> TAKE t \in Tasks
      <3>1. task[t] \in BudgetCalls
        BY DEF BudgetInv
      <3>2. PICK mid \in BudgetCalls : mid = [task[t] EXCEPT !.behind = 0]
        BY <3>1 DEF BudgetCalls
      <3>3. f[t] = [mid EXCEPT !.window = FALSE]
        BY <2>2, <3>2
      <3> QED BY <3>3 DEF BudgetCalls
    <2>4. Budget!Entered = f
      <3>1. Budget!Entered = [t \in Tasks |-> [task[t] EXCEPT !.behind = 0, !.window = FALSE]]
        BY <1>1, Zenon DEF Budget!Entered
      <3>2. \A t \in Tasks : [task[t] EXCEPT !.behind = 0, !.window = FALSE]
                = [[task[t] EXCEPT !.behind = 0] EXCEPT !.window = FALSE]
        BY DEF BudgetInv, BudgetCalls
      <3> QED BY <2>2, <3>1, <3>2
    <2>5. f \in [Tasks -> BudgetCalls]
      BY <2>2, <2>3
    <2> QED BY <1>0, <2>1, <2>3, <2>4, <2>5
  <1>2. CASE ~stale
    BY <1>0, <1>2 DEF Budget!Used, Budget!Excess, Budget!Entered, BudgetInv, Budget!OverdraftIsExplained
  <1> QED BY <1>1, <1>2

\* Every step of the budget keeps its invariant.
LEMMA BudgetStep == BudgetInv /\ [Budget!Next]_budgetVars => BudgetInv'
  <1> SUFFICES ASSUME BudgetInv, [Budget!Next]_budgetVars PROVE BudgetInv'
    OBVIOUS
  <1>0. Limit \in Nat /\ Estimates \subseteq Nat
    BY MotorAssumption
  <1>1. PICK u \in Nat, e \in Nat, f \in [Tasks -> BudgetCalls] :
            /\ u = Budget!Used /\ e = Budget!Excess /\ f = Budget!Entered
            /\ u <= Limit + e
            /\ \A t \in Tasks : f[t].window => u + f[t].asked <= Limit + f[t].behind
    BY BudgetEntered, Zenon
  <1>2. ASSUME NEW t \in Tasks, NEW n \in Estimates, Budget!check_budget(t, n)
        PROVE  BudgetInv'
    <2>1. used' = u /\ excess' = e /\ stale' = FALSE
      BY <1>1, <1>2 DEF Budget!check_budget
    <2>2. PICK c : c = [asked |-> n, behind |-> 0, window |-> TRUE]
      OBVIOUS
    <2>3. c \in BudgetCalls /\ c.asked = n /\ c.behind = 0
      BY <1>0, <2>2 DEF BudgetCalls
    <2>4. \/ u + n <= Limit /\ task' = [f EXCEPT ![t] = c]
          \/ task' = f
      BY <1>1, <1>2, <2>2 DEF Budget!check_budget, Budget!Affordable
    <2>5. task' \in [Tasks -> BudgetCalls]
      BY <2>3, <2>4
    <2>6. \A x \in Tasks : task'[x].window => u + task'[x].asked <= Limit + task'[x].behind
      <3> TAKE x \in Tasks
      <3>1. CASE task'[x] = f[x]
        BY <1>1, <3>1
      <3>2. CASE task'[x] = c /\ u + n <= Limit
        BY <1>0, <2>3, <3>2
      <3> QED BY <2>4, <3>1, <3>2
    <2> QED BY <1>1, <2>1, <2>5, <2>6 DEF BudgetInv, Budget!OverdraftIsExplained
  <1>3. ASSUME NEW t \in Tasks, NEW n \in Estimates, Budget!record_usage(t, n)
        PROVE  BudgetInv'
    <2>0. n \in Nat
      BY <1>0
    <2>1. PICK more \in Nat : more = IF n > f[t].asked THEN n - f[t].asked ELSE 0
      BY <1>0 DEF BudgetCalls
    <2>2. PICK g : g = [x \in Tasks |-> IF x = t THEN Budget!NoCall
                                        ELSE IF f[x].window THEN [f[x] EXCEPT !.behind = @ + n]
                                        ELSE f[x]]
      OBVIOUS
    <2>3. PICK v \in Nat, d \in Nat : v = u + n /\ d = IF f[t].window THEN f[t].behind + more ELSE e + n
      BY <1>0 DEF BudgetCalls
    <2>4. used' = v /\ excess' = d /\ stale' = FALSE /\ task' = g
      BY <1>1, <1>3, <2>1, <2>2, <2>3, Zenon DEF Budget!record_usage
    <2>5. \A x \in Tasks : g[x] \in BudgetCalls /\ (g[x].window => v + g[x].asked <= Limit + g[x].behind)
      <3> TAKE x \in Tasks
      <3>1. CASE x = t
        BY <2>2, <3>1 DEF Budget!NoCall, BudgetCalls
      <3>2. CASE x # t /\ f[x].window
        <4>1. PICK b \in Nat : b = f[x].behind + n
          BY <2>0 DEF BudgetCalls
        <4>2. g[x] = [f[x] EXCEPT !.behind = b]
          BY <2>2, <3>2, <4>1
        <4>3. g[x] \in BudgetCalls /\ g[x].asked = f[x].asked /\ g[x].behind = b
          BY <4>1, <4>2 DEF BudgetCalls
        <4>4. f[x].asked \in Nat /\ f[x].behind \in Nat /\ u + f[x].asked <= Limit + f[x].behind
          BY <1>1, <3>2 DEF BudgetCalls
        <4>5. v + f[x].asked <= Limit + b
          BY <1>0, <2>0, <2>3, <4>1, <4>4
        <4> QED BY <4>3, <4>5
      <3>3. CASE x # t /\ ~f[x].window
        BY <2>2, <3>3
      <3> QED BY <3>1, <3>2, <3>3
    <2>6. g \in [Tasks -> BudgetCalls]
      BY <2>2, <2>5
    <2>7. v <= Limit + d
      <3>1. f[t].asked \in Nat /\ f[t].behind \in Nat
        BY DEF BudgetCalls
      <3>2. CASE f[t].window
        BY <1>0, <1>1, <2>0, <2>1, <2>3, <3>1, <3>2
      <3>3. CASE ~f[t].window
        BY <1>0, <1>1, <2>0, <2>3, <3>3
      <3> QED BY <3>2, <3>3
    <2> QED BY <2>4, <2>5, <2>6, <2>7 DEF BudgetInv, Budget!OverdraftIsExplained
  <1>4. ASSUME NEW t \in Tasks, Budget!CallFails(t)
        PROVE  BudgetInv'
    <2> USE DEF BudgetInv
    <2>1. Budget!NoCall \in BudgetCalls /\ ~Budget!NoCall.window
      BY DEF Budget!NoCall, BudgetCalls
    <2>2. task' = [task EXCEPT ![t] = Budget!NoCall] /\ UNCHANGED <<used, stale, excess>>
      BY <1>4 DEF Budget!CallFails
    <2>3. \A x \in Tasks : task'[x] = task[x] \/ task'[x] = Budget!NoCall
      BY <2>2
    <2>4. task' \in [Tasks -> BudgetCalls]
      BY <2>1, <2>2
    <2> QED BY <2>1, <2>2, <2>3, <2>4 DEF Budget!OverdraftIsExplained
  <1>5. CASE Budget!WindowEnds
    BY <1>5 DEF Budget!WindowEnds, BudgetInv, Budget!OverdraftIsExplained
  <1>6. CASE UNCHANGED budgetVars
    BY <1>6 DEF budgetVars, BudgetInv, Budget!OverdraftIsExplained
  <1> QED BY <1>2, <1>3, <1>4, <1>5, <1>6 DEF Budget!Next

\* Permits are neither lost nor made up across the two counters, and a budget is
\* overdrawn only by what its checks could not know of.
THEOREM TokensAreAlwaysConserved == Spec => []TokensAreConserved
  <1>1. Init => BucketInv /\ BudgetInv
    BY BucketInit, BudgetInit DEF Init
  <1>2. BucketInv /\ BudgetInv /\ [Next]_allVars => (BucketInv /\ BudgetInv)'
    BY PartsStep, BucketStep, BudgetStep
  <1>3. BucketInv /\ BudgetInv => TokensAreConserved
    BY BucketConserves DEF BudgetInv, TokensAreConserved
  <1> QED BY <1>1, <1>2, <1>3, PTL DEF Spec

-----------------------------------------------------------------------------
(* The disk self-heal: the cleaner's threads and the Docker host.          *)

\* A thread of the cleaner never plans to remove a protected or a dangling image.
CleanerThread == [at : {"none", "cache", "dangling", "ids", "images", "remove", "done"},
                  ids : SUBSET Images, todo : SUBSET (Images \ (Protected \cup Dangling)),
                  errors : BOOLEAN]
DockerHost == [present : SUBSET Images, used : SUBSET Images,
               retagged : SUBSET (Images \ Dangling), engine : {"up", "silent", "gone"}]

\* A cleanup that nothing disturbs: it has met no error, and what it is about to
\* remove is there and in nobody's use.
Smooth(t, present) ==
    /\ ~t.errors /\ t.todo \subseteq present \ InUse
    /\ t.at = "images" => t.ids = InUse

\* Before the first disturbance the host is what it was, but for images removed.
ThreadsInv ==
    /\ thread \in [Heal!AllJobs -> CleanerThread]
    /\ docker \in DockerHost
    /\ disturbances \in Nat
    /\ Heal!CleanupIsSafe
    /\ disturbances = 0 => docker.used = InUse /\ docker.retagged = {} /\ docker.engine = "up"
    /\ \A j \in Heal!AllJobs : Heal!Undisturbed(j) => Smooth(thread[j], docker.present)

\* All images are there at first, and no thread runs.
LEMMA ThreadsInit == Heal!Init => ThreadsInv
  <1> SUFFICES ASSUME Heal!Init PROVE ThreadsInv
    OBVIOUS
  <1>1. /\ Heal!NoThread \in CleanerThread /\ Smooth(Heal!NoThread, Images)
    BY DEF Heal!NoThread, CleanerThread, Smooth
  <1>2. thread \in [Heal!AllJobs -> CleanerThread] /\ \A j \in Heal!AllJobs : thread[j] = Heal!NoThread
    BY <1>1, Zenon DEF Heal!Init
  <1>3. Protected \subseteq Images /\ InUse \subseteq Images
    BY MotorAssumption
  <1>4. /\ docker \in DockerHost /\ docker.present = Images /\ docker.used = InUse /\ docker.retagged = {}
        /\ docker.engine = "up" /\ disturbances = 0
    BY <1>3 DEF Heal!Init, DockerHost
  <1> QED BY <1>1, <1>2, <1>3, <1>4 DEF ThreadsInv, Heal!CleanupIsSafe

\* While a thread's cleanup is undisturbed no other has begun.
LEMMA OneAtATime ==
    ASSUME NEW j \in Heal!AllJobs, NEW k \in Heal!AllJobs, Heal!Undisturbed(k), k # j
    PROVE  thread[j].at = "none"
  BY DEF Heal!Undisturbed

\* Images that may go, go, while a thread moves on.
LEMMA ImagesGo ==
    ASSUME ThreadsInv, NEW j \in Heal!AllJobs, NEW new \in CleanerThread, NEW gone,
           gone \cap (docker.used \cup docker.retagged \cup Protected) = {},
           new.at # "none",
           thread' = [thread EXCEPT ![j] = new],
           docker' = [docker EXCEPT !.present = docker.present \ gone] \/ docker' = docker,
           disturbances' \in {disturbances, disturbances + 1},
           disturbances' = disturbances /\ Heal!Undisturbed(j) => Smooth(new, docker'.present)
    PROVE  ThreadsInv'
  <1> USE DEF ThreadsInv
  <1>1. thread' \in [Heal!AllJobs -> CleanerThread] /\ disturbances' \in Nat
    OBVIOUS
  <1>2. disturbances' = 0 => disturbances = 0 /\ disturbances' = disturbances
    OBVIOUS
  <1>3. \A k \in Heal!AllJobs : thread'[k] = IF k = j THEN new ELSE thread[k]
    OBVIOUS
  <1>4. ASSUME NEW k \in Heal!AllJobs, Heal!Undisturbed(k)'
        PROVE  Smooth(thread[k], docker.present)' /\ disturbances = 0
    <2>1. disturbances' = 0 /\ \A x \in Heal!AllJobs \ {k} : thread'[x].at = "none"
      BY <1>4 DEF Heal!Undisturbed
    <2>2. k = j
      BY <1>3, <2>1
    <2>3. Heal!Undisturbed(j)
      BY <1>2, <1>3, <2>1, <2>2 DEF Heal!Undisturbed
    <2>4. Smooth(new, docker'.present)
      BY <1>2, <2>1, <2>3
    <2> QED BY <1>2, <1>3, <2>1, <2>2, <2>4 DEF Smooth
  <1>5. CASE docker' = docker
    BY <1>1, <1>2, <1>4, <1>5 DEF Heal!CleanupIsSafe
  <1>6. CASE docker' = [docker EXCEPT !.present = docker.present \ gone]
    <2>1. /\ docker' \in DockerHost /\ docker'.present = docker.present \ gone
          /\ docker'.used = docker.used /\ docker'.retagged = docker.retagged
          /\ docker'.engine = docker.engine
      BY <1>6 DEF DockerHost
    <2> QED BY <1>1, <1>2, <1>4, <2>1 DEF Heal!CleanupIsSafe
  <1> QED BY <1>5, <1>6

\* A thread that does not change the host.
LEMMA ThreadGoesOn ==
    ASSUME ThreadsInv, NEW j \in Heal!AllJobs, NEW new \in CleanerThread,
           new.at # "none",
           thread' = [thread EXCEPT ![j] = new],
           docker' = docker,
           disturbances' \in {disturbances, disturbances + 1},
           disturbances' = disturbances /\ Heal!Undisturbed(j) => Smooth(new, docker.present)
    PROVE  ThreadsInv'
  <1>1. PICK gone : gone = {}
    OBVIOUS
  <1>2. gone \cap (docker.used \cup docker.retagged \cup Protected) = {}
    BY <1>1
  <1> QED BY <1>2, ImagesGo

\* A phase is over, with an error or without: an engine that is up fails no request
\* without a disturbance.
LEMMA AfterAPhase ==
    ASSUME ThreadsInv, NEW j \in Heal!AllJobs, NEW erred \in BOOLEAN,
           NEW a \in {"dangling", "ids", "remove", "done"}
    PROVE  /\ Heal!After(j, a, erred) \in CleanerThread
           /\ Heal!After(j, a, erred).at = a
           /\ Heal!After(j, a, erred).ids = thread[j].ids
           /\ Heal!After(j, a, erred).todo = thread[j].todo
           /\ ~erred /\ ~thread[j].errors => ~Heal!After(j, a, erred).errors
  <1>1. thread[j] \in CleanerThread
    BY DEF ThreadsInv
  <1>2. PICK e \in BOOLEAN : e <=> thread[j].errors \/ erred
    OBVIOUS
  <1>3. PICK mid : mid = [thread[j] EXCEPT !.at = a]
    OBVIOUS
  <1>4. /\ mid \in CleanerThread /\ mid.at = a /\ mid.ids = thread[j].ids
        /\ mid.todo = thread[j].todo
    BY <1>1, <1>3 DEF CleanerThread
  <1>5. PICK new : new = [mid EXCEPT !.errors = e]
    OBVIOUS
  <1>6. /\ new \in CleanerThread /\ new.at = mid.at /\ new.ids = mid.ids
        /\ new.todo = mid.todo /\ new.errors = e
    BY <1>4, <1>5 DEF CleanerThread
  <1>7. Heal!After(j, a, erred) = new
    <2>1. thread[j].errors \in BOOLEAN
      BY <1>1 DEF CleanerThread
    <2>2. e = (thread[j].errors \/ erred)
      BY <1>2, <2>1
    <2>3. Heal!After(j, a, erred) = [thread[j] EXCEPT !.at = a, !.errors = thread[j].errors \/ erred]
      BY Zenon DEF Heal!After
    <2>4. new = [thread[j] EXCEPT !.at = a, !.errors = e]
      BY <1>1, <1>3, <1>5 DEF CleanerThread
    <2> QED BY <2>2, <2>3, <2>4
  <1> QED BY <1>2, <1>4, <1>6, <1>7

\* A request's answer disturbs the cleanup only if it fails an engine that is up.
LEMMA AnswersDisturb ==
    ASSUME ThreadsInv, NEW j \in Heal!AllJobs, NEW ok \in BOOLEAN, Heal!Answers(ok)
    PROVE  /\ disturbances' \in {disturbances, disturbances + 1}
           /\ disturbances' = disturbances /\ Heal!Undisturbed(j) => ok
  <1>1. disturbances \in Nat /\ (Heal!Undisturbed(j) => docker.engine = "up")
    BY DEF ThreadsInv, Heal!Undisturbed
  <1> QED BY <1>1 DEF Heal!Answers, Heal!Disturbed, Heal!Quiet

\* What others do on the host never takes an image away.
LEMMA OthersKeepImages ==
    ASSUME ThreadsInv, Heal!OthersChange
    PROVE  ThreadsInv'
  <1> USE DEF ThreadsInv
  <1>0. thread' = thread /\ disturbances' \in Nat /\ disturbances' # 0
    BY DEF Heal!OthersChange, Heal!Disturbed
  <1>1. \A j \in Heal!AllJobs : ~Heal!Undisturbed(j)'
    BY <1>0 DEF Heal!Undisturbed
  <1>2. ASSUME NEW m \in docker.present, docker' = [docker EXCEPT !.used = @ \cup {m}]
        PROVE  ThreadsInv'
    <2>1. /\ docker' \in DockerHost /\ docker'.present = docker.present
          /\ docker'.used = docker.used \cup {m} /\ docker'.retagged = docker.retagged
      BY <1>2 DEF DockerHost
    <2> QED BY <1>0, <1>1, <1>2, <2>1 DEF Heal!CleanupIsSafe
  <1>3. ASSUME NEW m \in docker.used, docker' = [docker EXCEPT !.used = @ \ {m}]
        PROVE  ThreadsInv'
    <2>1. /\ docker' \in DockerHost /\ docker'.present = docker.present
          /\ docker'.used = docker.used \ {m} /\ docker'.retagged = docker.retagged
      BY <1>3 DEF DockerHost
    <2> QED BY <1>0, <1>1, <1>3, <2>1 DEF Heal!CleanupIsSafe
  <1>4. ASSUME NEW m \in docker.present \ Dangling, docker' = [docker EXCEPT !.retagged = @ \cup {m}]
        PROVE  ThreadsInv'
    <2>1. /\ docker' \in DockerHost /\ docker'.present = docker.present
          /\ docker'.used = docker.used /\ docker'.retagged = docker.retagged \cup {m}
      BY <1>4 DEF DockerHost
    <2> QED BY <1>0, <1>1, <1>4, <2>1 DEF Heal!CleanupIsSafe
  <1>5. ASSUME NEW e \in {"up", "silent", "gone"}, docker' = [docker EXCEPT !.engine = e]
        PROVE  ThreadsInv'
    <2>1. /\ docker' \in DockerHost /\ docker'.present = docker.present
          /\ docker'.used = docker.used /\ docker'.retagged = docker.retagged
      BY <1>5 DEF DockerHost
    <2> QED BY <1>0, <1>1, <2>1 DEF Heal!CleanupIsSafe
  <1> QED BY <1>2, <1>3, <1>4, <1>5 DEF Heal!OthersChange

\* What a thread does keeps the images that are used or protected.
LEMMA ThreadStepIsSafe ==
    ASSUME ThreadsInv, NEW j \in Heal!AllJobs, Heal!ThreadStep(j)
    PROVE  ThreadsInv'
  <1>0. /\ thread[j] \in CleanerThread /\ docker \in DockerHost /\ disturbances \in Nat
        /\ Heal!Undisturbed(j) => /\ ~thread[j].errors /\ thread[j].todo \subseteq docker.present \ InUse
                                  /\ thread[j].at = "images" => thread[j].ids = InUse
                                  /\ docker.used = InUse /\ docker.retagged = {}
    BY DEF ThreadsInv, Smooth, Heal!Undisturbed
  <1>1. ASSUME NEW ok \in BOOLEAN, Heal!prune_build_cache(j, ok)
        PROVE  ThreadsInv'
    <2>1. PICK erred \in BOOLEAN : erred = ~ok
      OBVIOUS
    <2>2. PICK new : new = Heal!After(j, "dangling", erred)
      OBVIOUS
    <2>3. /\ new \in CleanerThread /\ new.at = "dangling" /\ new.todo = thread[j].todo
          /\ ~erred /\ ~thread[j].errors => ~new.errors
      BY <2>2, AfterAPhase
    <2>4. thread' = [thread EXCEPT ![j] = new] /\ docker' = docker /\ Heal!Answers(ok)
      BY <1>1, <2>1, <2>2 DEF Heal!prune_build_cache, Heal!Thread
    <2>5. /\ disturbances' \in {disturbances, disturbances + 1}
          /\ disturbances' = disturbances /\ Heal!Undisturbed(j) => ok
      BY <2>4, AnswersDisturb
    <2>6. disturbances' = disturbances /\ Heal!Undisturbed(j) => Smooth(new, docker.present)
      BY <1>0, <2>1, <2>3, <2>5 DEF Smooth
    <2> QED BY <2>3, <2>4, <2>5, <2>6, ThreadGoesOn
  <1>2. ASSUME NEW ok \in BOOLEAN, Heal!prune_dangling(j, ok)
        PROVE  ThreadsInv'
    <2>1. PICK erred \in BOOLEAN : erred = ~ok
      OBVIOUS
    <2>2. PICK new : new = Heal!After(j, "ids", erred)
      OBVIOUS
    <2>3. /\ new \in CleanerThread /\ new.at = "ids" /\ new.todo = thread[j].todo
          /\ ~erred /\ ~thread[j].errors => ~new.errors
      BY <2>2, AfterAPhase
    <2>4. PICK gone : gone = (docker.present \cap Dangling) \ docker.used
      OBVIOUS
    <2>5. gone \cap (docker.used \cup docker.retagged \cup Protected) = {}
      BY <1>0, <2>4, MotorAssumption DEF DockerHost
    <2>6. /\ thread' = [thread EXCEPT ![j] = new] /\ Heal!Answers(ok)
          /\ docker' = [docker EXCEPT !.present = docker.present \ gone] \/ docker' = docker
      BY <1>2, <2>1, <2>2, <2>4 DEF Heal!prune_dangling, Heal!Thread
    <2>7. /\ disturbances' \in {disturbances, disturbances + 1}
          /\ disturbances' = disturbances /\ Heal!Undisturbed(j) => ok
      BY <2>6, AnswersDisturb
    <2>8. new.todo \cap gone = {}
      BY <2>3, <2>4 DEF CleanerThread
    <2>9. docker'.present \in {docker.present, docker.present \ gone}
      BY <1>0, <2>6 DEF DockerHost
    <2>10. disturbances' = disturbances /\ Heal!Undisturbed(j) => Smooth(new, docker'.present)
      BY <1>0, <2>1, <2>3, <2>7, <2>8, <2>9 DEF Smooth
    <2> QED BY <2>3, <2>5, <2>6, <2>7, <2>10, ImagesGo
  <1>3. ASSUME NEW ok \in BOOLEAN, NEW m \in Images, Heal!try_remove(j, m, ok)
        PROVE  ThreadsInv'
    <2>1. PICK erred \in BOOLEAN : erred = ~ok
      OBVIOUS
    <2>2. PICK mid, new : /\ mid = Heal!After(j, "remove", erred)
                          /\ new = [mid EXCEPT !.todo = @ \ {m}]
      OBVIOUS
    <2>3. /\ mid \in CleanerThread /\ mid.at = "remove" /\ mid.todo = thread[j].todo
          /\ ~erred /\ ~thread[j].errors => ~mid.errors
      BY <2>2, AfterAPhase
    <2>4. /\ new \in CleanerThread /\ new.at = "remove" /\ new.todo = thread[j].todo \ {m}
          /\ new.errors = mid.errors
      BY <2>2, <2>3 DEF CleanerThread
    <2>5. /\ m \in thread[j].todo /\ (ok => Heal!Deletable(m))
          /\ IF ok \/ Heal!Deletable(m) THEN Heal!Answers(ok) ELSE Heal!Quiet
          /\ docker' = IF ok THEN [docker EXCEPT !.present = @ \ {m}] ELSE docker
      BY <1>3 DEF Heal!try_remove
    <2>6. thread' = [thread EXCEPT ![j] = new]
      BY <1>3, <2>1, <2>2 DEF Heal!try_remove, Heal!Thread
    <2>7. PICK gone : gone = IF ok THEN {m} ELSE {}
      OBVIOUS
    <2>8. m \notin Protected /\ (ok => m \notin docker.used \cup docker.retagged)
      BY <1>0, <2>5 DEF Heal!Deletable, CleanerThread
    <2>9. gone \cap (docker.used \cup docker.retagged \cup Protected) = {}
      BY <2>7, <2>8
    <2>10. docker' = [docker EXCEPT !.present = docker.present \ gone] \/ docker' = docker
      BY <2>5, <2>7
    <2>11. Heal!Undisturbed(j) => Heal!Deletable(m)
      BY <1>0, <2>5 DEF Heal!Deletable
    <2>12. /\ disturbances' \in {disturbances, disturbances + 1}
           /\ disturbances' = disturbances /\ Heal!Undisturbed(j) => ok
      <3>1. CASE Heal!Answers(ok)
        BY <3>1, AnswersDisturb
      <3>2. CASE ~Heal!Answers(ok)
        BY <2>5, <2>11, <3>2 DEF Heal!Quiet
      <3> QED BY <3>1, <3>2
    <2>13. docker'.present \in {docker.present, docker.present \ {m}}
      BY <1>0, <2>5 DEF DockerHost
    <2>14. disturbances' = disturbances /\ Heal!Undisturbed(j) => Smooth(new, docker'.present)
      BY <1>0, <2>1, <2>3, <2>4, <2>12, <2>13 DEF Smooth
    <2> QED BY <2>4, <2>6, <2>9, <2>10, <2>12, <2>14, ImagesGo
  <1>4. CASE Heal!list_containers(j)
    <2>1. PICK mid, new : /\ mid = [thread[j] EXCEPT !.at = "images"]
                          /\ new = [mid EXCEPT !.ids = docker.used]
      OBVIOUS
    <2>2. mid \in CleanerThread /\ mid.at = "images" /\ mid.todo = thread[j].todo /\ mid.errors = thread[j].errors
      BY <1>0, <2>1 DEF CleanerThread
    <2>3. /\ new \in CleanerThread /\ new.at = "images" /\ new.ids = docker.used
          /\ new.todo = thread[j].todo /\ new.errors = thread[j].errors
      BY <1>0, <2>1, <2>2 DEF CleanerThread, DockerHost
    <2>4. thread' = [thread EXCEPT ![j] = new] /\ docker' = docker /\ Heal!Answers(TRUE)
      BY <1>0, <1>4, <2>1 DEF Heal!list_containers, Heal!Thread, CleanerThread
    <2>5. disturbances' \in {disturbances, disturbances + 1}
      BY <2>4, AnswersDisturb
    <2>6. Heal!Undisturbed(j) => Smooth(new, docker.present)
      BY <1>0, <2>3 DEF Smooth
    <2> QED BY <2>3, <2>4, <2>5, <2>6, ThreadGoesOn
  <1>5. CASE Heal!list_images(j)
    <2>1. PICK r : r = Heal!Removable(docker.present, thread[j].ids)
      OBVIOUS
    <2>2. /\ r \in SUBSET (Images \ (Protected \cup Dangling))
          /\ r \subseteq docker.present \ thread[j].ids
      BY <1>0, <2>1 DEF Heal!Removable, DockerHost
    <2>3. PICK m1, m2, new : /\ m1 = [thread[j] EXCEPT !.at = "remove"] /\ m2 = [m1 EXCEPT !.ids = {}]
                             /\ new = [m2 EXCEPT !.todo = r]
      OBVIOUS
    <2>4. m1 \in CleanerThread /\ m1.at = "remove" /\ m1.errors = thread[j].errors
      BY <1>0, <2>3 DEF CleanerThread
    <2>5. m2 \in CleanerThread /\ m2.at = "remove" /\ m2.errors = m1.errors
      BY <2>3, <2>4 DEF CleanerThread
    <2>6. /\ new \in CleanerThread /\ new.at = "remove" /\ new.todo = r /\ new.errors = m2.errors
      BY <2>2, <2>3, <2>5 DEF CleanerThread
    <2>7. /\ thread' = [thread EXCEPT ![j] = new] /\ docker' = docker /\ Heal!Answers(TRUE)
          /\ thread[j].at = "images"
      BY <1>0, <1>5, <2>1, <2>3 DEF Heal!list_images, Heal!Thread, CleanerThread
    <2>8. disturbances' \in {disturbances, disturbances + 1}
      BY <2>7, AnswersDisturb
    <2>9. Heal!Undisturbed(j) => Smooth(new, docker.present)
      BY <1>0, <2>2, <2>4, <2>5, <2>6, <2>7 DEF Smooth
    <2> QED BY <2>6, <2>7, <2>8, <2>9, ThreadGoesOn
  <1>6. CASE Heal!list_fails(j)
    <2>1. PICK mid, new : /\ mid = Heal!After(j, "done", TRUE)
                          /\ new = [mid EXCEPT !.ids = {}]
      OBVIOUS
    <2>2. mid \in CleanerThread /\ mid.at = "done"
      BY <2>1, AfterAPhase
    <2>3. new \in CleanerThread /\ new.at = "done"
      BY <2>1, <2>2 DEF CleanerThread
    <2>4. thread' = [thread EXCEPT ![j] = new] /\ docker' = docker /\ Heal!Answers(FALSE)
      BY <1>6, <2>1 DEF Heal!list_fails, Heal!Thread
    <2>5. /\ disturbances' \in {disturbances, disturbances + 1}
          /\ ~(disturbances' = disturbances /\ Heal!Undisturbed(j))
      BY <2>4, AnswersDisturb
    <2> QED BY <2>3, <2>4, <2>5, ThreadGoesOn
  <1>7. CASE Heal!cleanup_done(j)
    <2>1. PICK new : new = Heal!After(j, "done", FALSE)
      OBVIOUS
    <2>2. /\ new \in CleanerThread /\ new.at = "done" /\ new.todo = thread[j].todo
          /\ ~thread[j].errors => ~new.errors
      BY <2>1, AfterAPhase
    <2>3. /\ thread' = [thread EXCEPT ![j] = new] /\ docker' = docker
          /\ disturbances' \in {disturbances, disturbances + 1}
      BY <1>7, <2>1 DEF Heal!cleanup_done, Heal!Thread, Heal!Quiet
    <2>4. Heal!Undisturbed(j) => Smooth(new, docker.present)
      BY <1>0, <2>2 DEF Smooth
    <2> QED BY <2>2, <2>3, <2>4, ThreadGoesOn
  <1> QED BY <1>1, <1>2, <1>3, <1>4, <1>5, <1>6, <1>7 DEF Heal!ThreadStep

\* The thread of a cleanup starts.
LEMMA ThreadStarts ==
    ASSUME ThreadsInv, NEW j \in Heal!AllJobs,
           thread' = [thread EXCEPT ![j].at = "cache"], docker' = docker,
           disturbances' = disturbances
    PROVE  ThreadsInv'
  <1>1. PICK new : new = [thread[j] EXCEPT !.at = "cache"]
    OBVIOUS
  <1>2. thread[j] \in CleanerThread /\ (Heal!Undisturbed(j) => Smooth(thread[j], docker.present))
    BY DEF ThreadsInv
  <1>3. /\ new \in CleanerThread /\ new.at = "cache" /\ new.todo = thread[j].todo
        /\ new.errors = thread[j].errors
    BY <1>1, <1>2 DEF CleanerThread
  <1>4. Heal!Undisturbed(j) => Smooth(new, docker.present)
    BY <1>2, <1>3 DEF Smooth
  <1>5. thread' = [thread EXCEPT ![j] = new]
    BY <1>1
  <1> QED BY <1>3, <1>4, <1>5, ThreadGoesOn

\* A step of a job leaves host and threads alone, and may count as a disturbance.
LEMMA HostAtRest ==
    ASSUME ThreadsInv, UNCHANGED <<thread, docker>>,
           disturbances' \in {disturbances, disturbances + 1}
    PROVE  ThreadsInv'
  <1>1. disturbances \in Nat /\ disturbances' \in Nat /\ (disturbances' = 0 => disturbances = 0)
    BY DEF ThreadsInv
  <1>2. \A j \in Heal!AllJobs : Heal!Undisturbed(j)' => Heal!Undisturbed(j)
    BY <1>1 DEF Heal!Undisturbed
  <1> QED BY <1>1, <1>2 DEF ThreadsInv, Heal!CleanupIsSafe, Smooth

-----------------------------------------------------------------------------
(* The disk self-heal: the jobs and the plans.                             *)

Codes == {Hosts[n].code : n \in DOMAIN Hosts}
JobRecord == [pc : {"new", "loop", "pre", "exec", "wait", "post", "rollback", "insight", "action", "done", "failed", "cancelled"},
              i : Nat, recent : SUBSET Codes, playbook : Heal!Registered \cup {"", "unknown"},
              executed : BOOLEAN, rolledback : BOOLEAN,
              result : {"none", "success", "error", "skipped"}]

\* A playbook of which nothing has begun, that has begun, and that has ended.
Fresh(r, at) == ~r.executed /\ ~r.rolledback /\ r.result = "none" /\ at = "none"
Begun(r) == r.executed /\ ~r.rolledback /\ r.result = "none"
Ended(r, at) == /\ r.result # "none"
                /\ r.rolledback <=> r.executed /\ r.result = "error"
                /\ r.result = "success" => at \in {"none", "done"}
\* The job is beyond the only host that has a playbook run, or is at it.
Beyond(r) == \E n \in DOMAIN Hosts : n < r.i /\ Hosts[n].code = "orchestrator"
AtTheHost(r) == r.i \in DOMAIN Hosts /\ Hosts[r.i].code = "orchestrator" /\ Hosts[r.i].code \notin r.recent

\* What is true of a job and its thread wherever the job is.
JobIsSound(j, r, at) ==
    /\ r.pc \in {"loop", "insight", "action"} => j \in HealJobs
    /\ r.pc \in {"pre", "exec", "wait", "post", "rollback", "insight", "action"} /\ j \in HealJobs => AtTheHost(r)
    /\ r.pc \in {"new", "pre", "exec"} => Fresh(r, at)
    /\ r.pc \in {"wait", "rollback"} => Begun(r)
    /\ r.pc = "post" => Begun(r) /\ at \in {"none", "done"}
    /\ r.pc \in {"insight", "action"} => Ended(r, at)
    /\ r.pc = "loop" => Fresh(r, at) \/ (Ended(r, at) /\ Beyond(r))
    /\ r.pc \in {"done", "failed"} => Fresh(r, at) \/ Ended(r, at)
    /\ r.pc = "cancelled" => Fresh(r, at) \/ Begun(r) \/ Ended(r, at)

\* A job between its reading of the recent heals and its end.
Underway(r) == r.pc \notin {"new", "done", "failed", "cancelled"}

\* A heal that has begun ends with its record, or with the failure or the
\* cancellation of its job, which is for good.
Lost == {"failed", "cancelled"}
HealGoesOn(p, q) == /\ p \in Lost => q \in Lost
                    /\ p \in Heal!InRun => q \in Heal!InRun \cup Lost

\* Two jobs that are under way have overlapped.  A job that is under way has seen
\* every record of another, or has overlapped that other.  A heal has been recorded
\* but for those whose job is still in it, or is lost.
JobsInv ==
    /\ job \in [Heal!AllJobs -> JobRecord]
    /\ acts \subseteq [host : Codes, by : HealJobs]
    /\ heals \subseteq [host : {"orchestrator"}, by : HealJobs]
    /\ \A j \in Heal!AllJobs : JobIsSound(j, job[j], thread[j].at)
    /\ \A j, k \in HealJobs : j # k /\ Underway(job[j]) /\ Underway(job[k]) => {j, k} \in overlap
    /\ \A a \in acts : \A k \in HealJobs :
          k # a.by /\ Underway(job[k]) => a.host \in job[k].recent \/ {a.by, k} \in overlap
    /\ \A h \in heals : h \in acts \/ job[h.by].pc \in Heal!InRun \cup Lost
    /\ Heal!SecondHealNeedsOverlap

\* A job counts the hosts.
LEMMA JobCounts == ASSUME NEW r \in JobRecord PROVE r.i \in Nat /\ r.i + 1 \in Nat /\ r.i < r.i + 1
  <1>1. r.i \in Nat
    BY DEF JobRecord
  <1> QED BY <1>1

\* The jobs have not begun.
LEMMA JobsInit == Heal!Init => JobsInv
  <1> SUFFICES ASSUME Heal!Init PROVE JobsInv
    OBVIOUS
  <1>1. Heal!NewJob \in JobRecord /\ Heal!NewJob.pc = "new" /\ Fresh(Heal!NewJob, "none")
    BY DEF Heal!NewJob, JobRecord, Fresh
  <1>2. job \in [Heal!AllJobs -> JobRecord] /\ \A j \in Heal!AllJobs : job[j] = Heal!NewJob
    BY <1>1, Zenon DEF Heal!Init
  <1>3. \A j \in Heal!AllJobs : thread[j].at = "none"
    BY DEF Heal!Init, Heal!NoThread
  <1>4. \A j \in Heal!AllJobs : JobIsSound(j, job[j], thread[j].at)
    BY <1>1, <1>2, <1>3 DEF JobIsSound
  <1>5. \A j \in HealJobs : ~Underway(job[j])
    BY <1>1, <1>2 DEF Underway, Heal!AllJobs
  <1>6. acts = {} /\ heals = {}
    BY DEF Heal!Init
  <1> QED BY <1>2, <1>4, <1>5, <1>6 DEF JobsInv, Heal!SecondHealNeedsOverlap

\* The property of second heals, with what it says of two of them.
Apart(a, b) == \/ {a.by, b.by} \in overlap
               \/ \E h \in {a, b} : h \notin acts /\ job[h.by].pc \in Lost
LEMMA HealsApart ==
    Heal!SecondHealNeedsOverlap <=> \A a, b \in heals : a.host = b.host /\ a.by # b.by => Apart(a, b)
  BY DEF Heal!SecondHealNeedsOverlap, Apart, Lost

\* What keeps two heals apart stays: overlaps are for good, and so is the loss of
\* a job, whose heal nobody else records.
LEMMA ApartStays ==
    ASSUME JobsInv, NEW a \in heals, NEW b \in heals, Apart(a, b),
           overlap \subseteq overlap',
           \A k \in HealJobs : job[k].pc \in Lost => job'[k].pc \in Lost,
           \A c \in acts' \ acts : job[c.by].pc \notin Lost
    PROVE  Apart(a, b)'
  <1>1. a.by \in HealJobs /\ b.by \in HealJobs
    BY DEF JobsInv
  <1>2. CASE {a.by, b.by} \in overlap
    BY <1>2 DEF Apart
  <1>3. ASSUME NEW h \in {a, b}, h \notin acts, job[h.by].pc \in Lost
        PROVE  Apart(a, b)'
    <2>1. h \notin acts' /\ job'[h.by].pc \in Lost
      BY <1>1, <1>3
    <2> QED BY <2>1 DEF Apart
  <1> QED BY <1>2, <1>3 DEF Apart

\* A job that goes on without reading or writing the record of the heals.  It may
\* begin a heal, of a host that it has not seen recorded: whoever else has healed
\* that host has overlapped it, or is lost.
LEMMA JobGoesOn ==
    ASSUME JobsInv, ThreadsInv, NEW j \in Heal!AllJobs, NEW new \in JobRecord,
           NEW at, JobIsSound(j, new, at),
           j \in HealJobs /\ Underway(new) => Underway(job[j]),
           j \in HealJobs => HealGoesOn(job[j].pc, new.pc),
           new.recent = job[j].recent,
           job' = [job EXCEPT ![j] = new],
           \A k \in Heal!AllJobs : thread'[k].at = IF k = j THEN at ELSE thread[k].at,
           NEW begun \in SUBSET [host : {"orchestrator"}, by : HealJobs], heals' = heals \cup begun,
           \A h \in begun : h.by = j /\ new.pc \in Heal!InRun /\ Underway(job[j]) /\ h.host \notin job[j].recent,
           UNCHANGED <<acts, overlap>>
    PROVE  JobsInv'
  <1> USE DEF JobsInv
  <1>1. job' \in [Heal!AllJobs -> JobRecord] /\ heals' \subseteq [host : {"orchestrator"}, by : HealJobs]
    OBVIOUS
  <1>2. \A k \in Heal!AllJobs : job'[k] = IF k = j THEN new ELSE job[k]
    OBVIOUS
  <1>3. \A k \in Heal!AllJobs : JobIsSound(k, job'[k], thread'[k].at)
    BY <1>2
  <1>4. HealJobs \subseteq Heal!AllJobs
    BY DEF Heal!AllJobs
  <1>5. \A k \in HealJobs : /\ Underway(job'[k]) => Underway(job[k])
                            /\ job'[k].recent = job[k].recent
                            /\ HealGoesOn(job[k].pc, job'[k].pc)
    BY <1>2, <1>4 DEF HealGoesOn
  <1>6. \A x, k \in HealJobs : x # k /\ Underway(job'[x]) /\ Underway(job'[k]) => {x, k} \in overlap'
    BY <1>5
  <1>7. \A a \in acts' : \A k \in HealJobs :
          k # a.by /\ Underway(job'[k]) => a.host \in job'[k].recent \/ {a.by, k} \in overlap'
    BY <1>5
  <1>8. \A h \in heals' : h \in acts' \/ job'[h.by].pc \in Heal!InRun \cup Lost
    <2> TAKE h \in heals'
    <2>1. CASE h \in heals
      <3>1. h.by \in HealJobs /\ (h \in acts \/ job[h.by].pc \in Heal!InRun \cup Lost)
        BY <2>1
      <3> QED BY <1>5, <3>1 DEF HealGoesOn
    <2>2. CASE h \in begun
      BY <1>2, <2>2
    <2> QED BY <2>1, <2>2
  <1>9. \A a, b \in heals : Apart(a, b) => Apart(a, b)'
    <2>1. \A k \in HealJobs : job[k].pc \in Lost => job'[k].pc \in Lost
      BY <1>5 DEF HealGoesOn
    <2> QED BY <2>1, ApartStays
  <1>10. ASSUME NEW h \in begun, NEW a \in heals, a.host = h.host, a.by # h.by
         PROVE  Apart(a, h)' /\ Apart(h, a)'
    <2>1. /\ a.by \in HealJobs /\ h.by = j /\ j \in HealJobs /\ Underway(job[j])
          /\ a.host \notin job[j].recent
      BY <1>10
    <2>2. CASE {a.by, j} \in overlap
      <3>1. {a.by, j} = {j, a.by}
        OBVIOUS
      <3> QED BY <2>1, <2>2, <3>1 DEF Apart
    <2>3. CASE a \in acts
      BY <1>10, <2>1, <2>2, <2>3
    <2>4. CASE job[a.by].pc \in Heal!InRun
      <3>1. Underway(job[a.by])
        BY <2>4 DEF Underway, Heal!InRun
      <3> QED BY <1>10, <2>1, <2>2, <3>1
    <2>5. CASE a \notin acts /\ job[a.by].pc \in Lost
      <3>1. a \notin acts' /\ job'[a.by].pc \in Lost
        BY <1>5, <2>1, <2>5 DEF HealGoesOn
      <3> QED BY <3>1 DEF Apart
    <2> QED BY <2>3, <2>4, <2>5
  <1>11. Heal!SecondHealNeedsOverlap'
    <2>1. \A a, b \in heals : a.host = b.host /\ a.by # b.by => Apart(a, b)
      BY HealsApart
    <2>2. \A a, b \in heals' : a.host = b.host /\ a.by # b.by => Apart(a, b)'
      <3> TAKE a \in heals'
      <3> TAKE b \in heals'
      <3> HAVE a.host = b.host /\ a.by # b.by
      <3>1. CASE a \in heals /\ b \in heals
        BY <1>9, <2>1, <3>1
      <3>2. CASE a \in begun /\ b \in begun
        BY <3>2
      <3>3. CASE a \in begun /\ b \in heals
        BY <1>10, <3>3
      <3>4. CASE a \in heals /\ b \in begun
        BY <1>10, <3>4
      <3> QED BY <3>1, <3>2, <3>3, <3>4
    <2> QED BY <2>2 DEF Heal!SecondHealNeedsOverlap, Apart, Lost
  <1> QED BY <1>1, <1>3, <1>6, <1>7, <1>8, <1>11

\* The same while its thread stays where it is, and no heal begins.
LEMMA JobMoves ==
    ASSUME JobsInv, ThreadsInv, NEW j \in Heal!AllJobs, NEW new \in JobRecord,
           JobIsSound(j, new, thread[j].at),
           j \in HealJobs /\ Underway(new) => Underway(job[j]),
           j \in HealJobs => HealGoesOn(job[j].pc, new.pc),
           new.recent = job[j].recent,
           job' = [job EXCEPT ![j] = new],
           UNCHANGED <<thread, acts, heals, overlap>>
    PROVE  JobsInv'
  <1>1. \A k \in Heal!AllJobs : thread'[k].at = IF k = j THEN thread[j].at ELSE thread[k].at
    OBVIOUS
  <1>2. PICK begun \in SUBSET [host : {"orchestrator"}, by : HealJobs] : begun = {}
    OBVIOUS
  <1> QED BY <1>1, <1>2, JobGoesOn

\* A heal reads what has been recorded, and overlaps whoever is under way.
LEMMA JobQueries ==
    ASSUME JobsInv, ThreadsInv, NEW j \in Heal!AllJobs, Heal!query(j)
    PROVE  JobsInv'
  <1> USE DEF JobsInv
  <1>0. j \in HealJobs /\ HealJobs \subseteq Heal!AllJobs
    BY DEF Heal!AllJobs, Heal!query
  <1>1. PICK p, rc : p = (IF schemaReady THEN "loop" ELSE "failed") /\ rc = {a.host : a \in acts}
    OBVIOUS
  <1>2. p \in {"loop", "failed"} /\ rc \in SUBSET Codes
    BY <1>1
  <1>3. PICK mid : mid = [job[j] EXCEPT !.pc = p]
    OBVIOUS
  <1>4. PICK new : new = [mid EXCEPT !.recent = rc]
    OBVIOUS
  <1>5. job[j] \in JobRecord /\ job[j].pc = "new" /\ Fresh(job[j], thread[j].at)
    BY DEF Heal!query, JobIsSound
  <1>6. new \in JobRecord /\ new.pc = p /\ new.recent = rc /\ Fresh(new, thread[j].at)
    BY <1>2, <1>3, <1>4, <1>5 DEF JobRecord, Fresh
  <1>7. job' = [job EXCEPT ![j] = new]
    <2>1. job' = [job EXCEPT ![j].pc = p, ![j].recent = rc]
      BY <1>1, Zenon DEF Heal!query
    <2> QED BY <1>3, <1>4, <1>5, <2>1 DEF JobRecord
  <1>8. /\ UNCHANGED <<thread, acts, heals>> /\ overlap \subseteq overlap'
        /\ \A k \in HealJobs \ {j} : Underway(job[k]) => {j, k} \in overlap'
    BY DEF Heal!query, Underway
  <1>9. \A k \in Heal!AllJobs : job'[k] = IF k = j THEN new ELSE job[k]
    BY <1>7
  <1>10. JobIsSound(j, new, thread[j].at)
    BY <1>0, <1>2, <1>6 DEF JobIsSound
  <1>11. \A k \in Heal!AllJobs : JobIsSound(k, job'[k], thread'[k].at)
    BY <1>8, <1>9, <1>10
  <1>12. \A x, k \in HealJobs : x # k /\ Underway(job'[x]) /\ Underway(job'[k]) => {x, k} \in overlap'
    <2> TAKE x \in HealJobs
    <2> TAKE k \in HealJobs
    <2>1. {x, j} = {j, x}
      OBVIOUS
    <2> QED BY <1>0, <1>8, <1>9, <2>1
  <1>13. \A a \in acts' : \A k \in HealJobs :
          k # a.by /\ Underway(job'[k]) => a.host \in job'[k].recent \/ {a.by, k} \in overlap'
    BY <1>0, <1>1, <1>6, <1>8, <1>9
  <1>14. job' \in [Heal!AllJobs -> JobRecord]
    BY <1>6, <1>7
  <1>15. \A k \in HealJobs : HealGoesOn(job[k].pc, job'[k].pc)
    BY <1>0, <1>5, <1>9 DEF HealGoesOn, Lost, Heal!InRun
  <1>16. \A h \in heals' : h \in acts' \/ job'[h.by].pc \in Heal!InRun \cup Lost
    BY <1>8, <1>15 DEF HealGoesOn
  <1>17. \A a, b \in heals' : a.host = b.host /\ a.by # b.by => Apart(a, b)'
    <2>1. \A k \in HealJobs : job[k].pc \in Lost => job'[k].pc \in Lost
      BY <1>15 DEF HealGoesOn
    <2>2. \A a, b \in heals : Apart(a, b) => Apart(a, b)'
      BY <1>8, <2>1, ApartStays
    <2> QED BY <1>8, <2>2, HealsApart
  <1>18. Heal!SecondHealNeedsOverlap'
    BY <1>17 DEF Heal!SecondHealNeedsOverlap, Apart, Lost
  <1> QED BY <1>8, <1>11, <1>12, <1>13, <1>14, <1>16, <1>18

\* A job that only changes its place in the program.
LEMMA JobGoto ==
    ASSUME JobsInv, ThreadsInv, NEW j \in Heal!AllJobs, NEW p,
           p \in {"insight", "action", "exec", "post", "rollback", "done", "failed", "cancelled"},
           job' = [job EXCEPT ![j].pc = p],
           UNCHANGED <<thread, acts, heals, overlap>>,
           Underway(job[j]), j \in HealJobs => HealGoesOn(job[j].pc, p),
           p \in {"insight", "action", "exec", "post", "rollback"} /\ j \in HealJobs => AtTheHost(job[j]),
           p \in {"insight", "action"} => j \in HealJobs /\ Ended(job[j], thread[j].at),
           p = "exec" => Fresh(job[j], thread[j].at),
           p = "post" => Begun(job[j]) /\ thread[j].at \in {"none", "done"},
           p = "rollback" => Begun(job[j]),
           p \in {"done", "failed"} => Fresh(job[j], thread[j].at) \/ Ended(job[j], thread[j].at),
           p = "cancelled" => Fresh(job[j], thread[j].at) \/ Begun(job[j]) \/ Ended(job[j], thread[j].at)
    PROVE  JobsInv'
  <1>1. PICK new : new = [job[j] EXCEPT !.pc = p]
    OBVIOUS
  <1>2. job[j] \in JobRecord
    BY DEF JobsInv
  <1>3. /\ new \in JobRecord /\ new.pc = p /\ new.recent = job[j].recent
        /\ new.executed = job[j].executed /\ new.rolledback = job[j].rolledback
        /\ new.result = job[j].result /\ new.i = job[j].i
    BY <1>1, <1>2 DEF JobRecord
  <1>4. job' = [job EXCEPT ![j] = new]
    BY <1>1
  <1>5. /\ Fresh(new, thread[j].at) = Fresh(job[j], thread[j].at)
        /\ Begun(new) = Begun(job[j]) /\ Ended(new, thread[j].at) = Ended(job[j], thread[j].at)
        /\ AtTheHost(new) = AtTheHost(job[j])
    BY <1>3 DEF Fresh, Begun, Ended, AtTheHost
  <1>6. JobIsSound(j, new, thread[j].at)
    BY <1>3, <1>5 DEF JobIsSound
  <1> QED BY <1>3, <1>4, <1>6, JobMoves

\* A heal goes on to the next host, having had nothing to run, or its playbook ended.
LEMMA JobNextHost ==
    ASSUME JobsInv, ThreadsInv, NEW j \in HealJobs, Underway(job[j]),
           \/ Fresh(job[j], thread[j].at)
           \/ Ended(job[j], thread[j].at) /\ (Beyond(job[j]) \/ AtTheHost(job[j])),
           job' = Heal!NextHost(j)
    PROVE  \E new \in JobRecord :
              /\ JobIsSound(j, new, thread[j].at) /\ Underway(new) /\ new.recent = job[j].recent
              /\ new.pc = "loop" /\ job' = [job EXCEPT ![j] = new]
  <1>0. job[j] \in JobRecord
    BY DEF JobsInv, Heal!AllJobs
  <1>1. PICK n \in Nat : n = job[j].i + 1 /\ job[j].i < n
    BY <1>0, JobCounts
  <1>2. PICK mid : mid = [job[j] EXCEPT !.pc = "loop"]
    OBVIOUS
  <1>3. PICK new : new = [mid EXCEPT !.i = n]
    OBVIOUS
  <1>4. mid \in JobRecord /\ mid.i = job[j].i
    BY <1>0, <1>2 DEF JobRecord
  <1>5. /\ new \in JobRecord /\ new.pc = "loop" /\ new.i = n /\ new.recent = job[j].recent
        /\ new.executed = job[j].executed /\ new.rolledback = job[j].rolledback
        /\ new.result = job[j].result
    BY <1>0, <1>2, <1>3, <1>4 DEF JobRecord
  <1>6. job' = [job EXCEPT ![j] = new]
    <2>1. job' = [job EXCEPT ![j].pc = "loop", ![j].i = n]
      BY <1>1 DEF Heal!NextHost
    <2> QED BY <1>0, <1>2, <1>3, <2>1 DEF JobRecord, JobsInv, Heal!AllJobs
  <1>7. Beyond(job[j]) \/ AtTheHost(job[j]) => Beyond(new)
    <2>1. job[j].i \in Nat /\ job[j].i < n
      BY <1>0, <1>1, JobCounts
    <2>2. DOMAIN Hosts \subseteq Nat
      BY MotorAssumption
    <2> QED BY <1>1, <1>5, <2>1, <2>2 DEF Beyond, AtTheHost
  <1>8. JobIsSound(j, new, thread[j].at)
    BY <1>5, <1>7 DEF JobIsSound, Fresh, Ended
  <1> QED BY <1>5, <1>6, <1>8 DEF Underway

\* The executor returns: the heal, or the plan, goes on.
LEMMA JobReturns ==
    ASSUME JobsInv, ThreadsInv, NEW j \in Heal!AllJobs, NEW r \in {"success", "error", "skipped"},
           Underway(job[j]), j \in HealJobs => AtTheHost(job[j]),
           ~job[j].rolledback, job[j].executed => r # "error",
           r = "success" => thread[j].at \in {"none", "done"},
           j \in HealJobs /\ job[j].pc \in Heal!InRun => r # "skipped",
           Heal!Return(j, r), UNCHANGED <<thread, acts, heals, overlap>>
    PROVE  JobsInv'
  <1>0. job[j] \in JobRecord
    BY DEF JobsInv
  <1>1. PICK n \in Nat : /\ n = IF r = "skipped" THEN job[j].i + 1 ELSE job[j].i
                         /\ r = "skipped" => job[j].i < n
    BY <1>0, JobCounts
  <1>2. PICK p : p = IF j \in PlanJobs THEN "done" ELSE IF r = "skipped" THEN "loop" ELSE "insight"
    OBVIOUS
  <1>3. PICK m1, m2, new : /\ m1 = [job[j] EXCEPT !.result = r] /\ m2 = [m1 EXCEPT !.i = n]
                           /\ new = [m2 EXCEPT !.pc = p]
    OBVIOUS
  <1>3a. m1 \in JobRecord /\ m2 \in JobRecord
    BY <1>0, <1>3 DEF JobRecord
  <1>4. /\ new \in JobRecord /\ new.pc = p /\ new.i = n /\ new.recent = job[j].recent
        /\ new.executed = job[j].executed /\ ~new.rolledback /\ new.result = r
    BY <1>0, <1>2, <1>3 DEF JobRecord
  <1>5. job' = [job EXCEPT ![j] = new]
    <2>1. job' = [job EXCEPT ![j].result = r, ![j].i = n, ![j].pc = p]
      BY <1>1, <1>2 DEF Heal!Return
    <2>2. job \in [Heal!AllJobs -> JobRecord]
      BY DEF JobsInv
    <2> QED BY <1>0, <1>3, <1>3a, <2>1, <2>2 DEF JobRecord
  <1>6. Ended(new, thread[j].at)
    BY <1>4 DEF Ended
  <1>7. j \in HealJobs /\ p = "loop" => Beyond(new)
    <2>1. r = "skipped" /\ AtTheHost(job[j]) => job[j].i < n /\ job[j].i \in DOMAIN Hosts
      BY <1>1 DEF AtTheHost
    <2> QED BY <1>2, <1>4, <2>1 DEF Beyond, AtTheHost
  <1>8. j \in HealJobs /\ p = "insight" => AtTheHost(new)
    BY <1>1, <1>2, <1>4 DEF AtTheHost
  <1>9. p \in {"loop", "insight"} => j \in HealJobs
    BY <1>2 DEF Heal!AllJobs
  <1>10. JobIsSound(j, new, thread[j].at)
    BY <1>2, <1>4, <1>6, <1>7, <1>8, <1>9 DEF JobIsSound
  <1>11. j \in HealJobs => HealGoesOn(job[j].pc, new.pc)
    <2>1. j \in HealJobs => j \notin PlanJobs
      BY MotorAssumption
    <2> QED BY <1>2, <1>4, <2>1 DEF HealGoesOn, Underway, Lost, Heal!InRun
  <1> QED BY <1>4, <1>5, <1>10, <1>11, JobMoves

\* A heal is recorded: whoever is under way has overlapped it, and its job has no
\* other heal that is not.
LEMMA JobWrites ==
    ASSUME JobsInv, ThreadsInv, NEW j \in HealJobs, job[j].pc = "action",
           NEW new \in JobRecord, JobIsSound(j, new, thread[j].at),
           new.recent = job[j].recent, new.pc \in {"loop", "cancelled"},
           job' = [job EXCEPT ![j] = new],
           acts' = acts \cup {Heal!Action(j)},
           UNCHANGED <<thread, heals, overlap>>
    PROVE  JobsInv'
  <1> USE DEF JobsInv
  <1>1. Underway(job[j]) /\ AtTheHost(job[j]) /\ HealJobs \subseteq Heal!AllJobs
    BY DEF JobIsSound, Underway, Heal!AllJobs
  <1>2. PICK a : a = Heal!Action(j)
    OBVIOUS
  <1>3. /\ a \in [host : Codes, by : HealJobs] /\ a.by = j /\ a.host = "orchestrator"
        /\ a = [host |-> "orchestrator", by |-> j] /\ a.host \notin job[j].recent
    BY <1>1, <1>2 DEF AtTheHost, Codes, Heal!Action, Heal!Host
  <1>4. acts' = acts \cup {a}
    BY <1>2
  <1>5. \A k \in Heal!AllJobs : job'[k] = IF k = j THEN new ELSE job[k]
    OBVIOUS
  <1>6. \A k \in Heal!AllJobs : JobIsSound(k, job'[k], thread'[k].at)
    BY <1>5
  <1>7. \A k \in HealJobs : /\ Underway(job'[k]) => Underway(job[k])
                            /\ job'[k].recent = job[k].recent
                            /\ job[k].pc \in Lost => job'[k].pc \in Lost
    BY <1>1, <1>5 DEF Lost
  <1>8. \A x, k \in HealJobs : x # k /\ Underway(job'[x]) /\ Underway(job'[k]) => {x, k} \in overlap'
    BY <1>7
  <1>9. \A b \in acts' : \A k \in HealJobs :
            k # b.by /\ Underway(job'[k]) => b.host \in job'[k].recent \/ {b.by, k} \in overlap'
    BY <1>1, <1>3, <1>4, <1>7
  <1>10. \A h \in heals' : h \in acts' \/ job'[h.by].pc \in Heal!InRun \cup Lost
    <2> TAKE h \in heals'
    <2>1. h \in [host : {"orchestrator"}, by : HealJobs]
      OBVIOUS
    <2>2. CASE h.by = j
      <3>1. h = a
        BY <1>3, <2>1, <2>2
      <3> QED BY <1>4, <3>1
    <2>3. CASE h.by # j
      BY <1>1, <1>4, <1>5, <2>1, <2>3
    <2> QED BY <2>2, <2>3
  <1>11. \A x, y \in heals' : x.host = y.host /\ x.by # y.by => Apart(x, y)'
    <2>1. \A c \in acts' \ acts : job[c.by].pc \notin Lost
      BY <1>3, <1>4 DEF Lost
    <2>2. \A x, y \in heals : Apart(x, y) => Apart(x, y)'
      BY <1>7, <2>1, ApartStays
    <2> QED BY <2>2, HealsApart
  <1>12. Heal!SecondHealNeedsOverlap'
    BY <1>11 DEF Heal!SecondHealNeedsOverlap, Apart, Lost
  <1>13. job' \in [Heal!AllJobs -> JobRecord] /\ acts' \subseteq [host : Codes, by : HealJobs]
    BY <1>3, <1>4
  <1> QED BY <1>6, <1>8, <1>9, <1>10, <1>12, <1>13

\* A heal writes its record and goes on.
LEMMA JobRecords ==
    ASSUME JobsInv, ThreadsInv, NEW j \in Heal!AllJobs, Heal!persist_action(j)
    PROVE  JobsInv'
  <1>1. /\ j \in HealJobs /\ Underway(job[j]) /\ AtTheHost(job[j]) /\ Ended(job[j], thread[j].at)
        /\ job[j].pc = "action"
    BY DEF JobsInv, Heal!persist_action, JobIsSound, Underway
  <1>2. PICK new \in JobRecord :
              /\ JobIsSound(j, new, thread[j].at) /\ new.recent = job[j].recent
              /\ new.pc = "loop" /\ job' = [job EXCEPT ![j] = new]
    BY <1>1, JobNextHost DEF Heal!persist_action
  <1>3. acts' = acts \cup {Heal!Action(j)} /\ UNCHANGED <<thread, heals, overlap>>
    BY DEF Heal!persist_action, Heal!Outside
  <1> QED BY <1>1, <1>2, <1>3, JobWrites

\* A job is cancelled, with its last INSERT committed or not.
LEMMA JobTimesOut ==
    ASSUME JobsInv, ThreadsInv, NEW j \in Heal!AllJobs, NEW kept \in BOOLEAN, Heal!job_timeout(j, kept)
    PROVE  JobsInv'
  <1>1. /\ j \in HealJobs /\ job[j] \in JobRecord /\ JobIsSound(j, job[j], thread[j].at)
        /\ job[j].pc \in {"loop", "pre", "wait", "post", "rollback", "insight", "action"}
        /\ job' = [job EXCEPT ![j].pc = "cancelled"] /\ UNCHANGED <<thread, heals, overlap>>
        /\ acts' = acts \/ (acts' = acts \cup {Heal!Action(j)} /\ job[j].pc = "action")
    BY DEF JobsInv, Heal!job_timeout, Heal!Reported, Heal!Candidate, Heal!InLoop, Heal!Goto, Heal!Outside
  <1>2. Underway(job[j]) /\ HealGoesOn(job[j].pc, "cancelled")
    BY <1>1 DEF Underway, HealGoesOn, Lost
  <1>3. Fresh(job[j], thread[j].at) \/ Begun(job[j]) \/ Ended(job[j], thread[j].at)
    BY <1>1 DEF JobIsSound
  <1>4. CASE acts' = acts
    BY <1>1, <1>2, <1>3, <1>4, JobGoto
  <1>5. CASE acts' = acts \cup {Heal!Action(j)} /\ job[j].pc = "action"
    <2>1. PICK new : new = [job[j] EXCEPT !.pc = "cancelled"]
      OBVIOUS
    <2>2. /\ new \in JobRecord /\ new.pc = "cancelled" /\ new.recent = job[j].recent
          /\ new.executed = job[j].executed /\ new.rolledback = job[j].rolledback
          /\ new.result = job[j].result
      BY <1>1, <2>1 DEF JobRecord
    <2>3. JobIsSound(j, new, thread[j].at)
      BY <1>3, <2>2 DEF JobIsSound, Fresh, Begun, Ended
    <2>4. job' = [job EXCEPT ![j] = new]
      BY <1>1, <2>1
    <2> QED BY <1>1, <1>5, <2>2, <2>3, <2>4, JobWrites
  <1> QED BY <1>1, <1>4, <1>5

\* A heal in its loop: the next host, the playbook, or the end.
LEMMA JobLoops ==
    ASSUME JobsInv, ThreadsInv, NEW j \in Heal!AllJobs,
           Heal!skip_host(j) \/ Heal!report_host(j) \/ Heal!start_heal(j) \/ Heal!finish(j)
    PROVE  JobsInv'
  <1>1. /\ job[j].pc = "loop" /\ j \in HealJobs /\ job[j] \in JobRecord /\ Underway(job[j])
        /\ Fresh(job[j], thread[j].at) \/ (Ended(job[j], thread[j].at) /\ Beyond(job[j]))
    BY DEF JobsInv, JobIsSound, Underway, Heal!skip_host, Heal!report_host, Heal!start_heal,
           Heal!finish, Heal!Reported, Heal!Candidate, Heal!InLoop
  <1>2. CASE Heal!skip_host(j) \/ Heal!report_host(j)
    <2>1. job' = Heal!NextHost(j) /\ UNCHANGED <<thread, acts, heals, overlap>>
      BY <1>2 DEF Heal!skip_host, Heal!report_host, Heal!Outside
    <2>2. PICK new \in JobRecord :
              /\ JobIsSound(j, new, thread[j].at) /\ Underway(new) /\ new.recent = job[j].recent
              /\ new.pc = "loop" /\ job' = [job EXCEPT ![j] = new]
      BY <1>1, <2>1, JobNextHost
    <2>3. HealGoesOn(job[j].pc, "loop")
      BY <1>1 DEF HealGoesOn, Lost, Heal!InRun
    <2> QED BY <1>1, <2>1, <2>2, <2>3, JobMoves
  <1>3. CASE Heal!start_heal(j)
    <2>1. /\ job' = [job EXCEPT ![j].pc = "pre", ![j].playbook = "clear_disk_space"]
          /\ UNCHANGED <<thread, acts, heals, overlap>>
          /\ job[j].i \in DOMAIN Hosts /\ Hosts[job[j].i].code = "orchestrator"
          /\ Hosts[job[j].i].code \notin job[j].recent
      BY <1>3 DEF Heal!start_heal, Heal!Reported, Heal!Candidate, Heal!InLoop, Heal!Host, Heal!Outside
    <2>2. AtTheHost(job[j])
      BY <2>1 DEF AtTheHost
    <2>3. ~Beyond(job[j])
      <3>1. \A n \in DOMAIN Hosts : Hosts[n].code = Hosts[job[j].i].code => n = job[j].i
        BY <2>1, MotorAssumption
      <3>2. job[j].i \in Nat
        BY <1>1, JobCounts
      <3> QED BY <2>1, <3>1, <3>2 DEF Beyond
    <2>4. PICK mid, new : mid = [job[j] EXCEPT !.pc = "pre"] /\ new = [mid EXCEPT !.playbook = "clear_disk_space"]
      OBVIOUS
    <2>5. "clear_disk_space" \in Heal!Registered
      BY DEF Heal!Registered
    <2>6. /\ mid \in JobRecord /\ new \in JobRecord /\ new.pc = "pre" /\ new.recent = job[j].recent
          /\ new.i = job[j].i /\ new.executed = job[j].executed
          /\ new.rolledback = job[j].rolledback /\ new.result = job[j].result
      BY <1>1, <2>4, <2>5 DEF JobRecord
    <2>7. job' = [job EXCEPT ![j] = new]
      BY <1>1, <2>1, <2>4 DEF JobRecord, JobsInv
    <2>8. JobIsSound(j, new, thread[j].at)
      BY <1>1, <2>2, <2>3, <2>6 DEF JobIsSound, Fresh, AtTheHost
    <2>9. HealGoesOn(job[j].pc, new.pc)
      BY <1>1 DEF HealGoesOn, Lost, Heal!InRun
    <2> QED BY <1>1, <2>1, <2>6, <2>7, <2>8, <2>9, JobMoves
  <1>4. CASE Heal!finish(j)
    <2>1. job' = [job EXCEPT ![j].pc = "done"] /\ UNCHANGED <<thread, acts, heals, overlap>>
      BY <1>4 DEF Heal!finish, Heal!Goto, Heal!Outside
    <2> QED BY <1>1, <2>1, JobGoto DEF HealGoesOn, Lost, Heal!InRun
  <1> QED BY <1>2, <1>3, <1>4

\* The steps of the executor that only choose the next one.
LEMMA JobTurns ==
    ASSUME JobsInv, ThreadsInv, NEW j \in Heal!AllJobs,
           \/ Heal!persist_insight(j) \/ Heal!execute_done(j) \/ Heal!execute_timeout(j)
           \/ Heal!JobFails(j)
    PROVE  JobsInv'
  <1>1. UNCHANGED <<thread, acts, heals, overlap>> /\ JobIsSound(j, job[j], thread[j].at)
    BY DEF JobsInv, Heal!persist_insight, Heal!execute_done, Heal!execute_timeout, Heal!JobFails, Heal!Outside
  <1>2. CASE Heal!persist_insight(j)
    <2>1. job' = [job EXCEPT ![j].pc = "action"] /\ job[j].pc = "insight"
      BY <1>2 DEF Heal!persist_insight, Heal!Goto
    <2> QED BY <1>1, <2>1, JobGoto DEF JobIsSound, Underway, HealGoesOn, Lost, Heal!InRun
  <1>3. CASE Heal!execute_done(j)
    <2>1. job' = [job EXCEPT ![j].pc = "post"] /\ job[j].pc = "wait" /\ thread[j].at = "done"
      BY <1>3 DEF Heal!execute_done, Heal!Goto
    <2> QED BY <1>1, <2>1, JobGoto DEF JobIsSound, Underway, HealGoesOn, Lost, Heal!InRun
  <1>4. CASE Heal!execute_timeout(j)
    <2>1. job' = [job EXCEPT ![j].pc = "rollback"] /\ job[j].pc = "wait"
      BY <1>4 DEF Heal!execute_timeout, Heal!Goto
    <2> QED BY <1>1, <2>1, JobGoto DEF JobIsSound, Underway, HealGoesOn, Lost, Heal!InRun
  <1>5. CASE Heal!JobFails(j)
    <2>1. job' = [job EXCEPT ![j].pc = "failed"] /\ job[j].pc \in {"loop", "insight", "action"}
      BY <1>5 DEF Heal!JobFails, Heal!Goto, Heal!Reported, Heal!Candidate, Heal!InLoop
    <2> QED BY <1>1, <2>1, JobGoto DEF JobIsSound, Underway, HealGoesOn, Lost, Heal!InRun
  <1> QED BY <1>2, <1>3, <1>4, <1>5

\* The checks before and after the playbook: it goes on, or its run ends.
LEMMA JobChecks ==
    ASSUME JobsInv, ThreadsInv, NEW j \in Heal!AllJobs, NEW a,
           a \in {"passed", "failed", "skipped", "raises", "times out"},
           Heal!pre_check(j, a) \/ Heal!post_check(j, a)
    PROVE  JobsInv'
  <1>1. UNCHANGED <<thread, acts, heals, overlap>> /\ JobIsSound(j, job[j], thread[j].at)
    BY DEF JobsInv, Heal!pre_check, Heal!post_check, Heal!Outside
  <1>2. CASE Heal!pre_check(j, a)
    <2>1. job[j].pc = "pre" /\ Fresh(job[j], thread[j].at) /\ Underway(job[j]) /\ (j \in HealJobs => AtTheHost(job[j]))
      BY <1>1, <1>2 DEF Heal!pre_check, JobIsSound, Underway
    <2>2. CASE a = "passed"
      <3>1. job' = [job EXCEPT ![j].pc = "exec"]
        BY <1>2, <2>2 DEF Heal!pre_check, Heal!Goto
      <3> QED BY <1>1, <2>1, <3>1, JobGoto DEF HealGoesOn, Lost, Heal!InRun
    <2>3. CASE a # "passed"
      <3>1. PICK r \in {"success", "error", "skipped"} : r = IF a = "skipped" THEN "skipped" ELSE "error"
        OBVIOUS
      <3>2. Heal!Return(j, r) /\ r # "success"
        BY <1>2, <2>3, <3>1 DEF Heal!pre_check
      <3> QED BY <1>1, <2>1, <3>2, JobReturns DEF Fresh, Heal!InRun
    <2> QED BY <2>2, <2>3
  <1>3. CASE Heal!post_check(j, a)
    <2>1. /\ job[j].pc = "post" /\ Begun(job[j]) /\ thread[j].at \in {"none", "done"}
          /\ Underway(job[j]) /\ (j \in HealJobs => AtTheHost(job[j]))
      BY <1>1, <1>3 DEF Heal!post_check, JobIsSound, Underway
    <2>2. CASE a = "passed"
      <3>1. Heal!Return(j, "success")
        BY <1>3, <2>2 DEF Heal!post_check
      <3> QED BY <1>1, <2>1, <3>1, JobReturns DEF Begun
    <2>3. CASE a # "passed"
      <3>1. job' = [job EXCEPT ![j].pc = "rollback"]
        BY <1>3, <2>3 DEF Heal!post_check, Heal!Goto
      <3> QED BY <1>1, <2>1, <3>1, JobGoto DEF HealGoesOn, Lost, Heal!InRun
    <2> QED BY <2>2, <2>3
  <1> QED BY <1>2, <1>3

\* The execute step begins: in the loop, or in the thread of the cleaner.
LEMMA JobExecutes ==
    ASSUME JobsInv, ThreadsInv, NEW j \in Heal!AllJobs,
           \/ Heal!execute_clear(j)
           \/ \E a \in {"passed", "failed", "skipped", "raises", "times out"} : Heal!execute_hook(j, a)
    PROVE  JobsInv'
  <1>1. PICK p \in {"wait", "rollback", "post"} :
            /\ job' = [job EXCEPT ![j].pc = p, ![j].executed = TRUE]
            /\ p = "wait" <=> Heal!execute_clear(j)
    BY DEF Heal!execute_clear, Heal!execute_hook
  <1>2. /\ job[j] \in JobRecord /\ job[j].pc = "exec" /\ Fresh(job[j], thread[j].at)
        /\ j \in HealJobs => AtTheHost(job[j])
    BY DEF JobsInv, JobIsSound, Heal!execute_clear, Heal!execute_hook
  <1>3. PICK mid, new : mid = [job[j] EXCEPT !.pc = p] /\ new = [mid EXCEPT !.executed = TRUE]
    OBVIOUS
  <1>4. /\ mid \in JobRecord /\ new \in JobRecord /\ new.pc = p /\ new.recent = job[j].recent
        /\ new.i = job[j].i /\ new.executed
        /\ new.rolledback = job[j].rolledback /\ new.result = job[j].result
    BY <1>2, <1>3 DEF JobRecord
  <1>5. job' = [job EXCEPT ![j] = new]
    BY <1>1, <1>2, <1>3 DEF JobRecord, JobsInv
  <1>6. Begun(new) /\ (j \in HealJobs => AtTheHost(new))
    BY <1>2, <1>4 DEF Fresh, Begun, AtTheHost
  <1>7. Underway(job[j]) /\ HealGoesOn(job[j].pc, new.pc)
    BY <1>2 DEF Underway, HealGoesOn, Lost, Heal!InRun
  <1>8. CASE Heal!execute_clear(j)
    <2>1. /\ UNCHANGED <<acts, overlap>> /\ thread' = [thread EXCEPT ![j].at = "cache"]
          /\ p = "wait" /\ heals' = IF j \in HealJobs THEN heals \cup {Heal!Action(j)} ELSE heals
      BY <1>1, <1>8 DEF Heal!execute_clear
    <2>2. \A k \in Heal!AllJobs : thread'[k].at = IF k = j THEN "cache" ELSE thread[k].at
      BY <2>1 DEF ThreadsInv, CleanerThread
    <2>3. JobIsSound(j, new, "cache")
      BY <1>4, <1>6, <2>1 DEF JobIsSound
    <2>4. PICK begun : begun = IF j \in HealJobs THEN {Heal!Action(j)} ELSE {}
      OBVIOUS
    <2>5. j \in HealJobs => /\ Heal!Action(j) \in [host : {"orchestrator"}, by : HealJobs]
                            /\ Heal!Action(j).by = j /\ Heal!Action(j).host \notin job[j].recent
      BY <1>2 DEF Heal!Action, Heal!Host, AtTheHost
    <2>6. /\ begun \in SUBSET [host : {"orchestrator"}, by : HealJobs] /\ heals' = heals \cup begun
          /\ \A h \in begun : h.by = j /\ h.host \notin job[j].recent
      BY <2>1, <2>4, <2>5
    <2>7. new.pc \in Heal!InRun
      BY <1>4, <2>1 DEF Heal!InRun
    <2>8. \A h \in begun : h.by = j /\ new.pc \in Heal!InRun /\ Underway(job[j]) /\ h.host \notin job[j].recent
      BY <1>7, <2>6, <2>7
    <2>9. UNCHANGED <<acts, overlap>>
      BY <2>1
    <2> QED BY <1>4, <1>5, <1>7, <2>2, <2>3, <2>6, <2>8, <2>9, JobGoesOn
  <1>9. CASE ~Heal!execute_clear(j)
    <2>1. UNCHANGED <<thread, acts, heals, overlap>> /\ p \in {"rollback", "post"}
      BY <1>1, <1>9 DEF Heal!execute_hook, Heal!Outside
    <2>2. JobIsSound(j, new, thread[j].at)
      BY <1>2, <1>4, <1>6, <2>1 DEF JobIsSound, Fresh
    <2> QED BY <1>4, <1>5, <1>7, <2>1, <2>2, JobMoves
  <1> QED BY <1>8, <1>9

\* A run that failed after its execute step began is rolled back.
LEMMA JobRollsBack ==
    ASSUME JobsInv, ThreadsInv, NEW j \in Heal!AllJobs, Heal!rollback(j)
    PROVE  JobsInv'
  <1>1. PICK p : p = IF j \in PlanJobs THEN "done" ELSE "insight"
    OBVIOUS
  <1>2. /\ job' = [job EXCEPT ![j].rolledback = TRUE, ![j].result = "error", ![j].pc = p]
        /\ UNCHANGED <<thread, acts, heals, overlap>>
    BY <1>1 DEF Heal!rollback, Heal!Outside
  <1>3. /\ job[j] \in JobRecord /\ job[j].pc = "rollback" /\ Begun(job[j])
        /\ j \in HealJobs => AtTheHost(job[j])
    BY DEF JobsInv, JobIsSound, Heal!rollback
  <1>4. PICK m1, m2, new : /\ m1 = [job[j] EXCEPT !.rolledback = TRUE] /\ m2 = [m1 EXCEPT !.result = "error"]
                           /\ new = [m2 EXCEPT !.pc = p]
    OBVIOUS
  <1>5. m1 \in JobRecord /\ m2 \in JobRecord
    BY <1>3, <1>4 DEF JobRecord
  <1>6. /\ new \in JobRecord /\ new.pc = p /\ new.recent = job[j].recent /\ new.i = job[j].i
        /\ new.executed = job[j].executed /\ new.rolledback /\ new.result = "error"
    <2>1. /\ m1.recent = job[j].recent /\ m1.i = job[j].i /\ m1.executed = job[j].executed
          /\ m1.rolledback
      BY <1>3, <1>4 DEF JobRecord
    <2>2. /\ m2.recent = m1.recent /\ m2.i = m1.i /\ m2.executed = m1.executed
          /\ m2.rolledback = m1.rolledback /\ m2.result = "error"
      BY <1>4, <1>5 DEF JobRecord
    <2>3. p \in {"done", "insight"}
      BY <1>1
    <2>4. m2 \in JobRecord /\ new = [m2 EXCEPT !.pc = p]
      BY <1>4, <1>5
    <2>5. new \in JobRecord
      BY <2>3, <2>4 DEF JobRecord
    <2>6. new.pc = p /\ new.recent = m2.recent /\ new.i = m2.i /\ new.executed = m2.executed
      BY <2>4 DEF JobRecord
    <2>7. new.rolledback = m2.rolledback /\ new.result = m2.result
      BY <2>4 DEF JobRecord
    <2> QED BY <2>1, <2>2, <2>5, <2>6, <2>7
  <1>7. job' = [job EXCEPT ![j] = new]
    <2>1. job \in [Heal!AllJobs -> JobRecord]
      BY DEF JobsInv
    <2> QED BY <1>2, <1>4, <2>1
  <1>8. Ended(new, thread[j].at) /\ (j \in HealJobs => AtTheHost(new))
    BY <1>3, <1>6 DEF Begun, Ended, AtTheHost
  <1>9. p = "insight" => j \in HealJobs
    BY <1>1 DEF Heal!AllJobs
  <1>10. JobIsSound(j, new, thread[j].at)
    BY <1>1, <1>6, <1>8, <1>9 DEF JobIsSound
  <1>11. Underway(job[j]) /\ (j \in HealJobs => HealGoesOn(job[j].pc, new.pc))
    <2>1. j \in HealJobs => p = "insight"
      BY <1>1, MotorAssumption
    <2> QED BY <1>3, <1>6, <2>1 DEF Underway, HealGoesOn, Lost, Heal!InRun
  <1> QED BY <1>2, <1>6, <1>7, <1>10, <1>11, JobMoves

\* A plan's playbook begins, or is not registered.
LEMMA PlanStarts ==
    ASSUME JobsInv, ThreadsInv, NEW j \in Heal!AllJobs, NEW pb \in Heal!Registered \cup {"unknown"},
           Heal!start_plan(j, pb)
    PROVE  JobsInv'
  <1>1. PICK p, r : /\ p = IF pb \in Heal!Registered THEN "pre" ELSE "done"
                    /\ r = IF pb \in Heal!Registered THEN "none" ELSE "error"
    OBVIOUS
  <1>2. /\ job' = [job EXCEPT ![j].playbook = pb, ![j].pc = p, ![j].result = r]
        /\ UNCHANGED <<thread, acts, heals, overlap>>
    BY <1>1 DEF Heal!start_plan, Heal!Outside
  <1>3. job[j] \in JobRecord /\ Fresh(job[j], thread[j].at) /\ j \notin HealJobs
    BY MotorAssumption DEF JobsInv, JobIsSound, Heal!start_plan
  <1>4. PICK m1, m2, new : /\ m1 = [job[j] EXCEPT !.playbook = pb] /\ m2 = [m1 EXCEPT !.pc = p]
                           /\ new = [m2 EXCEPT !.result = r]
    OBVIOUS
  <1>5. m1 \in JobRecord /\ m2 \in JobRecord
    BY <1>1, <1>3, <1>4 DEF JobRecord
  <1>6. /\ new \in JobRecord /\ new.pc = p /\ new.recent = job[j].recent
        /\ new.executed = job[j].executed /\ new.rolledback = job[j].rolledback /\ new.result = r
    <2>1. /\ m1.recent = job[j].recent /\ m1.executed = job[j].executed
          /\ m1.rolledback = job[j].rolledback
      BY <1>3, <1>4 DEF JobRecord
    <2>2. /\ m2.recent = m1.recent /\ m2.executed = m1.executed
          /\ m2.rolledback = m1.rolledback /\ m2.pc = p
      <3>1. m1 \in JobRecord /\ m2 = [m1 EXCEPT !.pc = p]
        BY <1>4, <1>5
      <3>2. m2.recent = m1.recent /\ m2.executed = m1.executed
        BY <3>1 DEF JobRecord
      <3>3. m2.rolledback = m1.rolledback /\ m2.pc = p
        BY <3>1 DEF JobRecord
      <3> QED BY <3>2, <3>3
    <2>3. r \in {"none", "error"}
      BY <1>1
    <2>4. m2 \in JobRecord /\ new = [m2 EXCEPT !.result = r]
      BY <1>4, <1>5
    <2>5. new \in JobRecord
      BY <2>3, <2>4 DEF JobRecord
    <2>6. /\ new.pc = m2.pc /\ new.recent = m2.recent
          /\ new.executed = m2.executed /\ new.rolledback = m2.rolledback /\ new.result = r
      BY <2>4 DEF JobRecord
    <2> QED BY <2>1, <2>2, <2>5, <2>6
  <1>7. job' = [job EXCEPT ![j] = new]
    <2>1. job \in [Heal!AllJobs -> JobRecord]
      BY DEF JobsInv
    <2> QED BY <1>2, <1>3, <1>4, <1>5, <2>1 DEF JobRecord
  <1>8. IF p = "pre" THEN Fresh(new, thread[j].at) ELSE p = "done" /\ Ended(new, thread[j].at)
    BY <1>1, <1>3, <1>6 DEF Fresh, Ended
  <1>9. JobIsSound(j, new, thread[j].at)
    BY <1>3, <1>6, <1>8 DEF JobIsSound
  <1> QED BY <1>2, <1>3, <1>6, <1>7, <1>9, JobMoves

\* What a job may be depends on its thread only in whether it runs.
LEMMA ThreadsLeaveJobs ==
    ASSUME JobsInv, ThreadsInv, NEW j \in Heal!AllJobs, Heal!ThreadStep(j)
    PROVE  JobsInv'
  <1> USE DEF JobsInv
  <1>1. UNCHANGED <<job, acts, heals, overlap>>
    BY DEF Heal!ThreadStep, Heal!prune_build_cache, Heal!prune_dangling, Heal!try_remove,
           Heal!list_containers, Heal!list_images, Heal!list_fails, Heal!cleanup_done, Heal!Inside
  <1>2. thread[j].at \notin {"none", "done"}
    BY DEF Heal!ThreadStep, Heal!prune_build_cache, Heal!prune_dangling, Heal!try_remove,
           Heal!list_containers, Heal!list_images, Heal!list_fails, Heal!cleanup_done
  <1>3. \A k \in Heal!AllJobs \ {j} : thread'[k] = thread[k]
    BY DEF ThreadsInv, Heal!ThreadStep, Heal!prune_build_cache, Heal!prune_dangling, Heal!try_remove,
           Heal!list_containers, Heal!list_images, Heal!list_fails, Heal!cleanup_done, Heal!Thread
  <1>4. \A at : JobIsSound(j, job[j], at)
    <2>1. JobIsSound(j, job[j], thread[j].at)
      OBVIOUS
    <2> QED BY <1>2, <2>1 DEF JobIsSound, Fresh, Ended
  <1>5. \A k \in Heal!AllJobs : JobIsSound(k, job'[k], thread'[k].at)
    BY <1>1, <1>3, <1>4
  <1> QED BY <1>1, <1>5 DEF Heal!SecondHealNeedsOverlap, Underway

\* Every step of the disk self-heal keeps what is true of its jobs.
LEMMA JobsStep == JobsInv /\ ThreadsInv /\ [Heal!Next]_healVars => JobsInv'
  <1> SUFFICES ASSUME JobsInv, ThreadsInv, [Heal!Next]_healVars PROVE JobsInv'
    OBVIOUS
  <1>1. ASSUME NEW j \in Heal!AllJobs, Heal!JobStep(j)
        PROVE  JobsInv'
    BY <1>1, JobQueries, JobLoops, JobTurns, JobRecords, JobChecks, JobExecutes, JobRollsBack
       DEF Heal!JobStep
  <1>2. ASSUME NEW j \in Heal!AllJobs, Heal!ThreadStep(j)
        PROVE  JobsInv'
    BY <1>2, ThreadsLeaveJobs
  <1>3. ASSUME NEW j \in Heal!AllJobs, Heal!JobFails(j)
        PROVE  JobsInv'
    BY <1>3, JobTurns
  <1>4. ASSUME NEW j \in Heal!AllJobs, NEW pb \in Heal!Registered \cup {"unknown"}, Heal!start_plan(j, pb)
        PROVE  JobsInv'
    BY <1>4, PlanStarts
  <1>5. CASE Heal!OthersChange \/ UNCHANGED healVars
    <2>1. UNCHANGED <<job, thread, acts, heals, overlap>>
      BY <1>5 DEF Heal!OthersChange, healVars
    <2> QED BY <2>1 DEF JobsInv, Heal!SecondHealNeedsOverlap, Underway
  <1>6. CASE Heal!HourPasses
    <2>1. /\ UNCHANGED <<job, thread, overlap>> /\ acts' = {}
          /\ heals' = {h \in heals : job[h.by].pc \in Heal!InRun}
      BY <1>6 DEF Heal!HourPasses
    <2>2. \A h \in heals' : h \in heals /\ job'[h.by].pc \in Heal!InRun /\ Underway(job[h.by])
      BY <2>1 DEF Underway, Heal!InRun
    <2>3. \A a, b \in heals' : a.by # b.by => {a.by, b.by} \in overlap'
      BY <2>1, <2>2 DEF JobsInv
    <2>4. Heal!SecondHealNeedsOverlap'
      BY <2>3 DEF Heal!SecondHealNeedsOverlap
    <2> QED BY <2>1, <2>2, <2>4 DEF JobsInv, Underway
  <1>7. ASSUME NEW j \in Heal!AllJobs, NEW kept \in BOOLEAN, Heal!job_timeout(j, kept)
        PROVE  JobsInv'
    BY <1>7, JobTimesOut
  <1> QED BY <1>1, <1>2, <1>3, <1>4, <1>5, <1>6, <1>7 DEF Heal!Next

\* Every step of the disk self-heal keeps the images.
LEMMA ThreadsStep == ThreadsInv /\ [Heal!Next]_healVars => ThreadsInv'
  <1> SUFFICES ASSUME ThreadsInv, [Heal!Next]_healVars PROVE ThreadsInv'
    OBVIOUS
  <1>1. ASSUME NEW j \in Heal!AllJobs, Heal!JobStep(j), ~Heal!execute_clear(j)
        PROVE  UNCHANGED <<thread, docker, disturbances>>
    BY <1>1 DEF Heal!JobStep, Heal!query, Heal!skip_host, Heal!report_host, Heal!start_heal,
                Heal!finish, Heal!persist_insight, Heal!persist_action, Heal!pre_check,
                Heal!execute_hook, Heal!post_check, Heal!execute_done, Heal!execute_timeout,
                Heal!rollback, Heal!Outside, Heal!Quiet
  <1>2. ASSUME NEW j \in Heal!AllJobs, Heal!execute_clear(j)
        PROVE  ThreadsInv'
    <2>1. thread' = [thread EXCEPT ![j].at = "cache"] /\ docker' = docker /\ disturbances' = disturbances
      BY <1>2 DEF Heal!execute_clear, Heal!Quiet
    <2> QED BY <2>1, ThreadStarts
  <1>3. ASSUME NEW j \in Heal!AllJobs, Heal!JobFails(j)
        PROVE  UNCHANGED <<thread, docker>> /\ disturbances' = disturbances + 1
    BY <1>3 DEF Heal!JobFails, Heal!Outside, Heal!Disturbed
  <1>4. ASSUME NEW j \in Heal!AllJobs,
               \/ \E pb \in Heal!Registered \cup {"unknown"} : Heal!start_plan(j, pb)
               \/ \E kept \in BOOLEAN : Heal!job_timeout(j, kept)
        PROVE  UNCHANGED <<thread, docker, disturbances>>
    BY <1>4 DEF Heal!start_plan, Heal!job_timeout, Heal!Outside, Heal!Quiet
  <1>5. CASE Heal!HourPasses \/ UNCHANGED healVars
    <2>1. UNCHANGED <<thread, docker, disturbances>>
      BY <1>5 DEF Heal!HourPasses, Heal!Quiet, healVars
    <2> QED BY <2>1, HostAtRest
  <1> QED BY <1>1, <1>2, <1>3, <1>4, <1>5, HostAtRest, ThreadStepIsSafe, OthersKeepImages DEF Heal!Next

\* "NEVER removes images used by ANY container", nor protected or retagged ones,
\* whatever the jobs' timeouts leave running.
THEOREM CleanupIsAlwaysSafe == Spec => []CleanupIsSafe
  <1>1. Init => ThreadsInv
    BY ThreadsInit DEF Init
  <1>2. ThreadsInv /\ [Next]_allVars => ThreadsInv'
    BY PartsStep, ThreadsStep
  <1>3. ThreadsInv => CleanupIsSafe
    BY DEF ThreadsInv, CleanupIsSafe
  <1> QED BY <1>1, <1>2, <1>3, PTL DEF Spec

\* Two plans for one insight come only from proposals that overlapped at an await;
\* two heals of one host within the hour only from jobs that did, or from a job that
\* failed or was cancelled before it had recorded its heal.
THEOREM DuplicatesAlwaysNeedOverlap == Spec => []DuplicatesNeedOverlap
  <1>1. Init => RemedyInv /\ ThreadsInv /\ JobsInv
    BY RemedyInit, ThreadsInit, JobsInit DEF Init
  <1>2. RemedyInv /\ ThreadsInv /\ JobsInv /\ [Next]_allVars => (RemedyInv /\ ThreadsInv /\ JobsInv)'
    BY PartsStep, RemedyStep, ThreadsStep, JobsStep
  <1>3. RemedyInv /\ JobsInv => DuplicatesNeedOverlap
    BY DEF RemedyInv, JobsInv, DuplicatesNeedOverlap
  <1> QED BY <1>1, <1>2, <1>3, PTL DEF Spec

-----------------------------------------------------------------------------
(* The notifications.                                                      *)

NoticeCalls == [pc : {"new", "post", "rest", "done"}, level : 0..3, attempt : 0..MaxRetries,
                webhook : BOOLEAN, any : BOOLEAN]

\* The receiver took at most one request per attempt that has ended, the webhook
\* answers True only when it took one, and the whole does only with the webhook or
\* above the first level.
NoticeIsSound(c, r) ==
    /\ c.pc = "new" => r = 0
    /\ c.pc = "post" => r < c.attempt
    /\ c.webhook => r > 0
    /\ c.any => c.pc = "done" /\ (c.webhook \/ c.level >= 2)
NotifyInv ==
    /\ notice \in [Notices -> NoticeCalls]
    /\ received \in [Notices -> 0..MaxRetries]
    /\ \A n \in Notices : NoticeIsSound(notice[n], received[n])

\* Nothing is sent at first.
LEMMA NotifyInit == Notify!Init => NotifyInv
  <1> SUFFICES ASSUME Notify!Init PROVE NotifyInv
    OBVIOUS
  <1>0. MaxRetries \in Nat
    BY MotorAssumption
  <1>1. Notify!New \in NoticeCalls /\ NoticeIsSound(Notify!New, 0)
    BY <1>0 DEF Notify!New, NoticeCalls, NoticeIsSound
  <1>2. 0 \in 0..MaxRetries
    BY <1>0
  <1> QED BY <1>1, <1>2 DEF Notify!Init, NotifyInv

\* A notice changes, and what more of it has been taken is accounted for.
LEMMA NoticeMoves ==
    ASSUME NotifyInv, NEW n \in Notices, NEW new \in NoticeCalls, NEW r \in 0..MaxRetries,
           notice' = [notice EXCEPT ![n] = new], received' = [received EXCEPT ![n] = r],
           NoticeIsSound(new, r)
    PROVE  NotifyInv'
  <1> USE DEF NotifyInv
  <1>1. notice' \in [Notices -> NoticeCalls] /\ received' \in [Notices -> 0..MaxRetries]
    OBVIOUS
  <1>2. \A m \in Notices : /\ notice'[m] = IF m = n THEN new ELSE notice[m]
                           /\ received'[m] = IF m = n THEN r ELSE received[m]
    OBVIOUS
  <1> QED BY <1>1, <1>2

\* Every step of a notification keeps what is true of it.
LEMMA NotifyStep == NotifyInv /\ [Notify!Next]_notifyVars => NotifyInv'
  <1> SUFFICES ASSUME NotifyInv, [Notify!Next]_notifyVars PROVE NotifyInv'
    OBVIOUS
  <1>0. MaxRetries \in Nat \ {0}
    BY MotorAssumption
  <1>1. ASSUME NEW n \in Notices, NEW level \in 1..3, NEW url \in BOOLEAN,
               Notify!escalate_notify(n, level, url)
        PROVE  NotifyInv'
    <2>1. PICK new : new = [Notify!New EXCEPT !.pc = IF url THEN "post" ELSE "rest",
                                            !.level = level, !.attempt = IF url THEN 1 ELSE 0]
      OBVIOUS
    <2>2. new \in NoticeCalls /\ NoticeIsSound(new, 0)
      <3>1. CASE url
        <4>1. new = [pc |-> "post", level |-> level, attempt |-> 1, webhook |-> FALSE, any |-> FALSE]
          BY <2>1, <3>1 DEF Notify!New
        <4> QED BY <1>0, <4>1 DEF NoticeCalls, NoticeIsSound
      <3>2. CASE ~url
        <4>1. new = [pc |-> "rest", level |-> level, attempt |-> 0, webhook |-> FALSE, any |-> FALSE]
          BY <2>1, <3>2 DEF Notify!New
        <4> QED BY <1>0, <4>1 DEF NoticeCalls, NoticeIsSound
      <3> QED BY <3>1, <3>2
    <2>3. received[n] = 0 /\ received' = [received EXCEPT ![n] = 0] /\ 0 \in 0..MaxRetries
      BY <1>0, <1>1 DEF Notify!escalate_notify, NotifyInv, NoticeIsSound
    <2>4. notice' = [notice EXCEPT ![n] = new]
      BY <1>1, <2>1, Zenon DEF Notify!escalate_notify
    <2> QED BY <2>2, <2>3, <2>4, NoticeMoves
  <1>2. ASSUME NEW n \in Notices, NEW taken \in BOOLEAN, NEW answered \in BOOLEAN,
               Notify!post(n, taken, answered)
        PROVE  NotifyInv'
    <2>0. /\ notice[n] \in NoticeCalls /\ received[n] \in 0..MaxRetries
          /\ NoticeIsSound(notice[n], received[n])
      BY DEF NotifyInv
    <2>1. /\ notice[n].pc = "post" /\ received[n] \in Nat /\ notice[n].attempt \in Nat
          /\ received[n] < notice[n].attempt /\ notice[n].attempt <= MaxRetries
          /\ notice[n].level \in Nat
      <3>1. notice[n].pc = "post" /\ received[n] < notice[n].attempt
        BY <1>2, <2>0 DEF Notify!post, NoticeIsSound
      <3>2. notice[n].attempt \in 0..MaxRetries /\ notice[n].level \in 0..3
        BY <2>0 DEF NoticeCalls
      <3> QED BY <1>0, <2>0, <3>1, <3>2
    <2>2. PICK r \in Nat, next \in Nat : /\ r = IF taken THEN received[n] + 1 ELSE received[n]
                                         /\ next = notice[n].attempt + 1
      BY <2>1
    <2>3. r \in 0..MaxRetries /\ r < next /\ (taken \/ received[n] > 0 => r > 0)
      BY <1>0, <2>1, <2>2
    <2>4. received' = [received EXCEPT ![n] = r]
      BY <1>2, <2>2 DEF Notify!post, NotifyInv
    <2>5. CASE ~answered /\ notice[n].attempt < MaxRetries
      <3>1. PICK new : new = [notice[n] EXCEPT !.attempt = next]
        OBVIOUS
      <3>2. next \in 0..MaxRetries
        BY <1>0, <2>1, <2>2, <2>5
      <3>3. /\ new \in NoticeCalls /\ new.pc = "post" /\ new.attempt = next
            /\ new.webhook = notice[n].webhook /\ new.any = notice[n].any /\ new.level = notice[n].level
        BY <2>0, <2>1, <3>1, <3>2 DEF NoticeCalls
      <3>4. notice' = [notice EXCEPT ![n] = new]
        BY <1>2, <2>2, <2>5, <3>1, Zenon DEF Notify!post
      <3>5. NoticeIsSound(new, r)
        BY <2>0, <2>1, <2>3, <3>3 DEF NoticeIsSound
      <3> QED BY <2>3, <2>4, <3>3, <3>4, <3>5, NoticeMoves
    <2>6. CASE answered \/ ~(notice[n].attempt < MaxRetries)
      <3>1. PICK mid, new : /\ mid = [notice[n] EXCEPT !.pc = "rest"]
                            /\ new = [mid EXCEPT !.webhook = answered]
        OBVIOUS
      <3>2. mid \in NoticeCalls /\ mid.pc = "rest" /\ mid.any = notice[n].any /\ mid.level = notice[n].level
        BY <2>0, <3>1 DEF NoticeCalls
      <3>3. /\ new \in NoticeCalls /\ new.pc = "rest" /\ new.webhook = answered
            /\ new.any = mid.any /\ new.level = mid.level
        BY <3>1, <3>2 DEF NoticeCalls
      <3>4. notice' = [notice EXCEPT ![n] = new]
        <4>1. notice' = [notice EXCEPT ![n] = [notice[n] EXCEPT !.pc = "rest", !.webhook = answered]]
          BY <1>2, <2>6, Zenon DEF Notify!post
        <4>2. new = [notice[n] EXCEPT !.pc = "rest", !.webhook = answered]
          BY <2>0, <3>1 DEF NoticeCalls
        <4> QED BY <4>1, <4>2
      <3>5. answered => taken
        BY <1>2 DEF Notify!post
      <3>6. ~notice[n].any
        BY <2>0, <2>1, Zenon DEF NoticeIsSound
      <3>7. NoticeIsSound(new, r)
        BY <2>3, <3>2, <3>3, <3>5, <3>6 DEF NoticeIsSound
      <3> QED BY <2>3, <2>4, <3>3, <3>4, <3>7, NoticeMoves
    <2> QED BY <2>5, <2>6
  <1>3. ASSUME NEW n \in Notices, Notify!rest(n)
        PROVE  NotifyInv'
    <2>1. /\ notice[n] \in NoticeCalls /\ notice[n].pc = "rest" /\ received[n] \in 0..MaxRetries
          /\ NoticeIsSound(notice[n], received[n])
      BY <1>3 DEF Notify!rest, NotifyInv
    <2>2. PICK others \in BOOLEAN : others <=> Notify!Channels(notice[n].level) \ {"webhook"} # {}
      OBVIOUS
    <2>3. others => notice[n].level >= 2
      <3>1. notice[n].level \in 0..3
        BY <2>1 DEF NoticeCalls
      <3>2. ~(notice[n].level >= 2) => ~(notice[n].level >= 3)
        BY <3>1
      <3> QED BY <2>2, <3>2 DEF Notify!Channels
    <2>4. PICK w \in BOOLEAN : w <=> notice[n].webhook \/ others
      OBVIOUS
    <2>5. PICK mid, new : mid = [notice[n] EXCEPT !.pc = "done"] /\ new = [mid EXCEPT !.any = w]
      OBVIOUS
    <2>6. /\ mid \in NoticeCalls /\ mid.pc = "done" /\ mid.webhook = notice[n].webhook
          /\ mid.level = notice[n].level
      BY <2>1, <2>5 DEF NoticeCalls
    <2>7. /\ new \in NoticeCalls /\ new.pc = "done" /\ new.webhook = mid.webhook
          /\ new.level = mid.level /\ new.any = w
      BY <2>5, <2>6 DEF NoticeCalls
    <2>8. notice' = [notice EXCEPT ![n] = new] /\ received' = [received EXCEPT ![n] = received[n]]
      <3>1. /\ notice' = [notice EXCEPT ![n].pc = "done", ![n].any = w]
            /\ received' = received
        BY <1>3, <2>1, <2>2, <2>4 DEF Notify!rest, NoticeCalls
      <3> QED BY <2>1, <2>5, <3>1 DEF NoticeCalls, NotifyInv
    <2>9. NoticeIsSound(new, received[n])
      BY <2>1, <2>3, <2>4, <2>6, <2>7 DEF NoticeIsSound
    <2> QED BY <2>1, <2>7, <2>8, <2>9, NoticeMoves
  <1>4. CASE UNCHANGED notifyVars
    BY <1>4 DEF notifyVars, NotifyInv
  <1> QED BY <1>1, <1>2, <1>3, <1>4 DEF Notify!Next

\* A playbook run reports a success only with no command of it under way, with
\* errors of its cleanup only when somebody or something disturbed it, and is rolled
\* back exactly when it executed and failed; a webhook answers True only when its
\* receiver has the notice, the whole call without one only where placeholders
\* speak for other channels, and nothing is sent more often than there are retries.
THEOREM ReportsAreAlwaysBounded == Spec => []ReportsAreBounded
  <1>1. Init => ThreadsInv /\ JobsInv /\ NotifyInv
    BY ThreadsInit, JobsInit, NotifyInit DEF Init
  <1>2. ThreadsInv /\ JobsInv /\ NotifyInv /\ [Next]_allVars => (ThreadsInv /\ JobsInv /\ NotifyInv)'
    BY PartsStep, ThreadsStep, JobsStep, NotifyStep
  <1>3. ThreadsInv /\ JobsInv => Heal!PlaybookOutcome
    <2> SUFFICES ASSUME ThreadsInv, JobsInv, NEW j \in Heal!AllJobs
                 PROVE  /\ job[j].result = "success" =>
                              /\ thread[j].at \in {"none", "done"}
                              /\ thread[j].errors => ~Heal!Undisturbed(j)
                        /\ job[j].result # "none" =>
                              (job[j].rolledback <=> job[j].executed /\ job[j].result = "error")
      BY DEF Heal!PlaybookOutcome
    <2>1. JobIsSound(j, job[j], thread[j].at) /\ job[j] \in JobRecord
      BY DEF JobsInv
    <2>2. job[j].result = "none" \/ Ended(job[j], thread[j].at)
      BY <2>1 DEF JobIsSound, Fresh, Begun, JobRecord
    <2>3. thread[j].errors => ~Heal!Undisturbed(j)
      BY DEF ThreadsInv, Smooth
    <2> QED BY <2>2, <2>3 DEF Ended
  <1>4. NotifyInv => Notify!NoticeIsBounded
    <2> SUFFICES ASSUME NotifyInv, NEW n \in Notices
                 PROVE  /\ received[n] <= MaxRetries
                        /\ notice[n].webhook => received[n] > 0
                        /\ notice[n].any /\ received[n] = 0 => notice[n].level >= 2
      BY DEF Notify!NoticeIsBounded
    <2>1. received[n] \in 0..MaxRetries /\ NoticeIsSound(notice[n], received[n]) /\ MaxRetries \in Nat
      BY MotorAssumption DEF NotifyInv
    <2> QED BY <2>1 DEF NoticeIsSound
  <1>5. ThreadsInv /\ JobsInv /\ NotifyInv => ReportsAreBounded
    BY <1>3, <1>4 DEF ReportsAreBounded
  <1> QED BY <1>1, <1>2, <1>5, PTL DEF Spec
=============================================================================
