----------------------- MODULE MCProvisioning_proofs ------------------------
(***************************************************************************)
(* What holds of the database's services: a partition for the rows of the  *)
(* month, one active template, a run that stays ended, loads that keep     *)
(* their word, a catalogue that has its terms, packs that keep their       *)
(* contract, documents that lose no text, and a schema that is what the    *)
(* version row says, for any number of sessions, months, versions and      *)
(* scripts and any documents.  Every part of the model has an invariant of *)
(* its own; a step of one part leaves the variables of the others alone.   *)
(***************************************************************************)
EXTENDS MCProvisioning, SubSequences, FiniteSetTheorems, SequenceTheorems, TLAPS

\* A step moves one part, or nothing.
LEMMA PartsMove ==
    ASSUME [MCNext]_allVars
    PROVE  /\ Next \/ UNCHANGED vars
           /\ Keep!Next \/ UNCHANGED keepVars
           /\ Audit!Next \/ UNCHANGED auditVars
           /\ Prompts!Next \/ UNCHANGED promptVars
  <1>1. CASE UNCHANGED allVars
    BY <1>1 DEF allVars
  <1>2. CASE MCNext
    BY <1>2 DEF MCNext, Rest
  <1> QED BY <1>1, <1>2

-----------------------------------------------------------------------------
(* Retention.                                                                *)
\* The two partitions that were asked for last are there: none is ever dropped,
\* because the interval's name is refused.
KeepInv ==
    /\ now \in Nat /\ ensured \in Nat /\ ensured <= now
    /\ {ensured, ensured + 1} \subseteq parts

\* No statement of the job takes one of them away.
LEMMA KeepStep ==
    ASSUME KeepInv, Keep!Next
    PROVE  KeepInv'
  <1>1. CASE Keep!InsertPoint \/ Keep!StartJob \/ Keep!DeleteRows \/ Keep!Report \/ Keep!Abandon
    BY <1>1 DEF KeepInv, Keep!InsertPoint, Keep!StartJob, Keep!DeleteRows, Keep!Report, Keep!Abandon
  <1>2. CASE Keep!MonthPasses
    BY <1>2 DEF KeepInv, Keep!MonthPasses
  <1>3. ASSUME NEW ok \in BOOLEAN, Keep!CreatePartitions(ok)
        PROVE  KeepInv'
    BY <1>3 DEF KeepInv, Keep!CreatePartitions
  <1>4. CASE Keep!DropPartitions
    BY <1>4 DEF KeepInv, Keep!DropPartitions, Keep!ValidIdentifier, Keep!MetricRule
  <1> QED BY <1>1, <1>2, <1>3, <1>4 DEF Keep!Next

\* _ensure_future_partitions: there is a partition for the rows of this month as
\* long as a job has asked for its partitions in this month or the one before.
THEOREM PartitionsAlwaysCover == MCSpec => []PartitionsCover
  <1>1. MCInit => KeepInv
    BY DEF MCInit, Keep!Init, KeepInv
  <1>2. KeepInv /\ [MCNext]_allVars => KeepInv'
    <2> SUFFICES ASSUME KeepInv, [MCNext]_allVars
                 PROVE  KeepInv'
      OBVIOUS
    <2>1. CASE Keep!Next
      BY <2>1, KeepStep
    <2>2. CASE UNCHANGED keepVars
      BY <2>2 DEF KeepInv, keepVars
    <2> QED BY <2>1, <2>2, PartsMove
  <1>3. KeepInv => PartitionsCover
    BY DEF KeepInv, PartitionsCover, Keep!PartitionsCover
  <1> QED BY <1>1, <1>2, <1>3, PTL DEF MCSpec

-----------------------------------------------------------------------------
(* PromptRegistry.                                                           *)
\* Only one session can have inserted a row, and only while there is none; so
\* the code has one row at most, the one that was accepted.
PromptCalls == [pc : {"none", "register", "deactivate", "inserted"},
                version : Versions \cup {0}, found : SUBSET Versions]
PromptsInv ==
    /\ template \subseteq [version : Versions, active : BOOLEAN]
    /\ \A t, u \in template : t = u
    /\ answers = {t.version : t \in template}
    /\ edit \in [Sessions -> PromptCalls]
    /\ \A e \in Sessions : edit[e].pc \in {"register", "inserted"} => edit[e].version \in Versions
    /\ \A e \in Sessions : edit[e].pc = "inserted" =>
           /\ template = {}
           /\ \A x \in Sessions : edit[x].pc = "inserted" => x = e

\* A session's call moves on: it has not inserted a row, or it may.
LEMMA PromptMoves ==
    ASSUME PromptsInv, NEW e \in Sessions, NEW c \in PromptCalls,
           edit' = [edit EXCEPT ![e] = c], UNCHANGED <<template, answers>>,
           c.pc \in {"register", "inserted"} => c.version \in Versions,
           c.pc = "inserted" => /\ template = {}
                                /\ \A x \in Sessions \ {e} : edit[x].pc # "inserted"
    PROVE  PromptsInv'
  <1>1. \A x \in Sessions : edit'[x] = IF x = e THEN c ELSE edit[x]
    BY DEF PromptsInv
  <1>2. edit' \in [Sessions -> PromptCalls]
    BY DEF PromptsInv
  <1> QED BY <1>1, <1>2 DEF PromptsInv

LEMMA FoundIsActive ==
    ASSUME PromptsInv, NEW f \in Prompts!find_active
    PROVE  f \in SUBSET Versions
  BY DEF PromptsInv, Prompts!find_active

\* register, deactivate, the flush, commit and rollback.
LEMMA PromptsStep ==
    ASSUME PromptsInv, Prompts!Next
    PROVE  PromptsInv'
  <1>0. Prompts!NoEdit \in PromptCalls /\ Prompts!NoEdit.pc = "none"
    BY DEF Prompts!NoEdit, PromptCalls
  <1>1. ASSUME NEW e \in Sessions, NEW v \in Versions \cup {0}, Prompts!register(e, v)
        PROVE  PromptsInv'
    <2>1. CASE v = 0
      BY <1>1, <2>1 DEF Prompts!register, PromptsInv
    <2>2. CASE v # 0
      <3>1. PICK f \in Prompts!find_active :
                edit' = [edit EXCEPT ![e] = [pc |-> "register", version |-> v, found |-> f]]
        BY <1>1, <2>2 DEF Prompts!register
      <3>2. PICK c : c = [pc |-> "register", version |-> v, found |-> f]
        OBVIOUS
      <3>3. c \in PromptCalls /\ c.pc = "register" /\ c.version \in Versions
        BY <2>2, <3>2, FoundIsActive DEF PromptCalls
      <3>4. UNCHANGED <<template, answers>>
        BY <1>1 DEF Prompts!register
      <3> QED BY <3>1, <3>2, <3>3, <3>4, PromptMoves
    <2> QED BY <2>1, <2>2
  <1>2. ASSUME NEW e \in Sessions, Prompts!deactivate(e)
        PROVE  PromptsInv'
    <2>1. PICK f \in Prompts!find_active :
              edit' = [edit EXCEPT ![e] = [pc |-> "deactivate", version |-> 0, found |-> f]]
      BY <1>2 DEF Prompts!deactivate
    <2>2. PICK c : c = [pc |-> "deactivate", version |-> 0, found |-> f]
      OBVIOUS
    <2>3. c \in PromptCalls /\ c.pc = "deactivate"
      BY <2>2, FoundIsActive DEF PromptCalls
    <2>4. UNCHANGED <<template, answers>>
      BY <1>2 DEF Prompts!deactivate
    <2> QED BY <2>1, <2>2, <2>3, <2>4, PromptMoves
  <1>3. ASSUME NEW e \in Sessions, Prompts!insert(e)
        PROVE  PromptsInv'
    <2>1. PICK c : c = [edit[e] EXCEPT !.pc = "inserted"]
      OBVIOUS
    <2>2. edit[e] \in PromptCalls /\ edit[e].pc = "register" /\ edit[e].version \in Versions
      BY <1>3 DEF PromptsInv, Prompts!insert
    <2>3. c \in PromptCalls /\ c.pc = "inserted" /\ c.version \in Versions
      BY <2>1, <2>2 DEF PromptCalls
    <2>4. \A x \in Sessions \ {e} : edit[x].pc # "inserted"
      BY <1>3 DEF Prompts!insert, Prompts!Waits
    <2>5. UNCHANGED <<template, answers>>
      BY <1>3 DEF Prompts!insert
    <2>6. \/ edit' = [edit EXCEPT ![e] = c] /\ template = {}
          \/ edit' = [edit EXCEPT ![e] = Prompts!NoEdit]
      BY <1>3, <2>1 DEF Prompts!insert, Prompts!Unique, PromptsInv
    <2> QED BY <1>0, <2>3, <2>4, <2>5, <2>6, PromptMoves
  <1>4. ASSUME NEW e \in Sessions, Prompts!rollback(e)
        PROVE  PromptsInv'
    BY <1>0, <1>4, PromptMoves DEF Prompts!rollback
  <1>5. ASSUME NEW e \in Sessions, Prompts!commit(e)
        PROVE  PromptsInv'
    <2>1. /\ edit' = [edit EXCEPT ![e] = Prompts!NoEdit]
          /\ \A x \in Sessions : edit'[x] = IF x = e THEN Prompts!NoEdit ELSE edit[x]
      BY <1>5 DEF Prompts!commit, PromptsInv
    <2>2. edit' \in [Sessions -> PromptCalls]
      BY <1>0, <2>1 DEF PromptsInv
    <2>3. \A x \in Sessions : edit'[x].pc \in {"register", "inserted"} => edit'[x].version \in Versions
      BY <1>0, <2>1 DEF PromptsInv
    <2>4. CASE edit[e].pc = "inserted"
      <3>1. template = {} /\ edit[e].version \in Versions
        BY <2>4 DEF PromptsInv
      <3>2. \A x \in Sessions : edit'[x].pc # "inserted"
        BY <1>0, <2>1, <2>4 DEF PromptsInv
      <3>3. template' = {[version |-> edit[e].version, active |-> TRUE]}
        BY <1>5, <2>4, <3>1 DEF Prompts!commit, Prompts!Deactivated
      <3>4. answers' = {edit[e].version}
        BY <1>5, <2>4, <3>1 DEF Prompts!commit, PromptsInv
      <3> QED BY <2>2, <2>3, <3>1, <3>2, <3>3, <3>4 DEF PromptsInv
    <2>5. CASE edit[e].pc = "deactivate"
      <3>1. answers' = answers /\ template' = Prompts!Deactivated(edit[e].found)
        BY <1>5, <2>5 DEF Prompts!commit
      <3>2. ASSUME NEW t \in template
            PROVE  LET u == [t EXCEPT !.active = @ /\ t.version \notin edit[e].found]
                   IN u \in [version : Versions, active : BOOLEAN] /\ u.version = t.version
        BY DEF PromptsInv
      <3>3. template' \subseteq [version : Versions, active : BOOLEAN]
        BY <3>1, <3>2 DEF Prompts!Deactivated
      <3>4. \A t, u \in template' : t = u
        BY <3>1 DEF Prompts!Deactivated, PromptsInv
      <3>5. answers' = {t.version : t \in template'}
        <4>1. ASSUME NEW t \in template PROVE \E u \in template' : u.version = t.version
          BY <3>1, <3>2 DEF Prompts!Deactivated
        <4>2. ASSUME NEW u \in template' PROVE \E t \in template : u.version = t.version
          BY <3>1, <3>2 DEF Prompts!Deactivated
        <4>3. answers' = {t.version : t \in template}
          BY <3>1 DEF PromptsInv
        <4> QED BY <4>1, <4>2, <4>3
      <3>6. template = {} => template' = {}
        BY <3>1 DEF Prompts!Deactivated
      <3>7. \A x \in Sessions : edit'[x].pc = "inserted" => edit[x].pc = "inserted"
        BY <1>0, <2>1
      <3> QED BY <2>2, <2>3, <3>3, <3>4, <3>5, <3>6, <3>7 DEF PromptsInv
    <2> QED BY <1>5, <2>4, <2>5 DEF Prompts!commit
  <1> QED BY <1>1, <1>2, <1>3, <1>4, <1>5 DEF Prompts!Next

-----------------------------------------------------------------------------
(* Ledger.                                                                   *)
\* A copy as old as the row agrees with it unless the session has written the
\* status, which it does only to a run that had not ended.
FreshCopy(c) ==
    /\ "status" \notin c.wrote => c.status = run.status
    /\ "status" \in c.wrote => run.status \notin Audit!Terminal

RunStatuses == {"absent", "pending", "running", "completed", "failed"}
LedgerCopies == [at : Nat, status : RunStatuses, events : Nat, saved : Nat, denied : BOOLEAN,
                 wrote : SUBSET {"status", "scope"}]

\* What a session may have in its copy.
LegalCopy(c) ==
    /\ c \in LedgerCopies
    /\ c.at <= run.at
    /\ c.at > 0 => c.status # "absent"
    /\ ~stale /\ c.at > 0 => (c.denied => c.status = "failed")
    /\ ~stale /\ c.at = run.at /\ c.at > 0 => FreshCopy(c)

LedgerInv ==
    /\ run \in [status : RunStatuses, events : Nat, denied : BOOLEAN, at : Nat]
    /\ run.status = "absent" <=> run.at = 0
    /\ copy \in [Sessions -> LedgerCopies]
    /\ final \in {"none"} \cup Audit!Terminal /\ stale \in BOOLEAN
    /\ ~stale => /\ IF final = "none" THEN run.status \notin Audit!Terminal ELSE run.status = final
                 /\ run.denied => run.status = "failed"
    /\ \A s \in Sessions : LegalCopy(copy[s])

\* A session loads, changes or gives back its copy.
LEMMA CopyMoves ==
    ASSUME LedgerInv, NEW s \in Sessions, NEW c, LegalCopy(c),
           copy' = [copy EXCEPT ![s] = c], UNCHANGED <<run, final, stale>>
    PROVE  LedgerInv'
  <1>1. \A x \in Sessions : copy'[x] = IF x = s THEN c ELSE copy[x]
    BY DEF LedgerInv
  <1>2. copy' \in [Sessions -> LedgerCopies]
    BY DEF LedgerInv, LegalCopy
  <1>3. \A x \in Sessions : LegalCopy(copy'[x])
    BY <1>1 DEF LedgerInv
  <1>4. \A x \in Sessions : LegalCopy(copy[x])'
    BY <1>3 DEF LegalCopy, FreshCopy
  <1> QED BY <1>2, <1>4 DEF LedgerInv

\* A flush, of the status only while the copy has none of an ended run.
LEMMA FlushMoves ==
    ASSUME LedgerInv, NEW s \in Sessions, Audit!Loaded(s), NEW columns \in SUBSET {"status", "scope"},
           NEW c \in LedgerCopies, c.at = copy[s].at, c.wrote = copy[s].wrote,
           c.status # "absent",
           ~stale /\ c.denied => c.status = "failed",
           "status" \in columns => Audit!Open(s),
           "status" \notin columns => c.status = copy[s].status,
           Audit!Flush(s, c, columns)
    PROVE  LedgerInv'
  <1>1. PICK d : /\ d = [c EXCEPT !.wrote = c.wrote \cup columns,
                                  !.saved = IF "scope" \in columns THEN c.events ELSE c.saved]
                 /\ copy' = [copy EXCEPT ![s] = d]
    BY DEF Audit!Flush
  <1>2. /\ d \in LedgerCopies /\ d.at = copy[s].at /\ d.status = c.status /\ d.denied = c.denied
        /\ d.wrote = copy[s].wrote \cup columns
    BY <1>1 DEF LedgerCopies
  <1>3. LegalCopy(copy[s])
    BY DEF LedgerInv
  <1>4. ASSUME ~stale, d.at = run.at, d.at > 0
        PROVE  FreshCopy(d)
    <2>1. FreshCopy(copy[s])
      BY <1>2, <1>3, <1>4 DEF LegalCopy
    <2> QED BY <1>2, <2>1 DEF FreshCopy, Audit!Open
  <1>5. LegalCopy(d)
    BY <1>2, <1>3, <1>4 DEF LegalCopy
  <1> QED BY <1>1, <1>5, CopyMoves DEF Audit!Flush

\* open_run, the methods of a session, its commit and its rollback.
LEMMA LedgerStep ==
    ASSUME LedgerInv, Audit!Next
    PROVE  LedgerInv'
  <1>0. LegalCopy(Audit!Unread)
    BY DEF LegalCopy, Audit!Unread, LedgerCopies, RunStatuses, LedgerInv
  <1>1. CASE Audit!open_run
    <2>1. run' = [run EXCEPT !.status = "pending", !.at = 1] /\ run.at = 0
      BY <1>1 DEF LedgerInv, Audit!open_run
    <2>2. \A s \in Sessions : LegalCopy(copy[s])'
      BY <1>1, <2>1 DEF LedgerInv, LegalCopy, LedgerCopies, Audit!open_run
    <2>3. run' \in [status : RunStatuses, events : Nat, denied : BOOLEAN, at : Nat]
      BY <2>1 DEF LedgerInv, RunStatuses
    <2>4. run'.status = "pending" /\ run'.at = 1 /\ run'.denied = run.denied /\ run.status = "absent"
      BY <1>1, <2>1 DEF LedgerInv, Audit!open_run
    <2>5. ~stale => final = "none" /\ ~run.denied
      BY <2>4 DEF LedgerInv, Audit!Terminal
    <2>6. UNCHANGED <<copy, final, stale>>
      BY <1>1 DEF Audit!open_run
    <2> QED BY <2>2, <2>3, <2>4, <2>5, <2>6 DEF LedgerInv, Audit!Terminal
  <1>2. ASSUME NEW s \in Sessions, Audit!load(s)
        PROVE  LedgerInv'
    <2>1. PICK c : /\ c = [at |-> run.at, status |-> run.status, events |-> run.events,
                           saved |-> run.events, denied |-> run.denied, wrote |-> {}]
                   /\ copy' = [copy EXCEPT ![s] = c]
      BY <1>2 DEF Audit!load
    <2>2. c \in LedgerCopies
      BY <2>1 DEF LedgerInv, LedgerCopies
    <2>3. LegalCopy(c)
      BY <2>1, <2>2 DEF LegalCopy, FreshCopy, LedgerInv
    <2> QED BY <1>2, <2>1, <2>3, CopyMoves DEF Audit!load
  <1>3. ASSUME NEW s \in Sessions
        PROVE  copy[s] \in LedgerCopies /\ LegalCopy(copy[s])
    BY DEF LedgerInv
  <1>4. ASSUME NEW s \in Sessions, Audit!start_run(s)
        PROVE  LedgerInv'
    <2>1. PICK c : c = [copy[s] EXCEPT !.status = "running"]
      OBVIOUS
    <2>2. /\ c \in LedgerCopies /\ c.at = copy[s].at /\ c.wrote = copy[s].wrote
          /\ c.status = "running" /\ c.denied = copy[s].denied
      BY <1>3, <2>1 DEF LedgerCopies, RunStatuses
    <2>3. Audit!Loaded(s) /\ Audit!Open(s) /\ copy[s].status = "pending" /\ Audit!Flush(s, c, {"status"})
      BY <1>4, <2>1 DEF Audit!start_run, Audit!Open
    <2>4. ~stale => ~c.denied
      BY <1>3, <2>2, <2>3 DEF LegalCopy, Audit!Loaded, LedgerCopies
    <2> QED BY <2>2, <2>3, <2>4, FlushMoves
  <1>5. ASSUME NEW s \in Sessions, NEW ok \in BOOLEAN, Audit!close_run(s, ok)
        PROVE  LedgerInv'
    <2>1. PICK c : c = [copy[s] EXCEPT !.status = IF ok THEN "completed" ELSE "failed"]
      OBVIOUS
    <2>2. /\ c \in LedgerCopies /\ c.at = copy[s].at /\ c.wrote = copy[s].wrote
          /\ c.status \in {"completed", "failed"} /\ c.denied = copy[s].denied
      BY <1>3, <2>1 DEF LedgerCopies, RunStatuses
    <2>3. PICK reason \in SUBSET {"scope"} : Audit!Flush(s, c, {"status"} \cup reason)
      BY <1>5, <2>1 DEF Audit!close_run
    <2>4. Audit!Loaded(s) /\ Audit!Open(s) /\ copy[s].status = "running"
      BY <1>5 DEF Audit!close_run, Audit!Open
    <2>5. ~stale => ~c.denied
      BY <1>3, <2>2, <2>4 DEF LegalCopy, Audit!Loaded, LedgerCopies
    <2>6. {"status"} \cup reason \in SUBSET {"status", "scope"} /\ "status" \in {"status"} \cup reason
      OBVIOUS
    <2> QED BY <2>2, <2>3, <2>4, <2>5, <2>6, FlushMoves
  <1>6. ASSUME NEW s \in Sessions, Audit!record_denial(s)
        PROVE  LedgerInv'
    <2>1. PICK c : c = [copy[s] EXCEPT !.status = "failed", !.denied = TRUE]
      OBVIOUS
    <2>2. /\ c \in LedgerCopies /\ c.at = copy[s].at /\ c.wrote = copy[s].wrote
          /\ c.status = "failed"
      BY <1>3, <2>1 DEF LedgerCopies, RunStatuses
    <2>3. Audit!Loaded(s) /\ Audit!Open(s) /\ Audit!Flush(s, c, {"status", "scope"})
      BY <1>6, <2>1 DEF Audit!record_denial, Audit!Open
    <2> QED BY <2>2, <2>3, FlushMoves
  <1>7. ASSUME NEW s \in Sessions, Audit!record_event(s)
        PROVE  LedgerInv'
    <2>1. PICK c : c = [copy[s] EXCEPT !.events = copy[s].events + 1]
      OBVIOUS
    <2>2. /\ c \in LedgerCopies /\ c.at = copy[s].at /\ c.wrote = copy[s].wrote
          /\ c.status = copy[s].status /\ c.denied = copy[s].denied
      BY <1>3, <2>1 DEF LedgerCopies
    <2>3. PICK columns \in {{"scope"}, {}} : Audit!Loaded(s) /\ Audit!Flush(s, c, columns)
      BY <1>7, <2>1 DEF Audit!record_event
    <2>4. columns \in SUBSET {"status", "scope"} /\ "status" \notin columns
      BY <2>3
    <2>5. c.status # "absent" /\ (~stale /\ c.denied => c.status = "failed")
      BY <1>3, <2>2, <2>3 DEF LegalCopy, Audit!Loaded
    <2> QED BY <2>2, <2>3, <2>4, <2>5, FlushMoves
  <1>8. ASSUME NEW s \in Sessions, Audit!rollback(s)
        PROVE  LedgerInv'
    BY <1>0, <1>8, CopyMoves DEF Audit!rollback
  <1>9. ASSUME NEW s \in Sessions, Audit!commit(s)
        PROVE  LedgerInv'
    <2>1. PICK c : c = copy[s]
      OBVIOUS
    <2>2. LegalCopy(c) /\ c.at > 0
      BY <1>3, <1>9, <2>1 DEF Audit!commit, Audit!Loaded
    <2>3. /\ copy' = [copy EXCEPT ![s] = Audit!Unread]
          /\ stale' = (stale \/ (c.wrote # {} /\ c.at # run.at))
          /\ final' = IF final = "none" /\ run'.status \in Audit!Terminal THEN run'.status ELSE final
      BY <1>9, <2>1 DEF Audit!commit
    <2>4. CASE c.wrote = {}
      <3>1. run' = run /\ stale' = stale
        BY <1>9, <2>1, <2>3, <2>4 DEF Audit!commit, LedgerInv
      <3>2. CASE stale
        <4>1. \A x \in Sessions : copy'[x] = IF x = s THEN Audit!Unread ELSE copy[x]
          BY <2>3 DEF LedgerInv
        <4>2. copy' \in [Sessions -> LedgerCopies] /\ \A x \in Sessions : LegalCopy(copy'[x])
          BY <1>0, <2>3, <4>1 DEF LedgerInv, LegalCopy
        <4>3. \A x \in Sessions : LegalCopy(copy[x])'
          BY <3>1, <4>2 DEF LegalCopy, FreshCopy
        <4>4. final' \in {"none"} \cup Audit!Terminal
          BY <2>3 DEF LedgerInv
        <4> QED BY <3>1, <3>2, <4>2, <4>3, <4>4 DEF LedgerInv
      <3>3. CASE ~stale
        <4>1. final' = final
          BY <2>3, <3>1, <3>3 DEF LedgerInv
        <4> QED BY <1>0, <2>3, <3>1, <4>1, CopyMoves
      <3> QED BY <3>2, <3>3
    <2>5. CASE c.wrote # {}
      <3>1. PICK r : /\ r = [status |-> IF "status" \in c.wrote THEN c.status ELSE run.status,
                             events |-> IF "scope" \in c.wrote THEN c.saved ELSE run.events,
                             denied |-> IF "scope" \in c.wrote THEN c.denied ELSE run.denied,
                             at |-> run.at + 1]
                     /\ run' = r
        BY <1>9, <2>1, <2>5 DEF Audit!commit
      <3>2. r \in [status : RunStatuses, events : Nat, denied : BOOLEAN, at : Nat]
        BY <2>2, <3>1 DEF LedgerInv, LegalCopy, LedgerCopies
      <3>3. r.at = run.at + 1 /\ r.status # "absent" /\ r.at # 0 /\ run.at \in Nat
        BY <2>2, <3>1 DEF LedgerInv, LegalCopy, LedgerCopies
      <3>4. ASSUME ~stale'
            PROVE  /\ IF final' = "none" THEN r.status \notin Audit!Terminal ELSE r.status = final'
                   /\ r.denied => r.status = "failed"
        <4>1. ~stale /\ c.at = run.at
          BY <2>3, <2>5, <3>4 DEF LedgerInv
        <4>2. FreshCopy(c) /\ (c.denied => c.status = "failed")
          BY <2>2, <4>1 DEF LegalCopy
        <4>3. /\ r.status = (IF "status" \in c.wrote THEN c.status ELSE run.status)
              /\ r.denied = (IF "scope" \in c.wrote THEN c.denied ELSE run.denied)
          BY <3>1
        <4>4. r.denied => r.status = "failed"
          BY <4>1, <4>2, <4>3 DEF FreshCopy, LedgerInv, Audit!Terminal
        <4>5. final # "none" => r.status = final
          BY <4>1, <4>2, <4>3 DEF FreshCopy, LedgerInv
        <4> QED BY <2>3, <3>1, <4>4, <4>5 DEF Audit!Terminal
      <3>5. final' \in {"none"} \cup Audit!Terminal /\ stale' \in BOOLEAN
        BY <2>3 DEF LedgerInv
      <3>6. \A x \in Sessions : copy'[x] = IF x = s THEN Audit!Unread ELSE copy[x]
        BY <2>3 DEF LedgerInv
      <3>7. ASSUME NEW x \in Sessions
            PROVE  LegalCopy(copy[x])'
        <4>1. LegalCopy(copy'[x])
          BY <1>0, <1>3, <3>6
        <4>2. copy'[x].at \in Nat
          BY <4>1 DEF LegalCopy, LedgerCopies
        <4>3. stale => stale'
          BY <2>3
        <4> QED BY <3>1, <3>3, <4>1, <4>2, <4>3 DEF LegalCopy
      <3>8. copy' \in [Sessions -> LedgerCopies]
        BY <1>0, <2>3 DEF LedgerInv, LegalCopy
      <3> QED BY <3>1, <3>2, <3>3, <3>4, <3>5, <3>7, <3>8 DEF LedgerInv
    <2> QED BY <2>4, <2>5
  <1> QED BY <1>1, <1>2, <1>4, <1>5, <1>6, <1>7, <1>8, <1>9 DEF Audit!Next

\* AuditLedger and PromptRegistry: a run that ended stays as it ended unless a
\* session worked on a stale copy, and at most one template is active, the one
\* that was accepted.
THEOREM BooksAreAlwaysRight == MCSpec => []BooksAreRight
  <1>1. MCInit => PromptsInv /\ LedgerInv
    <2> SUFFICES ASSUME MCInit
                 PROVE  PromptsInv /\ LedgerInv
      OBVIOUS
    <2>1. Prompts!Init /\ Audit!Init
      BY DEF MCInit
    <2>2. PromptsInv
      BY <2>1 DEF Prompts!Init, Prompts!NoEdit, PromptsInv, PromptCalls
    <2>3. run \in [status : RunStatuses, events : Nat, denied : BOOLEAN, at : Nat]
      BY <2>1 DEF Audit!Init, RunStatuses
    <2>4. \A s \in Sessions : copy[s] = Audit!Unread /\ LegalCopy(copy[s])
      BY <2>1, <2>3 DEF Audit!Init, Audit!Unread, LegalCopy, LedgerCopies, RunStatuses
    <2>5. copy \in [Sessions -> LedgerCopies]
      BY <2>1, <2>4 DEF Audit!Init, LegalCopy
    <2> QED BY <2>1, <2>2, <2>3, <2>4, <2>5 DEF Audit!Init, LedgerInv, Audit!Terminal
  <1>2. PromptsInv /\ LedgerInv /\ [MCNext]_allVars => PromptsInv' /\ LedgerInv'
    <2> SUFFICES ASSUME PromptsInv, LedgerInv, [MCNext]_allVars
                 PROVE  PromptsInv' /\ LedgerInv'
      OBVIOUS
    <2>1. UNCHANGED promptVars => PromptsInv'
      BY DEF promptVars, PromptsInv
    <2>2. UNCHANGED auditVars => LedgerInv'
      BY DEF auditVars, LedgerInv, LegalCopy, FreshCopy
    <2> QED BY <2>1, <2>2, PartsMove, PromptsStep, LedgerStep
  <1>3. PromptsInv /\ LedgerInv => BooksAreRight
    <2> SUFFICES ASSUME PromptsInv, LedgerInv
                 PROVE  Audit!RunStaysClosed /\ Prompts!OneActiveTemplate
      BY DEF BooksAreRight
    <2>1. Audit!RunStaysClosed
      BY DEF LedgerInv, Audit!RunStaysClosed
    <2>2. PICK active : active = {t.version : t \in {x \in template : x.active}}
      OBVIOUS
    <2>3. \A v \in active : \A a \in answers : a = v /\ v \in Nat
      BY <2>2, VersionsAreOrdered DEF PromptsInv
    <2>4. active = {} \/ \E v : active = {v}
      BY <2>2 DEF PromptsInv
    <2>5. Prompts!Cardinality(active) = Cardinality(active)
      BY DEF Prompts!Cardinality, Cardinality
    <2>6. Cardinality(active) <= 1
      <3>1. CASE active = {}
        <4>1. Cardinality(active) = 0
          BY <3>1, FS_EmptySet
        <4> QED BY <4>1
      <3>2. ASSUME NEW v, active = {v}
            PROVE  Cardinality(active) <= 1
        <4>1. Cardinality(active) = 1
          BY <3>2, FS_Singleton
        <4> QED BY <4>1
      <3> QED BY <2>4, <3>1, <3>2
    <2> QED BY <2>1, <2>2, <2>3, <2>5, <2>6 DEF Prompts!OneActiveTemplate
  <1> QED BY <1>1, <1>2, <1>3, PTL DEF MCSpec

-----------------------------------------------------------------------------
(* Loaders.                                                                  *)
\* Only which rows there are matters: their keys, committed and not.
Keys(p) == DOMAIN tx[p]
Stored  == DOMAIN tab
AllKeys == Stored \cup UNION {Keys(q) : q \in Procs}

\* Rows that end in the run that wrote them, and what a load has written of
\* the nodes it reported.
RunRow(k) == k[1] \in {"run", "snap", "fact", "art", "inst", "gpu"}
RunOf(k)  == k[Len(k)]
Done(r, ks) ==
    /\ <<"run", r.run>> \in ks
    /\ r.job = "ssh" => \A a \in r.said : <<"snap", a, r.run>> \in ks
    /\ r.job = "trust" => \A a \in r.said : <<"art", a, r.run>> \in ks

IsProc(r) ==
    /\ {"pc", "job", "i", "seen", "aborted", "said", "terms", "run", "file"} \subseteq DOMAIN r
    /\ r.pc \in {"off", "register", "look", "store", "commit", "seed"}
    /\ r.pc \in {"register", "look", "store", "commit"} => r.job \in Loads
    /\ r.pc = "seed" => r.job \notin Loads
    /\ r.pc = "commit" => r.job = "trust"
    /\ r.pc = "register" => r.said = {}
Active(r)  == r.pc # "off"
Working(r) == r.pc \in {"look", "store", "commit"}
Posting(r) == r.job = "posture" /\ r.pc \in {"look", "store"}

\* Every script has a run of its own, and one that has not come to its first
\* statement has no rows.
ScriptsInv ==
    /\ runs \in Nat
    /\ tx = [p \in Procs |-> tx[p]] /\ proc = [p \in Procs |-> proc[p]]
    /\ \A p \in Procs : /\ IsProc(proc[p])
                        /\ proc[p].pc \in {"off", "register"} => Keys(p) = {}
                        /\ Active(proc[p]) => proc[p].run \in 1..runs
    /\ \A p, q \in Procs :
          p # q /\ Active(proc[p]) /\ Active(proc[q]) => proc[p].run # proc[q].run

\* A row of a run is written by the script of that run: it is not committed
\* while the script works, nor after it has ended in an error.
ReportsInv ==
    /\ \A k \in Stored : RunRow(k) =>
          /\ RunOf(k) \in 1..runs
          /\ \A p \in Procs : Active(proc[p]) => RunOf(k) # proc[p].run
          /\ \A r \in report : ~r.ok => RunOf(k) # r.run
    /\ \A p \in Procs : \A k \in Keys(p) : RunRow(k) => k \in Stored \/ RunOf(k) = proc[p].run
    /\ \A r \in report :
          /\ r.run \in 1..runs
          /\ \A p \in Procs : Active(proc[p]) => r.run # proc[p].run
          /\ r.job \in Loads /\ r.ok => Done(r, Stored)
    /\ \A p \in Procs : Working(proc[p]) => Done(proc[p], Keys(p))

\* Whoever writes a device has the row of its host, which has one writer.
SameDevice(j, k) == j[1] = "gpu" /\ k[1] = "gpu" /\ j[2] = k[2] /\ j[3] = k[3]
OneEach(ks) == \A j, k \in ks : SameDevice(j, k) => j = k
DevicesInv ==
    /\ \A p \in Procs : \A k \in Keys(p) : k[1] = "gpu" => <<"host", k[2]>> \in Keys(p)
    /\ \A p, q \in Procs : \A k \in Keys(p) \cap Keys(q) : k[1] = "host" => p = q
    /\ OneEach(Stored)
    /\ \A p \in Procs : OneEach(Stored \cup Keys(p))

\* Posture loads that have begun have met.  Whoever is about to insert an
\* instance has met whoever has inserted it since the look.
IsOf(k, n) == k[1] = "inst" /\ k[2] = n.alias /\ k[3] = n.name
SameInstance(j, k) == j[1] = "inst" /\ k[1] = "inst" /\ j[2] = k[2] /\ j[3] = k[3]
Met(ks, pairs) == \A j, k \in ks : SameInstance(j, k) /\ j # k => {j[4], k[4]} \in pairs
HasLooked(r, own, ks, pairs) ==
    r.job = "posture" /\ r.pc = "store" =>
        LET n == PostureFile[r.i] IN
        IF r.seen = 0 THEN \A k \in ks : IsOf(k, n) => {k[4], r.run} \in pairs
        ELSE \E k \in own : IsOf(k, n)
InstancesInv ==
    /\ \A p, q \in Procs : p # q /\ Posting(proc[p]) /\ Posting(proc[q])
                              => {proc[p].run, proc[q].run} \in overlap
    /\ \A p \in Procs : \A k \in Keys(p) :
          k[1] = "inst" => k \in Stored \/ (k[4] = proc[p].run /\ Posting(proc[p]))
    /\ \A p \in Procs : HasLooked(proc[p], Stored \cup Keys(p), AllKeys, overlap)
    /\ Met(AllKeys, overlap)

LoadInv == ScriptsInv /\ ReportsInv /\ DevicesInv /\ InstancesInv

\* The keys of a transaction with more rows.
LEMMA RowKeys ==
    ASSUME NEW f, NEW g
    PROVE  DOMAIN Over(f, g) = DOMAIN f \cup DOMAIN g
  BY DEF Over

LEMMA OneRow ==
    ASSUME NEW k, NEW v
    PROVE  DOMAIN Row(k, v) = {k}
  BY DEF Row

\* What is in a key.
LEMMA PairKey ==
    ASSUME NEW h, NEW r
    PROVE  <<h, r>>[1] = h /\ <<h, r>>[2] = r /\ RunOf(<<h, r>>) = r
  BY DEF RunOf

LEMMA TripleKey ==
    ASSUME NEW h, NEW a, NEW r
    PROVE  <<h, a, r>>[1] = h /\ <<h, a, r>>[2] = a /\ RunOf(<<h, a, r>>) = r
  BY DEF RunOf

LEMMA LongKey ==
    ASSUME NEW h, NEW a, NEW b, NEW r
    PROVE  /\ <<h, a, b, r>>[1] = h /\ <<h, a, b, r>>[2] = a /\ <<h, a, b, r>>[3] = b
           /\ <<h, a, b, r>>[4] = r /\ RunOf(<<h, a, b, r>>) = r
  BY DEF RunOf

LEMMA LoadsInit == Init => LoadInv
  <1> SUFFICES ASSUME Init PROVE LoadInv
    OBVIOUS
  <1>1. Stored = {} /\ \A p \in Procs : Keys(p) = {} /\ proc[p] = Off
    BY DEF Init, Stored, Keys, Empty
  <1>2. AllKeys = {}
    BY <1>1 DEF AllKeys
  <1>3. IsProc(Off) /\ ~Active(Off) /\ ~Working(Off) /\ ~Posting(Off)
    BY DEF Off, IsProc, Active, Working, Posting, Loads
  <1>4. ScriptsInv
    BY <1>1, <1>3 DEF Init, ScriptsInv
  <1>5. ReportsInv
    BY <1>1, <1>3 DEF Init, ReportsInv
  <1>6. DevicesInv
    BY <1>1 DEF DevicesInv, OneEach
  <1>7. InstancesInv
    <2>1. \A own, ks, pairs : HasLooked(Off, own, ks, pairs)
      BY DEF HasLooked, Off
    <2> QED BY <1>1, <1>2, <1>3, <2>1 DEF InstancesInv, Met
  <1> QED BY <1>4, <1>5, <1>6, <1>7 DEF LoadInv

\* Script p goes on, with rows N more in its transaction; new is what it does now.
Works(p, N, new) ==
    /\ Active(proc[p]) /\ IsProc(new) /\ new.pc \notin {"off", "register"}
    /\ new.run = proc[p].run
    /\ proc' = [proc EXCEPT ![p] = new]
    /\ tx' = [q \in Procs |-> tx'[q]]
    /\ \A q \in Procs : Keys(q)' = IF q = p THEN Keys(p) \cup N ELSE Keys(q)
    /\ UNCHANGED <<tab, runs, report>>

LEMMA ScriptsMove ==
    ASSUME ScriptsInv, NEW p \in Procs, NEW N, NEW new, Works(p, N, new)
    PROVE  ScriptsInv'
  <1>1. \A q \in Procs : proc'[q] = IF q = p THEN new ELSE proc[q]
    BY DEF ScriptsInv, Works
  <1>2. proc' = [q \in Procs |-> proc'[q]]
    BY DEF ScriptsInv, Works
  <1>3. \A q \in Procs : /\ IsProc(proc'[q])
                         /\ proc'[q].pc \in {"off", "register"} => Keys(q)' = {}
                         /\ Active(proc'[q]) => proc'[q].run \in 1..runs
    BY <1>1 DEF ScriptsInv, Works
  <1>4. \A q, x \in Procs :
           q # x /\ Active(proc'[q]) /\ Active(proc'[x]) => proc'[q].run # proc'[x].run
    BY <1>1 DEF ScriptsInv, Works
  <1> QED BY <1>2, <1>3, <1>4 DEF ScriptsInv, Works, Active, IsProc

LEMMA ReportsMove ==
    ASSUME ScriptsInv, ReportsInv, NEW p \in Procs, NEW N, NEW new, Works(p, N, new),
           Working(new) => Done(new, Keys(p) \cup N),
           \A k \in N : RunRow(k) => k \in Stored \cup Keys(p) \/ RunOf(k) = new.run
    PROVE  ReportsInv'
  <1>1. \A q \in Procs : proc'[q] = IF q = p THEN new ELSE proc[q]
    BY DEF ScriptsInv, Works
  <1>2. Stored' = Stored
    BY DEF Works, Stored
  <1>3. \A q \in Procs : Active(proc'[q]) => Active(proc[q]) /\ proc'[q].run = proc[q].run
    BY <1>1 DEF Works
  <1>4. \A q \in Procs : \A k \in Keys(q)' : RunRow(k) => k \in Stored \/ RunOf(k) = proc'[q].run
    <2> SUFFICES ASSUME NEW q \in Procs, NEW k \in Keys(q)', RunRow(k)
                 PROVE  k \in Stored \/ RunOf(k) = proc'[q].run
      OBVIOUS
    <2>1. CASE k \in Keys(q)
      BY <1>1, <2>1 DEF ReportsInv, Works
    <2>2. CASE q = p /\ k \in N
      BY <1>1, <2>2 DEF ReportsInv, Works
    <2> QED BY <2>1, <2>2 DEF Works
  <1>5. ASSUME NEW q \in Procs, Working(proc'[q]) PROVE Done(proc'[q], Keys(q)')
    <2>1. CASE q = p
      <3>1. proc'[q] = new /\ Keys(q)' = Keys(p) \cup N
        BY <1>1, <2>1 DEF Works
      <3>2. Done(new, Keys(p) \cup N)
        BY <1>5, <3>1
      <3> QED BY <3>1, <3>2
    <2>2. CASE q # p
      <3>1. proc'[q] = proc[q] /\ Keys(q)' = Keys(q)
        BY <1>1, <2>2 DEF Works
      <3>2. Done(proc[q], Keys(q))
        BY <1>5, <3>1 DEF ReportsInv
      <3> QED BY <3>1, <3>2
    <2> QED BY <2>1, <2>2
  <1>6. \A k \in Stored : RunRow(k) =>
          /\ RunOf(k) \in 1..runs
          /\ \A q \in Procs : Active(proc'[q]) => RunOf(k) # proc'[q].run
          /\ \A r \in report : ~r.ok => RunOf(k) # r.run
    BY <1>3 DEF ReportsInv
  <1>7. \A r \in report : r.run \in 1..runs /\ \A q \in Procs : Active(proc'[q]) => r.run # proc'[q].run
    BY <1>3 DEF ReportsInv
  <1>8. \A r \in report : r.job \in Loads /\ r.ok => Done(r, Stored)
    BY DEF ReportsInv
  <1>9. report' = report /\ runs' = runs
    BY DEF Works
  <1> HIDE DEF Stored, Keys, Done, RunRow, RunOf, Active, Working
  <1> QED BY <1>2, <1>4, <1>5, <1>6, <1>7, <1>8, <1>9
          DEF ReportsInv, Done, RunRow, RunOf, Active, Working

LEMMA DevicesMove ==
    ASSUME ScriptsInv, DevicesInv, NEW p \in Procs, NEW N, NEW new, Works(p, N, new),
           \A k \in N : k[1] = "gpu" => <<"host", k[2]>> \in Keys(p) \cup N,
           \A k \in N : k[1] = "host" => \A q \in Procs \ {p} : k \notin Keys(q),
           OneEach(Stored \cup (Keys(p) \cup N))
    PROVE  DevicesInv'
  <1>1. Stored' = Stored
    BY DEF Works, Stored
  <1>2. \A q \in Procs : \A k \in Keys(q)' : k[1] = "gpu" => <<"host", k[2]>> \in Keys(q)'
    BY DEF DevicesInv, Works
  <1>3. \A q, x \in Procs : \A k \in Keys(q)' \cap Keys(x)' : k[1] = "host" => q = x
    BY DEF DevicesInv, Works
  <1>4. \A q \in Procs : OneEach(Stored \cup Keys(q)')
    BY DEF DevicesInv, Works
  <1> QED BY <1>1, <1>2, <1>3, <1>4 DEF DevicesInv, OneEach, SameDevice

\* The instances it writes are there, or its own since it has posted.
LEMMA InstancesMove ==
    ASSUME ScriptsInv, InstancesInv, NEW p \in Procs, NEW N, NEW new, Works(p, N, new),
           overlap \subseteq overlap', new.job = proc[p].job,
           Posting(proc[p]) => Posting(new),
           Posting(new) => \A q \in Procs \ {p} : Posting(proc[q]) => {new.run, proc[q].run} \in overlap',
           \A k \in N : k[1] = "inst" => k \in Stored \cup Keys(p) \/ (k[4] = new.run /\ Posting(new)),
           HasLooked(new, Stored \cup (Keys(p) \cup N), AllKeys \cup N, overlap'),
           Met(AllKeys \cup N, overlap')
    PROVE  InstancesInv'
  <1>1. \A q \in Procs : proc'[q] = IF q = p THEN new ELSE proc[q]
    BY DEF ScriptsInv, Works
  <1>2. Stored' = Stored
    BY DEF Works, Stored
  <1>3. AllKeys' = AllKeys \cup N
    BY <1>2 DEF AllKeys, Works
  <1>4. \A q, x \in Procs : q # x /\ Posting(proc'[q]) /\ Posting(proc'[x])
                              => {proc'[q].run, proc'[x].run} \in overlap'
    BY <1>1 DEF InstancesInv
  <1>5. \A q \in Procs : \A k \in Keys(q)' :
          k[1] = "inst" => k \in Stored \/ (k[4] = proc'[q].run /\ Posting(proc'[q]))
    <2> SUFFICES ASSUME NEW q \in Procs, NEW k \in Keys(q)', k[1] = "inst", k \notin Stored
                 PROVE  k[4] = proc'[q].run /\ Posting(proc'[q])
      OBVIOUS
    <2>1. CASE k \in Keys(q)
      BY <1>1, <2>1 DEF InstancesInv, Works
    <2>2. CASE q = p /\ k \in N /\ k \notin Keys(p)
      BY <1>1, <2>2
    <2> QED BY <2>1, <2>2 DEF Works
  <1>6. ASSUME NEW q \in Procs
        PROVE  HasLooked(proc'[q], Stored \cup Keys(q)', AllKeys \cup N, overlap')
    <2>1. CASE q = p
      BY <1>1, <2>1 DEF Works
    <2>2. CASE q # p
      <3> SUFFICES ASSUME proc[q].job = "posture", proc[q].pc = "store"
                   PROVE  HasLooked(proc[q], Stored \cup Keys(q), AllKeys \cup N, overlap')
        BY <1>1, <2>2 DEF Works, HasLooked
      <3> DEFINE n == PostureFile[proc[q].i]
      <3>1. HasLooked(proc[q], Stored \cup Keys(q), AllKeys, overlap) /\ Posting(proc[q])
        BY DEF InstancesInv, Posting
      <3>2. CASE proc[q].seen # 0
        BY <3>1, <3>2 DEF HasLooked
      <3>3. CASE proc[q].seen = 0
        <4>1. ASSUME NEW k \in AllKeys \cup N, IsOf(k, n)
              PROVE  {k[4], proc[q].run} \in overlap'
          <5>1. CASE k \in AllKeys
            BY <3>1, <3>3, <4>1, <5>1 DEF HasLooked
          <5>2. CASE k \in N /\ k \notin AllKeys
            <6>1. k[1] = "inst" /\ k \notin Stored \cup Keys(p)
              BY <4>1, <5>2 DEF IsOf, AllKeys
            <6>2. k[4] = new.run /\ Posting(new)
              BY <5>2, <6>1
            <6> QED BY <2>2, <3>1, <6>2
          <5> QED BY <5>1, <5>2
        <4> QED BY <3>3, <4>1 DEF HasLooked
      <3> QED BY <3>2, <3>3
    <2> QED BY <2>1, <2>2
  <1> QED BY <1>2, <1>3, <1>4, <1>5, <1>6 DEF InstancesInv, HasLooked, Met, Posting, IsOf, SameInstance

\* A step that writes neither devices nor hosts nor instances.
LEMMA PlainMove ==
    ASSUME LoadInv, NEW p \in Procs, NEW N, NEW new, Works(p, N, new),
           overlap' = overlap, new.job = proc[p].job, Posting(proc[p]) <=> Posting(new),
           \A k \in N : k[1] \notin {"gpu", "host", "inst"},
           \A k \in N : RunRow(k) => RunOf(k) = new.run,
           Working(new) => Done(new, Keys(p) \cup N),
           HasLooked(new, Stored \cup (Keys(p) \cup N), AllKeys \cup N, overlap)
    PROVE  LoadInv'
  <1>1. ScriptsInv'
    BY ScriptsMove DEF LoadInv
  <1>2. ReportsInv'
    BY ReportsMove DEF LoadInv
  <1>3. OneEach(Stored \cup (Keys(p) \cup N))
    BY DEF LoadInv, DevicesInv, OneEach, SameDevice
  <1>4. DevicesInv'
    BY <1>3, DevicesMove DEF LoadInv
  <1>5. Met(AllKeys \cup N, overlap')
    BY DEF LoadInv, InstancesInv, Met, SameInstance
  <1>6. Posting(new) => \A q \in Procs \ {p} : Posting(proc[q]) => {new.run, proc[q].run} \in overlap'
    BY DEF LoadInv, InstancesInv, Works
  <1>7. HasLooked(new, Stored \cup (Keys(p) \cup N), AllKeys \cup N, overlap')
    OBVIOUS
  <1>8. /\ ScriptsInv /\ InstancesInv /\ overlap \subseteq overlap'
        /\ \A k \in N : k[1] = "inst" => k \in Stored \cup Keys(p) \/ (k[4] = new.run /\ Posting(new))
    BY DEF LoadInv
  <1>9. InstancesInv'
    BY <1>5, <1>6, <1>7, <1>8, InstancesMove
  <1> QED BY <1>1, <1>2, <1>4, <1>9 DEF LoadInv

\* The rows a transaction has after a write, and without one.
LEMMA WriteKeys ==
    ASSUME ScriptsInv, NEW p \in Procs, NEW rows, Write(p, rows)
    PROVE  /\ tx' = [q \in Procs |-> tx'[q]]
           /\ \A q \in Procs : Keys(q)' = IF q = p THEN Keys(p) \cup DOMAIN rows ELSE Keys(q)
  <1>1. \A q \in Procs : tx'[q] = IF q = p THEN Over(rows, tx[p]) ELSE tx[q]
    BY DEF ScriptsInv, Write
  <1>2. tx' = [q \in Procs |-> tx'[q]]
    BY DEF ScriptsInv, Write
  <1>3. DOMAIN Over(rows, tx[p]) = DOMAIN rows \cup DOMAIN tx[p]
    BY RowKeys
  <1>4. \A q \in Procs : Keys(q)' = IF q = p THEN Keys(p) \cup DOMAIN rows ELSE Keys(q)
    BY <1>1, <1>3 DEF Keys
  <1> QED BY <1>2, <1>4

LEMMA SameKeys ==
    ASSUME ScriptsInv, NEW p \in Procs, UNCHANGED tx
    PROVE  /\ tx' = [q \in Procs |-> tx'[q]]
           /\ \A q \in Procs : Keys(q)' = IF q = p THEN Keys(p) \cup {} ELSE Keys(q)
  BY DEF ScriptsInv, Keys

\* A script that ends: its transaction is over, committed or not.
Ends(p) == /\ proc' = [proc EXCEPT ![p] = Off]
           /\ tx' = [tx EXCEPT ![p] = Empty]
           /\ UNCHANGED <<runs, overlap>>

LEMMA EndKeys ==
    ASSUME ScriptsInv, NEW p \in Procs, Ends(p)
    PROVE  /\ \A q \in Procs : proc'[q] = IF q = p THEN Off ELSE proc[q]
           /\ \A q \in Procs : Keys(q)' = IF q = p THEN {} ELSE Keys(q)
           /\ IsProc(Off) /\ ~Active(Off) /\ ~Working(Off) /\ ~Posting(Off)
           /\ ScriptsInv'
  <1>1. \A q \in Procs : proc'[q] = IF q = p THEN Off ELSE proc[q]
    BY DEF ScriptsInv, Ends
  <1>2. \A q \in Procs : tx'[q] = IF q = p THEN Empty ELSE tx[q]
    BY DEF ScriptsInv, Ends
  <1>3. \A q \in Procs : Keys(q)' = IF q = p THEN {} ELSE Keys(q)
    BY <1>2 DEF Keys, Empty
  <1>4. IsProc(Off) /\ ~Active(Off) /\ ~Working(Off) /\ ~Posting(Off)
    BY DEF Off, IsProc, Active, Working, Posting, Loads
  <1>5. tx' = [q \in Procs |-> tx'[q]] /\ proc' = [q \in Procs |-> proc'[q]]
    BY DEF ScriptsInv, Ends
  <1>6. \A q \in Procs : /\ IsProc(proc'[q])
                         /\ proc'[q].pc \in {"off", "register"} => Keys(q)' = {}
                         /\ Active(proc'[q]) => proc'[q].run \in 1..runs
    BY <1>1, <1>3, <1>4 DEF ScriptsInv
  <1>7. \A q, x \in Procs :
           q # x /\ Active(proc'[q]) /\ Active(proc'[x]) => proc'[q].run # proc'[x].run
    BY <1>1, <1>4 DEF ScriptsInv
  <1>8. ScriptsInv'
    BY <1>5, <1>6, <1>7 DEF ScriptsInv, Ends, Active, IsProc
  <1> QED BY <1>1, <1>3, <1>4, <1>8

\* What is left of the rows when a script ends without a commit, or with one.
LEMMA EndsWell ==
    ASSUME LoadInv, NEW p \in Procs, Ends(p), Stored' \in {Stored, Stored \cup Keys(p)}
    PROVE  DevicesInv' /\ InstancesInv'
  <1>0. ScriptsInv /\ DevicesInv /\ InstancesInv
    BY DEF LoadInv
  <1>1. /\ \A q \in Procs : proc'[q] = IF q = p THEN Off ELSE proc[q]
        /\ \A q \in Procs : Keys(q)' = IF q = p THEN {} ELSE Keys(q)
        /\ ~Posting(Off)
    BY <1>0, EndKeys
  <1>2. OneEach(Stored') /\ \A q \in Procs : OneEach(Stored' \cup Keys(q)')
    <2>1. CASE Stored' = Stored
      BY <1>0, <1>1, <2>1 DEF DevicesInv, OneEach
    <2>2. CASE Stored' = Stored \cup Keys(p)
      <3>1. ASSUME NEW q \in Procs \ {p}, NEW j \in Stored \cup (Keys(p) \cup Keys(q)),
                   NEW k \in Stored \cup (Keys(p) \cup Keys(q)), SameDevice(j, k)
            PROVE  j = k
        <4>1. CASE {j, k} \subseteq Stored \cup Keys(p)
          BY <1>0, <3>1, <4>1 DEF DevicesInv, OneEach
        <4>2. CASE {j, k} \subseteq Stored \cup Keys(q)
          BY <1>0, <3>1, <4>2 DEF DevicesInv, OneEach
        <4>3. ASSUME NEW a \in Keys(p), NEW b \in Keys(q), SameDevice(a, b)
              PROVE  FALSE
          <5>1. <<"host", a[2]>> \in Keys(p) \cap Keys(q)
            BY <1>0, <4>3 DEF DevicesInv, SameDevice
          <5>2. <<"host", a[2]>>[1] = "host"
            OBVIOUS
          <5> QED BY <1>0, <5>1, <5>2 DEF DevicesInv
        <4> QED BY <3>1, <4>1, <4>2, <4>3 DEF SameDevice
      <3>2. OneEach(Stored')
        BY <1>0, <2>2 DEF DevicesInv
      <3>3. \A q \in Procs \ {p} : OneEach(Stored' \cup Keys(q)')
        BY <1>1, <2>2, <3>1 DEF OneEach
      <3>4. OneEach(Stored' \cup Keys(p)')
        BY <1>1, <3>2 DEF OneEach
      <3> QED BY <3>2, <3>3, <3>4
    <2> QED BY <2>1, <2>2
  <1>3. \A q \in Procs : \A k \in Keys(q)' : k[1] = "gpu" => <<"host", k[2]>> \in Keys(q)'
    BY <1>0, <1>1 DEF DevicesInv
  <1>4. \A q, x \in Procs : \A k \in Keys(q)' \cap Keys(x)' : k[1] = "host" => q = x
    BY <1>0, <1>1 DEF DevicesInv
  <1>5. DevicesInv'
    BY <1>2, <1>3, <1>4 DEF DevicesInv, OneEach, SameDevice
  <1>6. AllKeys' \subseteq AllKeys
    BY <1>1 DEF AllKeys
  <1>7. \A q, x \in Procs : q # x /\ Posting(proc'[q]) /\ Posting(proc'[x])
                              => {proc'[q].run, proc'[x].run} \in overlap'
    BY <1>0, <1>1 DEF InstancesInv, Ends
  <1>8. \A q \in Procs : \A k \in Keys(q)' :
          k[1] = "inst" => k \in Stored' \/ (k[4] = proc'[q].run /\ Posting(proc'[q]))
    BY <1>0, <1>1 DEF InstancesInv
  <1>9. ASSUME NEW q \in Procs
        PROVE  HasLooked(proc'[q], Stored' \cup Keys(q)', AllKeys', overlap')
    <2>0. \A own, ks, pairs : HasLooked(Off, own, ks, pairs)
      BY DEF HasLooked, Off
    <2>1. CASE q = p
      BY <1>1, <2>0, <2>1
    <2>2. CASE q # p
      <3>1. HasLooked(proc[q], Stored \cup Keys(q), AllKeys, overlap)
        BY <1>0 DEF InstancesInv
      <3>2. HasLooked(proc[q], Stored' \cup Keys(q), AllKeys', overlap)
        BY <1>6, <3>1 DEF HasLooked
      <3>3. proc'[q] = proc[q] /\ Keys(q)' = Keys(q) /\ overlap' = overlap
        BY <1>1, <2>2 DEF Ends
      <3> QED BY <3>2, <3>3
    <2> QED BY <2>1, <2>2
  <1>10. Met(AllKeys', overlap')
    BY <1>0, <1>6 DEF InstancesInv, Met, Ends
  <1>11. InstancesInv'
    BY <1>7, <1>8, <1>9, <1>10 DEF InstancesInv, HasLooked, Met, Posting, IsOf, SameInstance
  <1> QED BY <1>5, <1>11

\* Exit, exception or kill: the transaction is rolled back.
LEMMA GoneMove ==
    ASSUME LoadInv, NEW p \in Procs, Gone(p), UNCHANGED <<tab, runs, report, overlap>>
    PROVE  LoadInv'
  <1>1. Ends(p) /\ Stored' = Stored
    BY DEF Gone, Ends, Stored
  <1>2. /\ \A q \in Procs : proc'[q] = IF q = p THEN Off ELSE proc[q]
        /\ \A q \in Procs : Keys(q)' = IF q = p THEN {} ELSE Keys(q)
        /\ ~Active(Off) /\ ~Working(Off)
        /\ ScriptsInv'
    BY <1>1, EndKeys DEF LoadInv
  <1>3. /\ \A k \in Stored' : RunRow(k) =>
             /\ RunOf(k) \in 1..runs
             /\ \A q \in Procs : Active(proc'[q]) => RunOf(k) # proc'[q].run
             /\ \A r \in report : ~r.ok => RunOf(k) # r.run
        /\ \A q \in Procs : \A k \in Keys(q)' : RunRow(k) => k \in Stored' \/ RunOf(k) = proc'[q].run
        /\ \A r \in report :
             /\ r.run \in 1..runs
             /\ \A q \in Procs : Active(proc'[q]) => r.run # proc'[q].run
             /\ r.job \in Loads /\ r.ok => Done(r, Stored')
        /\ \A q \in Procs : Working(proc'[q]) => Done(proc'[q], Keys(q)')
    BY <1>1, <1>2 DEF LoadInv, ReportsInv
  <1>4. ReportsInv'
    BY <1>3 DEF ReportsInv, Done, RunRow, RunOf, Active, Working
  <1> QED BY <1>1, <1>2, <1>4, EndsWell DEF LoadInv

\* To the next node.
LEMMA Advance ==
    ASSUME ScriptsInv, NEW p \in Procs, proc[p].pc \in {"look", "store", "commit"}, NEW said,
           \/ proc' = NextNode(p, said)
           \/ proc' = [NextNode(p, said) EXCEPT ![p].aborted = TRUE]
    PROVE  \E new : /\ proc' = [proc EXCEPT ![p] = new]
                    /\ IsProc(new) /\ new.pc = "look"
                    /\ new.run = proc[p].run /\ new.job = proc[p].job
                    /\ new.said = proc[p].said \cup said
  <1>1. PICK r : r = proc[p]
    OBVIOUS
  <1>2. IsProc(r) /\ r.job \in Loads
    BY <1>1 DEF ScriptsInv, IsProc
  <1>3. CASE proc' = NextNode(p, said)
    <2>1. PICK new : new = [r EXCEPT !.pc = "look", !.i = @ + 1, !.seen = 0, !.said = @ \cup said]
      OBVIOUS
    <2>2. proc' = [proc EXCEPT ![p] = new]
      BY <1>1, <1>3, <2>1 DEF NextNode, ScriptsInv
    <2>3. /\ IsProc(new) /\ new.pc = "look" /\ new.run = r.run /\ new.job = r.job
          /\ new.said = r.said \cup said
      BY <1>2, <2>1 DEF IsProc
    <2> QED BY <1>1, <2>2, <2>3
  <1>4. CASE proc' = [NextNode(p, said) EXCEPT ![p].aborted = TRUE]
    <2>1. PICK new : new = [r EXCEPT !.pc = "look", !.i = @ + 1, !.seen = 0, !.said = @ \cup said,
                                     !.aborted = TRUE]
      OBVIOUS
    <2>2. proc' = [proc EXCEPT ![p] = new]
      BY <1>1, <1>4, <2>1 DEF NextNode, ScriptsInv
    <2>3. /\ IsProc(new) /\ new.pc = "look" /\ new.run = r.run /\ new.job = r.job
          /\ new.said = r.said \cup said
      BY <1>2, <2>1 DEF IsProc
    <2> QED BY <1>1, <2>2, <2>3
  <1> QED BY <1>3, <1>4

\* A node that leaves no row, and a statement that fails.
LEMMA PassMove ==
    ASSUME LoadInv, NEW p \in Procs, proc[p].pc \in {"look", "store", "commit"},
           \/ proc' = NextNode(p, {})
           \/ proc' = [NextNode(p, {}) EXCEPT ![p].aborted = TRUE],
           UNCHANGED <<tab, tx, runs, report, overlap>>
    PROVE  LoadInv'
  <1>0. ScriptsInv
    BY DEF LoadInv
  <1>1. PICK new : /\ proc' = [proc EXCEPT ![p] = new]
                   /\ IsProc(new) /\ new.pc = "look"
                   /\ new.run = proc[p].run /\ new.job = proc[p].job
                   /\ new.said = proc[p].said \cup {}
    BY <1>0, Advance
  <1>2. Works(p, {}, new)
    BY <1>0, <1>1, SameKeys DEF Works, Active
  <1>3. Posting(proc[p]) <=> Posting(new)
    BY <1>0, <1>1 DEF Posting, ScriptsInv, IsProc
  <1>4. Done(new, Keys(p) \cup {})
    <2>1. Done(proc[p], Keys(p))
      BY DEF LoadInv, ReportsInv, Working
    <2> QED BY <1>1, <2>1 DEF Done
  <1>5. HasLooked(new, Stored \cup (Keys(p) \cup {}), AllKeys \cup {}, overlap)
    BY <1>1 DEF HasLooked
  <1> QED BY <1>1, <1>2, <1>3, <1>4, <1>5, PlainMove

\* The loader has looked up its terms: the next statement.
LEMMA StartStep ==
    ASSUME LoadInv, NEW p \in Procs, NEW j \in Jobs, NEW f \in DOMAIN AuditFiles, Start(p, j, f)
    PROVE  LoadInv'
  <1>0. ScriptsInv /\ ReportsInv /\ DevicesInv /\ InstancesInv
    BY DEF LoadInv
  <1>1. /\ proc[p].pc = "off" /\ runs' = runs + 1 /\ runs \in Nat /\ Keys(p) = {}
        /\ UNCHANGED <<tab, tx, report, overlap>>
    BY <1>0 DEF Start, ScriptsInv
  <1>2. /\ \A q \in Procs : Keys(q)' = Keys(q)
        /\ Stored' = Stored /\ AllKeys' = AllKeys
    BY <1>1 DEF Keys, Stored, AllKeys
  <1>3. CASE proc' = proc
    <2>1. ScriptsInv'
      BY <1>0, <1>1, <1>2, <1>3 DEF ScriptsInv, Active, IsProc
    <2>2. ReportsInv'
      <3>1. 1..runs \subseteq 1..runs'
        BY <1>1
      <3>2. \A k \in Stored : RunRow(k) =>
              /\ RunOf(k) \in 1..runs'
              /\ \A q \in Procs : Active(proc[q]) => RunOf(k) # proc[q].run
              /\ \A r \in report : ~r.ok => RunOf(k) # r.run
        BY <1>0, <3>1 DEF ReportsInv
      <3>3. \A r \in report :
              /\ r.run \in 1..runs'
              /\ \A q \in Procs : Active(proc[q]) => r.run # proc[q].run
              /\ r.job \in Loads /\ r.ok => Done(r, Stored)
        BY <1>0, <3>1 DEF ReportsInv
      <3>4. /\ \A q \in Procs : \A k \in Keys(q) : RunRow(k) => k \in Stored \/ RunOf(k) = proc[q].run
            /\ \A q \in Procs : Working(proc[q]) => Done(proc[q], Keys(q))
        BY <1>0 DEF ReportsInv
      <3> QED BY <1>1, <1>2, <1>3, <3>2, <3>3, <3>4 DEF ReportsInv, Active, Working, RunRow, RunOf, Done
    <2>3. DevicesInv'
      BY <1>0, <1>2 DEF DevicesInv, OneEach, SameDevice
    <2>4. InstancesInv'
      BY <1>0, <1>1, <1>2, <1>3 DEF InstancesInv, HasLooked, Met, Posting, IsOf, SameInstance
    <2> QED BY <2>1, <2>2, <2>3, <2>4 DEF LoadInv
  <1>4. ASSUME NEW new, proc' = [proc EXCEPT ![p] = new], IsProc(new), new.run = runs + 1,
               new.pc \in {"register", "seed"}
        PROVE  LoadInv'
    <2>1. \A q \in Procs : proc'[q] = IF q = p THEN new ELSE proc[q]
      BY <1>0, <1>4 DEF ScriptsInv
    <2>2. proc' = [q \in Procs |-> proc'[q]] /\ tx' = [q \in Procs |-> tx'[q]]
      BY <1>0, <1>1, <1>4 DEF ScriptsInv
    <2>3. \A q \in Procs : /\ IsProc(proc'[q])
                           /\ proc'[q].pc \in {"off", "register"} => Keys(q)' = {}
                           /\ Active(proc'[q]) => proc'[q].run \in 1..runs'
      BY <1>0, <1>1, <1>2, <1>4, <2>1 DEF ScriptsInv
    <2>4. \A q, x \in Procs :
             q # x /\ Active(proc'[q]) /\ Active(proc'[x]) => proc'[q].run # proc'[x].run
      BY <1>0, <1>1, <1>4, <2>1 DEF ScriptsInv
    <2>5. ScriptsInv'
      BY <1>1, <2>2, <2>3, <2>4 DEF ScriptsInv, Active, IsProc
    <2>6. ~Working(new) /\ ~Posting(new)
      BY <1>4 DEF Working, Posting
    <2>7. ReportsInv'
      <3>1. \A k \in Stored : RunRow(k) =>
              /\ RunOf(k) \in 1..runs'
              /\ \A q \in Procs : Active(proc'[q]) => RunOf(k) # proc'[q].run
              /\ \A r \in report : ~r.ok => RunOf(k) # r.run
        BY <1>0, <1>1, <1>4, <2>1 DEF ReportsInv
      <3>2. \A r \in report :
              /\ r.run \in 1..runs'
              /\ \A q \in Procs : Active(proc'[q]) => r.run # proc'[q].run
              /\ r.job \in Loads /\ r.ok => Done(r, Stored)
        BY <1>0, <1>1, <1>4, <2>1 DEF ReportsInv
      <3>3. \A q \in Procs : \A k \in Keys(q) : RunRow(k) => k \in Stored \/ RunOf(k) = proc'[q].run
        BY <1>0, <1>1, <2>1 DEF ReportsInv
      <3>4. \A q \in Procs : Working(proc'[q]) => Done(proc'[q], Keys(q))
        BY <1>0, <2>1, <2>6 DEF ReportsInv
      <3>5. /\ Stored' = Stored /\ report' = report
            /\ \A q \in Procs : Keys(q)' = Keys(q)
        BY <1>1, <1>2
      <3> HIDE DEF Stored, Keys
      <3> QED BY <3>1, <3>2, <3>3, <3>4, <3>5, SMTT(30)
              DEF ReportsInv, Active, Working, RunRow, RunOf, Done
    <2>8. DevicesInv'
      BY <1>0, <1>2 DEF DevicesInv, OneEach, SameDevice
    <2>9. InstancesInv'
      <3>1. \A q, x \in Procs : q # x /\ Posting(proc'[q]) /\ Posting(proc'[x])
                              => {proc'[q].run, proc'[x].run} \in overlap
        BY <1>0, <2>1, <2>6 DEF InstancesInv
      <3>2. \A q \in Procs : \A k \in Keys(q) :
              k[1] = "inst" => k \in Stored \/ (k[4] = proc'[q].run /\ Posting(proc'[q]))
        BY <1>0, <1>1, <2>1 DEF InstancesInv
      <3>3. \A q \in Procs : HasLooked(proc'[q], Stored \cup Keys(q), AllKeys, overlap)
        <4>1. \A own, ks, pairs : HasLooked(new, own, ks, pairs)
          BY <1>4 DEF HasLooked
        <4> QED BY <1>0, <2>1, <4>1 DEF InstancesInv
      <3> QED BY <1>0, <1>1, <1>2, <3>1, <3>2, <3>3
              DEF InstancesInv, HasLooked, Met, Posting, IsOf, SameInstance
    <2> QED BY <2>5, <2>7, <2>8, <2>9 DEF LoadInv
  <1>5. CASE proc' # proc
    <2>1. PICK new, terms : /\ proc' = [proc EXCEPT ![p] = new]
                            /\ new = [pc |-> IF j \in Loads THEN "register" ELSE "seed", job |-> j, i |-> 1,
                                       seen |-> IF <<"source", j>> \in DOMAIN tab THEN 1 ELSE 0,
                                       aborted |-> FALSE, said |-> {}, terms |-> terms,
                                       run |-> runs + 1, file |-> f]
      BY <1>5, Zenon DEF Start
    <2>2. new.run = runs + 1 /\ new.job = j /\ new.pc = IF j \in Loads THEN "register" ELSE "seed"
      BY <2>1
    <2>3. IsProc(new) /\ new.run = runs + 1 /\ new.pc \in {"register", "seed"}
      BY <2>1, <2>2 DEF IsProc
    <2> QED BY <1>4, <2>1, <2>3
  <1> QED BY <1>3, <1>5

\* The discovery source and the collection run.
LEMMA RegisterStep ==
    ASSUME LoadInv, NEW p \in Procs, Register(p)
    PROVE  LoadInv'
  <1>0. ScriptsInv /\ ReportsInv /\ DevicesInv /\ InstancesInv
    BY DEF LoadInv
  <1>1. CASE Gone(p) /\ UNCHANGED overlap
    BY <1>1, GoneMove DEF Register
  <1>2. CASE ~(Gone(p) /\ UNCHANGED overlap)
    <2> DEFINE j == proc[p].job
               rows == Over(Row(<<"run", proc[p].run>>, 0),
                            IF proc[p].seen = 0 THEN Row(<<"source", j>>, 0) ELSE Empty)
               N == DOMAIN rows
    <2>1. /\ Write(p, rows) /\ proc' = [proc EXCEPT ![p].pc = "look"]
          /\ overlap' = overlap \cup
                    {{proc[p].run, proc[q].run} :
                        q \in {x \in Procs \ {p} : j = "posture" /\ proc[x].job = j
                                                   /\ proc[x].pc \in {"look", "store"}}}
          /\ proc[p].pc = "register" /\ UNCHANGED <<tab, runs, report>>
      BY <1>2 DEF Register
    <2>2. PICK new : new = [proc[p] EXCEPT !.pc = "look"]
      OBVIOUS
    <2>3. proc' = [proc EXCEPT ![p] = new]
      BY <1>0, <2>1, <2>2 DEF ScriptsInv
    <2>4. IsProc(proc[p]) /\ proc[p].job \in Loads /\ Keys(p) = {}
      BY <1>0, <2>1 DEF ScriptsInv, IsProc
    <2>5. /\ IsProc(new) /\ new.pc = "look" /\ new.run = proc[p].run /\ new.job = j
      BY <2>2, <2>4 DEF IsProc
    <2>6. N \subseteq {<<"run", new.run>>, <<"source", j>>} /\ <<"run", new.run>> \in N
      <3>1. PICK first : first = IF proc[p].seen = 0 THEN Row(<<"source", j>>, 0) ELSE Empty
        OBVIOUS
      <3>2. DOMAIN first \subseteq {<<"source", j>>}
        BY <3>1, OneRow DEF Empty
      <3>3. N = DOMAIN Row(<<"run", proc[p].run>>, 0) \cup DOMAIN first
        BY <3>1, RowKeys
      <3>4. DOMAIN Row(<<"run", proc[p].run>>, 0) = {<<"run", new.run>>}
        BY <2>5, OneRow
      <3> QED BY <3>2, <3>3, <3>4
    <2>7. Works(p, N, new)
      BY <1>0, <2>1, <2>3, <2>5, WriteKeys DEF Works, Active
    <2>8. \A k \in N : k[1] \in {"run", "source"} /\ (RunRow(k) => RunOf(k) = new.run)
      <3>1. /\ <<"run", new.run>>[1] = "run" /\ RunOf(<<"run", new.run>>) = new.run
            /\ <<"source", j>>[1] = "source"
        BY PairKey
      <3> QED BY <2>6, <3>1 DEF RunRow
    <2> HIDE DEF N
    <2>9. ScriptsInv'
      BY <1>0, <2>7, ScriptsMove
    <2>10. Done(new, Keys(p) \cup N)
      <3>1. new.said = {}
        BY <2>1, <2>2, <2>4 DEF IsProc
      <3> QED BY <2>6, <3>1 DEF Done
    <2>11. ReportsInv'
      BY <1>0, <2>7, <2>8, <2>10, ReportsMove
    <2>12. OneEach(Stored \cup (Keys(p) \cup N))
      BY <1>0, <2>8 DEF DevicesInv, OneEach, SameDevice
    <2>13. DevicesInv'
      BY <1>0, <2>7, <2>8, <2>12, DevicesMove
    <2>14. Met(AllKeys \cup N, overlap')
      BY <1>0, <2>1, <2>8 DEF InstancesInv, Met, SameInstance
    <2>15. Posting(new) => \A q \in Procs \ {p} : Posting(proc[q]) => {new.run, proc[q].run} \in overlap'
      BY <2>1, <2>5 DEF Posting
    <2>16. HasLooked(new, Stored \cup (Keys(p) \cup N), AllKeys \cup N, overlap')
      BY <2>5 DEF HasLooked
    <2>17. Posting(proc[p]) => Posting(new)
      BY <2>1 DEF Posting
    <2>18. overlap \subseteq overlap'
      BY <2>1
    <2>19. InstancesInv'
      BY <1>0, <2>5, <2>7, <2>8, <2>14, <2>15, <2>16, <2>17, <2>18, InstancesMove
    <2> QED BY <2>9, <2>11, <2>13, <2>19 DEF LoadInv
  <1> QED BY <1>1, <1>2

\* Nodes that are passed over, statements that are rejected.
LEMMA PassStep ==
    ASSUME LoadInv, NEW p \in Procs, PassOver(p) \/ NodeRejected(p) \/ DeadlockVictim(p)
    PROVE  LoadInv'
  <1>1. CASE PassOver(p) \/ NodeRejected(p)
    BY <1>1, PassMove DEF PassOver, NodeRejected
  <1>2. CASE DeadlockVictim(p)
    <2>1. CASE proc[p].pc = "seed"
      BY <1>2, <2>1, GoneMove DEF DeadlockVictim
    <2>2. CASE proc[p].pc # "seed"
      <3>1. PICK q \in Procs \ {p} : Wants(q) \in Keys(p)
        BY <1>2 DEF DeadlockVictim, WaitsOn, Keys
      <3>2. proc[p].pc \in {"look", "store", "commit"}
        BY <2>2, <3>1 DEF LoadInv, ScriptsInv, IsProc
      <3> QED BY <1>2, <2>2, <3>2, PassMove DEF DeadlockVictim
    <2> QED BY <2>1, <2>2
  <1> QED BY <1>1, <1>2

\* The SELECT of a host.
LEMMA SshLookStep ==
    ASSUME LoadInv, NEW p \in Procs, SshLook(p)
    PROVE  LoadInv'
  <1>0. ScriptsInv /\ UNCHANGED <<tab, tx, runs, report, overlap>>
    BY DEF LoadInv, SshLook
  <1>1. proc[p].pc = "look" /\ proc[p].job = "ssh" /\ IsProc(proc[p])
    BY <1>0 DEF SshLook, AtNode, ScriptsInv
  <1>2. CASE proc' = NextNode(p, {})
    BY <1>0, <1>1, <1>2, PassMove
  <1>3. CASE proc' # NextNode(p, {})
    <2>1. PICK seen : proc' = [proc EXCEPT ![p].pc = "store", ![p].seen = seen]
      BY <1>3 DEF SshLook
    <2>2. PICK new : new = [proc[p] EXCEPT !.pc = "store", !.seen = seen]
      OBVIOUS
    <2>3. proc' = [proc EXCEPT ![p] = new]
      BY <1>0, <2>1, <2>2 DEF ScriptsInv
    <2>4. /\ IsProc(new) /\ new.pc = "store" /\ new.run = proc[p].run /\ new.job = "ssh"
          /\ new.said = proc[p].said
      BY <1>1, <2>2 DEF IsProc, Loads
    <2>5. Works(p, {}, new)
      BY <1>0, <1>1, <2>3, <2>4, SameKeys DEF Works, Active
    <2>6. Done(new, Keys(p) \cup {})
      <3>1. Done(proc[p], Keys(p))
        BY <1>1 DEF LoadInv, ReportsInv, Working
      <3> QED BY <1>1, <2>4, <3>1 DEF Done
    <2>7. HasLooked(new, Stored \cup (Keys(p) \cup {}), AllKeys \cup {}, overlap)
      BY <2>4 DEF HasLooked
    <2>8. Posting(proc[p]) <=> Posting(new)
      BY <1>1, <2>4 DEF Posting
    <2> QED BY <1>0, <1>1, <2>4, <2>5, <2>6, <2>7, <2>8, PlainMove
  <1> QED BY <1>2, <1>3

\* The devices of a node: one of each, those that were there and no other.
LEMMA DeviceKeys ==
    ASSUME NEW rows, NEW n, NEW mine, OneEach(DOMAIN rows)
    PROVE  /\ \A k \in DOMAIN DeviceRows(rows, n, mine) :
                /\ k[1] = "gpu" /\ k[2] = n.alias
                /\ k \in DOMAIN rows \/ RunOf(k) = mine
           /\ OneEach(DOMAIN rows \cup DOMAIN DeviceRows(rows, n, mine))
  <1> DEFINE D == DOMAIN DeviceRows(rows, n, mine)
  <1>1. D = UNION {IF Devices(rows, n.alias, u) = {} THEN {<<"gpu", n.alias, u, mine>>}
                   ELSE Devices(rows, n.alias, u) : u \in n.gpus}
    BY DEF DeviceRows
  <1>2. ASSUME NEW k \in D
        PROVE  \E u \in n.gpus :
                 /\ k[1] = "gpu" /\ k[2] = n.alias /\ k[3] = u
                 /\ \/ k \in DOMAIN rows
                    \/ /\ Devices(rows, n.alias, u) = {} /\ k = <<"gpu", n.alias, u, mine>>
                       /\ RunOf(k) = mine
    <2>1. PICK u \in n.gpus : k \in IF Devices(rows, n.alias, u) = {} THEN {<<"gpu", n.alias, u, mine>>}
                                    ELSE Devices(rows, n.alias, u)
      BY <1>1, <1>2
    <2>2. CASE Devices(rows, n.alias, u) = {}
      <3>1. k = <<"gpu", n.alias, u, mine>>
        BY <2>1, <2>2
      <3>2. k[1] = "gpu" /\ k[2] = n.alias /\ k[3] = u /\ RunOf(k) = mine
        BY <3>1, LongKey
      <3> QED BY <2>2, <3>1, <3>2
    <2>3. CASE Devices(rows, n.alias, u) # {}
      BY <2>1, <2>3 DEF Devices
    <2> QED BY <2>2, <2>3
  <1>3. ASSUME NEW j \in D, NEW k \in DOMAIN rows \cup D, SameDevice(j, k)
        PROVE  j = k
    <2>1. PICK u \in n.gpus :
                 /\ j[1] = "gpu" /\ j[2] = n.alias /\ j[3] = u
                 /\ \/ j \in DOMAIN rows
                    \/ /\ Devices(rows, n.alias, u) = {} /\ j = <<"gpu", n.alias, u, mine>>
      BY <1>2, <1>3
    <2>2. k[1] = "gpu" /\ k[2] = n.alias /\ k[3] = u
      BY <1>3, <2>1 DEF SameDevice
    <2>3. CASE k \in DOMAIN rows
      <3>1. k \in Devices(rows, n.alias, u)
        BY <2>2, <2>3 DEF Devices
      <3> QED BY <1>3, <2>1, <2>3, <3>1 DEF OneEach
    <2>4. CASE k \in D /\ k \notin DOMAIN rows
      <3>1. Devices(rows, n.alias, u) = {} /\ k = <<"gpu", n.alias, u, mine>>
        BY <1>2, <2>2, <2>4
      <3>2. CASE j \in DOMAIN rows
        BY <2>1, <3>1, <3>2 DEF Devices
      <3> QED BY <2>1, <3>1, <3>2
    <2> QED BY <1>3, <2>3, <2>4
  <1>4. OneEach(DOMAIN rows \cup D)
    <2> SUFFICES ASSUME NEW j \in DOMAIN rows \cup D, NEW k \in DOMAIN rows \cup D, SameDevice(j, k)
                 PROVE  j = k
      BY DEF OneEach
    <2>1. CASE j \in D
      BY <1>3, <2>1
    <2>2. CASE k \in D
      <3>1. SameDevice(k, j)
        BY DEF SameDevice
      <3> QED BY <1>3, <2>2, <3>1
    <2>3. CASE j \in DOMAIN rows /\ k \in DOMAIN rows
      BY <2>3 DEF OneEach
    <2> QED BY <2>1, <2>2, <2>3
  <1> QED BY <1>2, <1>4

\* A host, its hardware and its devices are stored.
LEMMA SshStoreStep ==
    ASSUME LoadInv, NEW p \in Procs, SshStore(p)
    PROVE  LoadInv'
  <1>0. ScriptsInv /\ ReportsInv /\ DevicesInv /\ InstancesInv /\ UNCHANGED <<tab, runs, report, overlap>>
    BY DEF LoadInv, SshStore
  <1>1. proc[p].pc = "store" /\ proc[p].job = "ssh" /\ IsProc(proc[p]) /\ ~Locked(p, HostKey(Node(p)))
    BY <1>0 DEF SshStore, AtNode, ScriptsInv
  <1>2. CASE proc[p].seen = 0 /\ HostKey(Node(p)) \in DOMAIN tab
    <2>1. proc' = [NextNode(p, {}) EXCEPT ![p].aborted = TRUE] /\ UNCHANGED tx
      BY <1>2 DEF SshStore
    <2> QED BY <1>0, <1>1, <2>1, PassMove
  <1>3. CASE ~(proc[p].seen = 0 /\ HostKey(Node(p)) \in DOMAIN tab)
    <2> DEFINE n == Node(p)
               r == proc[p].run
    <2>1. PICK devices, said :
             /\ devices = (IF n.kind = "badgpu" THEN Empty ELSE DeviceRows(Visible(p), n, r))
             /\ said = (IF n.kind = "badgpu" THEN {} ELSE {n.alias})
      OBVIOUS
    <2> DEFINE rest == Over(Row(<<"snap", n.alias, r>>, r), devices)
               rows == Over(Row(HostKey(n), HostRow(n)), rest)
               N == DOMAIN rows
               D == DOMAIN devices
    <2>2. Write(p, rows) /\ proc' = NextNode(p, said)
      BY <1>3, <2>1 DEF SshStore
    <2>3. PICK new : /\ proc' = [proc EXCEPT ![p] = new]
                     /\ IsProc(new) /\ new.pc = "look" /\ new.run = r /\ new.job = proc[p].job
                     /\ new.said = proc[p].said \cup said
      BY <1>0, <1>1, <2>2, Advance
    <2>4. N = {<<"host", n.alias>>, <<"snap", n.alias, r>>} \cup D
      <3>1. N = DOMAIN Row(HostKey(n), HostRow(n)) \cup DOMAIN rest
        BY RowKeys
      <3>2. DOMAIN rest = DOMAIN Row(<<"snap", n.alias, r>>, r) \cup D
        BY RowKeys
      <3>3. DOMAIN Row(HostKey(n), HostRow(n)) = {<<"host", n.alias>>}
        BY OneRow DEF HostKey
      <3>4. DOMAIN Row(<<"snap", n.alias, r>>, r) = {<<"snap", n.alias, r>>}
        BY OneRow
      <3> QED BY <3>1, <3>2, <3>3, <3>4
    <2>5. Works(p, N, new)
      BY <1>0, <1>1, <2>2, <2>3, WriteKeys DEF Works, Active
    <2>6. DOMAIN Visible(p) = Stored \cup Keys(p)
      <3>1. DOMAIN Over(tx[p], tab) = DOMAIN tx[p] \cup DOMAIN tab
        BY RowKeys
      <3> QED BY <3>1 DEF Visible, Stored, Keys
    <2>7. OneEach(DOMAIN Visible(p))
      BY <1>0, <2>6 DEF DevicesInv
    <2>8. /\ \A k \in D : /\ k[1] = "gpu" /\ k[2] = n.alias
                          /\ k \in Stored \cup Keys(p) \/ RunOf(k) = r
          /\ OneEach(Stored \cup Keys(p) \cup D)
      <3>1. CASE n.kind = "badgpu"
        BY <2>1, <2>6, <2>7, <3>1 DEF Empty
      <3>2. CASE n.kind # "badgpu"
        <4>1. devices = DeviceRows(Visible(p), n, r)
          BY <2>1, <3>2
        <4>2. /\ \A k \in DOMAIN DeviceRows(Visible(p), n, r) :
                   /\ k[1] = "gpu" /\ k[2] = n.alias
                   /\ k \in DOMAIN Visible(p) \/ RunOf(k) = r
              /\ OneEach(DOMAIN Visible(p) \cup DOMAIN DeviceRows(Visible(p), n, r))
          BY <2>7, DeviceKeys
        <4> QED BY <2>6, <4>1, <4>2
      <3> QED BY <3>1, <3>2
    <2> HIDE DEF N, D
    <2>9. /\ <<"host", n.alias>>[1] = "host"
          /\ <<"snap", n.alias, r>>[1] = "snap" /\ RunOf(<<"snap", n.alias, r>>) = r
      BY PairKey, TripleKey
    <2>10. Done(new, Keys(p) \cup N)
      <3>1. Done(proc[p], Keys(p))
        BY <1>0, <1>1 DEF ReportsInv, Working
      <3>2. said \subseteq {n.alias} /\ <<"snap", n.alias, r>> \in N
        BY <2>1, <2>4
      <3> QED BY <1>1, <2>3, <3>1, <3>2 DEF Done
    <2>11. \A k \in N : RunRow(k) => k \in Stored \cup Keys(p) \/ RunOf(k) = new.run
      BY <2>3, <2>4, <2>8, <2>9 DEF RunRow
    <2>12. \A k \in N : k[1] = "gpu" => <<"host", k[2]>> \in Keys(p) \cup N
      BY <2>4, <2>8, <2>9
    <2>13. \A k \in N : k[1] = "host" => \A q \in Procs \ {p} : k \notin Keys(q)
      <3>1. \A q \in Procs \ {p} : <<"host", n.alias>> \notin Keys(q)
        BY <1>1 DEF Locked, HostKey, Keys
      <3> QED BY <2>4, <2>8, <2>9, <3>1
    <2>14. OneEach(Stored \cup (Keys(p) \cup N))
      BY <2>4, <2>8, <2>9 DEF OneEach, SameDevice
    <2>15. Met(AllKeys \cup N, overlap')
      BY <1>0, <2>4, <2>8, <2>9 DEF InstancesInv, Met, SameInstance
    <2>16. ~Posting(new) /\ ~Posting(proc[p]) /\ new.job = proc[p].job
      BY <1>1, <2>3 DEF Posting
    <2>17. HasLooked(new, Stored \cup (Keys(p) \cup N), AllKeys \cup N, overlap')
      BY <2>3 DEF HasLooked
    <2>18. \A k \in N : k[1] # "inst"
      BY <2>4, <2>8, <2>9
    <2>19. ScriptsInv'
      BY <1>0, <2>5, ScriptsMove
    <2>20. ReportsInv'
      BY <1>0, <2>5, <2>10, <2>11, ReportsMove
    <2>21. DevicesInv'
      BY <1>0, <2>5, <2>12, <2>13, <2>14, DevicesMove
    <2>22. overlap \subseteq overlap'
      BY <1>0
    <2>23. InstancesInv'
      BY <1>0, <2>5, <2>15, <2>16, <2>17, <2>18, <2>22, InstancesMove
    <2> QED BY <2>19, <2>20, <2>21, <2>23 DEF LoadInv
  <1> QED BY <1>2, <1>3

\* The rows a process sees.
LEMMA SeenKeys ==
    ASSUME NEW p
    PROVE  DOMAIN Visible(p) = Stored \cup Keys(p)
  <1>1. DOMAIN Over(tx[p], tab) = DOMAIN tx[p] \cup DOMAIN tab
    BY RowKeys
  <1> QED BY <1>1 DEF Visible, Stored, Keys

\* The fact and the service of a node, and the SELECT of its instance.
LEMMA PostureLookStep ==
    ASSUME LoadInv, NEW p \in Procs, PostureLook(p)
    PROVE  LoadInv'
  <1>0. ScriptsInv /\ InstancesInv /\ UNCHANGED <<tab, runs, report, overlap>>
    BY DEF LoadInv, PostureLook
  <1>1. proc[p].pc = "look" /\ proc[p].job = "posture" /\ IsProc(proc[p])
    BY <1>0 DEF PostureLook, AtNode, ScriptsInv
  <1>2. CASE Unresolved(p, PostureTerms(Node(p))) # {}
    <2>1. proc' = NextNode(p, {}) /\ UNCHANGED tx
      BY <1>2 DEF PostureLook
    <2> QED BY <1>0, <1>1, <2>1, PassMove
  <1>3. CASE Unresolved(p, PostureTerms(Node(p))) = {}
    <2> DEFINE n == Node(p)
               r == proc[p].run
               code == InferServiceKind(n.name)
    <2>1. PICK fact, svc, seen :
             /\ fact = (IF n.safe THEN Row(<<"fact", n.alias, r>>, r) ELSE Empty)
             /\ svc = ServiceRow(p, code)
             /\ seen = (IF Instances(Visible(p), n) = {} THEN 0 ELSE 1)
      OBVIOUS
    <2> DEFINE N == DOMAIN Over(fact, svc)
    <2>2. Write(p, Over(fact, svc)) /\ proc' = [proc EXCEPT ![p].pc = "store", ![p].seen = seen]
      BY <1>3, <2>1 DEF PostureLook
    <2>3. PICK new : new = [proc[p] EXCEPT !.pc = "store", !.seen = seen]
      OBVIOUS
    <2>4. proc' = [proc EXCEPT ![p] = new]
      BY <1>0, <2>2, <2>3 DEF ScriptsInv
    <2>5. /\ IsProc(new) /\ new.pc = "store" /\ new.run = r /\ new.job = "posture"
          /\ new.said = proc[p].said /\ new.i = proc[p].i /\ new.seen = seen
      BY <1>1, <2>3 DEF IsProc, Loads
    <2>6. N \subseteq {<<"fact", n.alias, r>>, <<"svc", code>>}
      <3>1. N = DOMAIN fact \cup DOMAIN svc
        BY RowKeys
      <3>2. DOMAIN fact \subseteq {<<"fact", n.alias, r>>}
        BY <2>1, OneRow DEF Empty
      <3>3. DOMAIN Row(SvcKey(code), LoadedService(code)) = {<<"svc", code>>}
        BY OneRow DEF SvcKey
      <3>4. DOMAIN svc \subseteq {<<"svc", code>>}
        BY <2>1, <3>3 DEF ServiceRow, Empty
      <3> QED BY <3>1, <3>2, <3>4
    <2>7. Works(p, N, new)
      BY <1>0, <1>1, <2>2, <2>4, <2>5, WriteKeys DEF Works, Active
    <2> HIDE DEF N
    <2>8. \A k \in N : k[1] \in {"fact", "svc"} /\ (RunRow(k) => RunOf(k) = new.run)
      <3>1. /\ <<"fact", n.alias, r>>[1] = "fact" /\ RunOf(<<"fact", n.alias, r>>) = r
            /\ <<"svc", code>>[1] = "svc"
        BY PairKey, TripleKey
      <3> QED BY <2>5, <2>6, <3>1 DEF RunRow
    <2>9. Done(new, Keys(p) \cup N)
      <3>1. Done(proc[p], Keys(p))
        BY <1>1 DEF LoadInv, ReportsInv, Working
      <3> QED BY <1>1, <2>5, <3>1 DEF Done
    <2>10. n = PostureFile[new.i]
      BY <1>1, <2>5 DEF Node, File
    <2>11. Instances(Visible(p), n) = {k \in Stored \cup Keys(p) : IsOf(k, n)}
      BY SeenKeys DEF Instances, IsOf
    <2>12. HasLooked(new, Stored \cup (Keys(p) \cup N), AllKeys \cup N, overlap)
      <3>1. CASE seen # 0
        <4>1. \E k \in Stored \cup Keys(p) : IsOf(k, n)
          BY <2>1, <2>11, <3>1
        <4> QED BY <2>5, <2>10, <3>1, <4>1 DEF HasLooked
      <3>2. CASE seen = 0
        <4>1. \A k \in Stored \cup Keys(p) : ~IsOf(k, n)
          BY <2>1, <2>11, <3>2
        <4>2. ASSUME NEW k \in AllKeys \cup N, IsOf(k, n)
              PROVE  {k[4], new.run} \in overlap
          <5>1. k[1] = "inst"
            BY <4>2 DEF IsOf
          <5>2. PICK q \in Procs : k \in Keys(q) /\ q # p /\ k \notin Stored
            BY <2>8, <4>1, <4>2, <5>1 DEF AllKeys
          <5>3. k[4] = proc[q].run /\ Posting(proc[q])
            BY <1>0, <5>1, <5>2 DEF InstancesInv
          <5>4. Posting(proc[p])
            BY <1>1 DEF Posting
          <5>5. {proc[q].run, proc[p].run} \in overlap
            BY <1>0, <5>2, <5>3, <5>4 DEF InstancesInv
          <5> QED BY <2>5, <5>3, <5>5
        <4> QED BY <2>5, <2>10, <3>2, <4>2 DEF HasLooked
      <3> QED BY <3>1, <3>2
    <2>13. Posting(proc[p]) <=> Posting(new)
      BY <1>1, <2>5 DEF Posting
    <2>14. overlap' = overlap /\ new.job = proc[p].job
      BY <1>0, <1>1, <2>5
    <2>15. \A k \in N : k[1] \notin {"gpu", "host", "inst"}
      BY <2>8
    <2>16. \A k \in N : RunRow(k) => RunOf(k) = new.run
      BY <2>8
    <2> QED BY <2>7, <2>9, <2>12, <2>13, <2>14, <2>15, <2>16, PlainMove
  <1> QED BY <1>2, <1>3

\* The instance's row: the one that was there, or one of this run.
LEMMA InstanceRow ==
    ASSUME LoadInv, NEW p \in Procs, AtNode(p, "store", "posture")
    PROVE  \E key :
             /\ DOMAIN PostureRow(p, Node(p)) = {key} /\ IsOf(key, Node(p))
             /\ \/ key \in Stored \cup Keys(p)
                \/ /\ key[4] = proc[p].run /\ RunOf(key) = proc[p].run
                   /\ \A k \in AllKeys : IsOf(k, Node(p)) => {k[4], proc[p].run} \in overlap
  <1> DEFINE n == Node(p)
             r == proc[p].run
             N == DOMAIN PostureRow(p, n)
  <1>1. /\ proc[p].pc = "store" /\ proc[p].job = "posture" /\ n = PostureFile[proc[p].i]
        /\ HasLooked(proc[p], Stored \cup Keys(p), AllKeys, overlap)
    BY DEF AtNode, Node, File, LoadInv, InstancesInv
  <1>2. CASE proc[p].seen = 0
    <2>1. N = {<<"inst", n.alias, n.name, r>>}
      <3>1. PostureRow(p, n) = Row(<<"inst", n.alias, n.name, r>>, r)
        BY <1>2 DEF PostureRow
      <3>2. DOMAIN Row(<<"inst", n.alias, n.name, r>>, r) = {<<"inst", n.alias, n.name, r>>}
        BY OneRow
      <3> QED BY <3>1, <3>2
    <2>2. PICK key : key = <<"inst", n.alias, n.name, r>>
      OBVIOUS
    <2>3. key[1] = "inst" /\ key[2] = n.alias /\ key[3] = n.name /\ key[4] = r /\ RunOf(key) = r
      BY <2>2, LongKey
    <2>4. \A k \in AllKeys : IsOf(k, n) => {k[4], r} \in overlap
      BY <1>1, <1>2 DEF HasLooked
    <2> QED BY <2>1, <2>2, <2>3, <2>4 DEF IsOf
  <1>3. CASE proc[p].seen # 0
    <2>1. \E k \in Stored \cup Keys(p) : IsOf(k, n)
      BY <1>1, <1>3 DEF HasLooked
    <2>2. Instances(Visible(p), n) = {k \in Stored \cup Keys(p) : IsOf(k, n)}
      BY SeenKeys DEF Instances, IsOf
    <2>3. PICK key : key = CHOOSE k \in Instances(Visible(p), n) : TRUE
      OBVIOUS
    <2>4. key \in Instances(Visible(p), n)
      BY <2>1, <2>2, <2>3
    <2>5. N = {key}
      <3>1. PostureRow(p, n) = Row(key, r)
        BY <1>3, <2>3 DEF PostureRow
      <3>2. DOMAIN Row(key, r) = {key}
        BY OneRow
      <3> QED BY <3>1, <3>2
    <2> QED BY <2>2, <2>4, <2>5
  <1> QED BY <1>2, <1>3

\* The instance is updated or inserted.
LEMMA PostureStoreStep ==
    ASSUME LoadInv, NEW p \in Procs, PostureStore(p)
    PROVE  LoadInv'
  <1>0. ScriptsInv /\ ReportsInv /\ DevicesInv /\ InstancesInv /\ UNCHANGED <<tab, runs, report, overlap>>
    BY DEF LoadInv, PostureStore
  <1>1. proc[p].pc = "store" /\ proc[p].job = "posture" /\ IsProc(proc[p]) /\ Posting(proc[p])
    BY <1>0 DEF PostureStore, AtNode, ScriptsInv, Posting
  <1> DEFINE n == Node(p)
             r == proc[p].run
             N == DOMAIN PostureRow(p, n)
  <1>2. PICK said : Write(p, PostureRow(p, n)) /\ proc' = NextNode(p, said)
    BY DEF PostureStore
  <1>3. PICK new : /\ proc' = [proc EXCEPT ![p] = new]
                   /\ IsProc(new) /\ new.pc = "look" /\ new.run = r /\ new.job = proc[p].job
    BY <1>0, <1>1, <1>2, Advance
  <1>4. Works(p, N, new)
    BY <1>0, <1>1, <1>2, <1>3, WriteKeys DEF Works, Active
  <1>5. PICK key :
          /\ N = {key} /\ IsOf(key, n)
          /\ \/ key \in Stored \cup Keys(p)
             \/ /\ key[4] = r /\ RunOf(key) = r
                /\ \A k \in AllKeys : IsOf(k, n) => {k[4], r} \in overlap
    BY InstanceRow DEF PostureStore
  <1>6. key[1] = "inst" /\ key[2] = n.alias /\ key[3] = n.name
    BY <1>5 DEF IsOf
  <1>7. Done(new, Keys(p) \cup N)
    <2>1. Done(proc[p], Keys(p))
      BY <1>0, <1>1 DEF ReportsInv, Working
    <2> QED BY <1>1, <1>3, <2>1 DEF Done
  <1>8. ScriptsInv'
    BY <1>0, <1>4, ScriptsMove
  <1>9. \A k \in N : RunRow(k) => k \in Stored \cup Keys(p) \/ RunOf(k) = new.run
    BY <1>3, <1>5
  <1>10. ReportsInv'
    BY <1>0, <1>4, <1>7, <1>9, ReportsMove
  <1>11. OneEach(Stored \cup (Keys(p) \cup N))
    BY <1>0, <1>5, <1>6 DEF DevicesInv, OneEach, SameDevice
  <1>12. DevicesInv'
    BY <1>0, <1>4, <1>5, <1>6, <1>11, DevicesMove
  <1>13. Met(AllKeys \cup N, overlap')
    <2> SUFFICES ASSUME NEW j \in AllKeys \cup N, NEW k \in AllKeys \cup N, SameInstance(j, k), j # k
                 PROVE  {j[4], k[4]} \in overlap
      BY <1>0 DEF Met
    <2>1. CASE j \in AllKeys /\ k \in AllKeys
      BY <1>0, <2>1 DEF InstancesInv, Met
    <2>2. CASE j \notin AllKeys \/ k \notin AllKeys
      <3>1. key \notin AllKeys /\ Stored \cup Keys(p) \subseteq AllKeys
        BY <1>5, <2>2 DEF AllKeys
      <3>2. key[4] = r /\ \A x \in AllKeys : IsOf(x, n) => {x[4], r} \in overlap
        BY <1>5, <3>1
      <3>3. CASE j = key
        <4>1. k \in AllKeys /\ IsOf(k, n)
          BY <1>5, <1>6, <3>3 DEF IsOf, SameInstance
        <4> QED BY <3>2, <3>3, <4>1
      <3>4. CASE k = key
        <4>1. j \in AllKeys /\ IsOf(j, n)
          BY <1>5, <1>6, <3>4 DEF IsOf, SameInstance
        <4> QED BY <3>2, <3>4, <4>1
      <3> QED BY <1>5, <2>2, <3>3, <3>4
    <2> QED BY <2>1, <2>2
  <1>14. Posting(new) /\ new.job = proc[p].job
    BY <1>1, <1>3 DEF Posting
  <1>15. HasLooked(new, Stored \cup (Keys(p) \cup N), AllKeys \cup N, overlap')
    BY <1>3 DEF HasLooked
  <1>16. Posting(new) => \A q \in Procs \ {p} : Posting(proc[q]) => {new.run, proc[q].run} \in overlap'
    BY <1>0, <1>1, <1>3 DEF InstancesInv
  <1>17. \A k \in N : k[1] = "inst" => k \in Stored \cup Keys(p) \/ (k[4] = new.run /\ Posting(new))
    BY <1>3, <1>5, <1>14
  <1>18. overlap \subseteq overlap'
    BY <1>0
  <1>19. InstancesInv'
    BY <1>0, <1>4, <1>13, <1>14, <1>15, <1>16, <1>17, <1>18, InstancesMove
  <1> QED BY <1>8, <1>10, <1>12, <1>19 DEF LoadInv

\* The facts of a host and its artifact.
LEMMA TrustLoadStep ==
    ASSUME LoadInv, NEW p \in Procs, TrustLoad(p)
    PROVE  LoadInv'
  <1>0. ScriptsInv /\ UNCHANGED <<tab, runs, report, overlap>>
    BY DEF LoadInv, TrustLoad
  <1>1. proc[p].pc = "look" /\ proc[p].job = "trust" /\ IsProc(proc[p])
    BY <1>0 DEF TrustLoad, AtNode, ScriptsInv
  <1>2. CASE Unresolved(p, TrustTerms) # {}
    <2>1. proc' = NextNode(p, {}) /\ UNCHANGED tx
      BY <1>2 DEF TrustLoad
    <2> QED BY <1>0, <1>1, <2>1, PassMove
  <1>3. CASE Unresolved(p, TrustTerms) = {}
    <2> DEFINE n == Node(p)
               r == proc[p].run
    <2>1. PICK risk, fact, art, said :
             /\ fact = (IF n.safe THEN Row(<<"fact", n.alias, r>>, risk) ELSE Empty)
             /\ art = Row(<<"art", n.alias, r>>, risk)
             /\ said = {n.alias}
             /\ Write(p, Over(fact, art)) /\ proc' = NextNode(p, said)
      BY <1>3 DEF TrustLoad
    <2> DEFINE N == DOMAIN Over(fact, art)
    <2>0. proc' = NextNode(p, said)
      BY <2>1
    <2>2. PICK new : /\ proc' = [proc EXCEPT ![p] = new]
                     /\ IsProc(new) /\ new.pc = "look" /\ new.run = r /\ new.job = proc[p].job
                     /\ new.said = proc[p].said \cup said
      BY <1>0, <1>1, <2>0, Advance
    <2>3. N \subseteq {<<"fact", n.alias, r>>, <<"art", n.alias, r>>} /\ <<"art", n.alias, r>> \in N
      <3>1. N = DOMAIN fact \cup DOMAIN art
        BY RowKeys
      <3>2. DOMAIN fact \subseteq {<<"fact", n.alias, r>>}
        BY <2>1, OneRow DEF Empty
      <3>3. DOMAIN art = {<<"art", n.alias, r>>}
        BY <2>1, OneRow
      <3> QED BY <3>1, <3>2, <3>3
    <2>4. Works(p, N, new)
      BY <1>0, <1>1, <2>1, <2>2, WriteKeys DEF Works, Active
    <2> HIDE DEF N
    <2>5. \A k \in N : k[1] \in {"fact", "art"} /\ RunOf(k) = new.run
      <3>1. /\ <<"fact", n.alias, r>>[1] = "fact" /\ RunOf(<<"fact", n.alias, r>>) = r
            /\ <<"art", n.alias, r>>[1] = "art" /\ RunOf(<<"art", n.alias, r>>) = r
        BY TripleKey
      <3> QED BY <2>2, <2>3, <3>1
    <2>6. Done(new, Keys(p) \cup N)
      <3>1. Done(proc[p], Keys(p))
        BY <1>1 DEF LoadInv, ReportsInv, Working
      <3> QED BY <1>1, <2>1, <2>2, <2>3, <3>1 DEF Done
    <2>7. HasLooked(new, Stored \cup (Keys(p) \cup N), AllKeys \cup N, overlap)
      BY <2>2 DEF HasLooked
    <2>8. Posting(proc[p]) <=> Posting(new)
      BY <1>1, <2>2 DEF Posting
    <2>9. overlap' = overlap /\ new.job = proc[p].job
      BY <1>0, <2>2
    <2>10. \A k \in N : k[1] \notin {"gpu", "host", "inst"}
      BY <2>5
    <2>11. \A k \in N : RunRow(k) => RunOf(k) = new.run
      BY <2>5
    <2> QED BY <2>4, <2>6, <2>7, <2>8, <2>9, <2>10, <2>11, PlainMove
  <1> QED BY <1>2, <1>3

\* The endpoints, outside the loop of the hosts.
LEMMA TrustEndpointsStep ==
    ASSUME LoadInv, NEW p \in Procs, TrustEndpoints(p)
    PROVE  LoadInv'
  <1>0. ScriptsInv /\ UNCHANGED <<tab, runs, report, overlap>>
    BY DEF LoadInv, TrustEndpoints
  <1>1. proc[p].pc = "look" /\ proc[p].job = "trust" /\ IsProc(proc[p])
    BY <1>0 DEF TrustEndpoints, ScriptsInv
  <1>2. CASE Gone(p)
    BY <1>0, <1>2, GoneMove
  <1>3. CASE ~Gone(p)
    <2> DEFINE r == proc[p].run
               N == DOMAIN EndpointFacts(r)
    <2>1. Write(p, EndpointFacts(r)) /\ proc' = [proc EXCEPT ![p].pc = "commit"]
      BY <1>3 DEF TrustEndpoints
    <2>2. PICK new : new = [proc[p] EXCEPT !.pc = "commit"]
      OBVIOUS
    <2>3. proc' = [proc EXCEPT ![p] = new]
      BY <1>0, <2>1, <2>2 DEF ScriptsInv
    <2>4. /\ IsProc(new) /\ new.pc = "commit" /\ new.run = r /\ new.job = "trust"
          /\ new.said = proc[p].said
      BY <1>1, <2>2 DEF IsProc, Loads
    <2>5. Works(p, N, new)
      BY <1>0, <1>1, <2>1, <2>3, <2>4, WriteKeys DEF Works, Active
    <2>6. \A k \in N : k[1] = "ep"
      BY DEF EndpointFacts
    <2> HIDE DEF N
    <2>7. Done(new, Keys(p) \cup N)
      <3>1. Done(proc[p], Keys(p))
        BY <1>1 DEF LoadInv, ReportsInv, Working
      <3> QED BY <1>1, <2>4, <3>1 DEF Done
    <2>8. HasLooked(new, Stored \cup (Keys(p) \cup N), AllKeys \cup N, overlap)
      BY <2>4 DEF HasLooked
    <2>9. Posting(proc[p]) <=> Posting(new)
      BY <1>1, <2>4 DEF Posting
    <2>10. overlap' = overlap /\ new.job = proc[p].job
      BY <1>0, <1>1, <2>4
    <2>11. \A k \in N : k[1] \notin {"gpu", "host", "inst"}
      BY <2>6
    <2>12. \A k \in N : RunRow(k) => RunOf(k) = new.run
      BY <2>6 DEF RunRow
    <2> QED BY <2>5, <2>7, <2>8, <2>9, <2>10, <2>11, <2>12, PlainMove
  <1> QED BY <1>2, <1>3

\* A domain of the taxonomy and its terms.
LEMMA SeedDomainStep ==
    ASSUME LoadInv, NEW p \in Procs, SeedDomain(p)
    PROVE  LoadInv'
  <1>0. ScriptsInv /\ UNCHANGED <<tab, runs, report, overlap>>
    BY DEF LoadInv, SeedDomain
  <1>1. proc[p].pc = "seed" /\ IsProc(proc[p])
    BY <1>0 DEF SeedDomain, ScriptsInv
  <1>2. PICK d, rows :
           /\ rows = (IF Sees(p, <<"term", d>>) THEN Empty ELSE Row(<<"term", d>>, 0))
           /\ Write(p, rows)
           /\ proc' = [proc EXCEPT ![p].i = @ + 1]
    BY DEF SeedDomain
  <1> DEFINE N == DOMAIN rows
  <1>3. PICK new : new = [proc[p] EXCEPT !.i = @ + 1]
    OBVIOUS
  <1>4. proc' = [proc EXCEPT ![p] = new]
    BY <1>0, <1>2, <1>3 DEF ScriptsInv
  <1>5. IsProc(new) /\ new.pc = "seed" /\ new.run = proc[p].run /\ new.job = proc[p].job
    BY <1>1, <1>3 DEF IsProc
  <1>6. Works(p, N, new)
    BY <1>0, <1>1, <1>2, <1>4, <1>5, WriteKeys DEF Works, Active
  <1>7. \A k \in N : k[1] = "term"
    <2>1. DOMAIN Row(<<"term", d>>, 0) = {<<"term", d>>} /\ <<"term", d>>[1] = "term"
      BY OneRow
    <2> QED BY <1>2, <2>1 DEF Empty
  <1> HIDE DEF N
  <1>8. Working(new) => Done(new, Keys(p) \cup N)
    BY <1>5 DEF Working
  <1>9. HasLooked(new, Stored \cup (Keys(p) \cup N), AllKeys \cup N, overlap)
    BY <1>5 DEF HasLooked
  <1>10. Posting(proc[p]) <=> Posting(new)
    BY <1>1, <1>5 DEF Posting
  <1>11. overlap' = overlap
    BY <1>0
  <1>12. \A k \in N : k[1] \notin {"gpu", "host", "inst"}
    BY <1>7
  <1>13. \A k \in N : RunRow(k) => RunOf(k) = new.run
    BY <1>7 DEF RunRow
  <1> QED BY <1>5, <1>6, <1>8, <1>9, <1>10, <1>11, <1>12, <1>13, PlainMove

\* The host of the seed, whose row it locks, and a service.
LEMMA SeedServiceStep ==
    ASSUME LoadInv, NEW p \in Procs, SeedService(p)
    PROVE  LoadInv'
  <1>0. ScriptsInv /\ ReportsInv /\ DevicesInv /\ InstancesInv /\ UNCHANGED <<tab, runs, report, overlap>>
    BY DEF LoadInv, SeedService
  <1>1. proc[p].pc = "seed" /\ IsProc(proc[p]) /\ ~Locked(p, SeedKey(p))
    BY <1>0 DEF SeedService, ScriptsInv
  <1>2. CASE Gone(p)
    BY <1>0, <1>2, GoneMove
  <1>3. CASE ~Gone(p)
    <2>1. PICK v : Write(p, Row(SeedKey(p), v)) /\ proc' = [proc EXCEPT ![p].i = @ + 1]
      <3>1. CASE proc[p].i = 1
        BY <1>3, <3>1 DEF SeedService, SeedKey
      <3>2. CASE proc[p].i # 1
        BY <1>3, <3>2 DEF SeedService, SeedKey
      <3> QED BY <3>1, <3>2
    <2>2. SeedKey(p)[1] \in {"host", "svc"}
      BY DEF SeedKey, SvcKey, WappHost
    <2> DEFINE N == DOMAIN Row(SeedKey(p), v)
    <2>3. N = {SeedKey(p)}
      BY OneRow
    <2>4. PICK new : new = [proc[p] EXCEPT !.i = @ + 1]
      OBVIOUS
    <2>5. proc' = [proc EXCEPT ![p] = new]
      BY <1>0, <2>1, <2>4 DEF ScriptsInv
    <2>6. IsProc(new) /\ new.pc = "seed" /\ new.run = proc[p].run /\ new.job = proc[p].job
      BY <1>1, <2>4 DEF IsProc
    <2>7. Works(p, N, new)
      BY <1>0, <1>1, <2>1, <2>5, <2>6, WriteKeys DEF Works, Active
    <2> HIDE DEF N
    <2>8. Working(new) => Done(new, Keys(p) \cup N)
      BY <2>6 DEF Working
    <2>9. \A k \in N : RunRow(k) => k \in Stored \cup Keys(p) \/ RunOf(k) = new.run
      BY <2>2, <2>3 DEF RunRow
    <2>10. \A k \in N : k[1] = "host" => \A q \in Procs \ {p} : k \notin Keys(q)
      BY <1>1, <2>3 DEF Locked, Keys
    <2>11. \A k \in N : k[1] # "gpu" /\ k[1] # "inst"
      BY <2>2, <2>3
    <2>12. OneEach(Stored \cup (Keys(p) \cup N))
      BY <1>0, <2>11 DEF DevicesInv, OneEach, SameDevice
    <2>13. Met(AllKeys \cup N, overlap')
      BY <1>0, <2>11 DEF InstancesInv, Met, SameInstance
    <2>14. HasLooked(new, Stored \cup (Keys(p) \cup N), AllKeys \cup N, overlap')
      BY <2>6 DEF HasLooked
    <2>15. ~Posting(proc[p]) /\ ~Posting(new)
      BY <1>1, <2>6 DEF Posting
    <2>16. overlap \subseteq overlap' /\ new.job = proc[p].job
      BY <1>0, <2>6
    <2>17. ScriptsInv'
      BY <1>0, <2>7, ScriptsMove
    <2>18. ReportsInv'
      BY <1>0, <2>7, <2>8, <2>9, ReportsMove
    <2>19. DevicesInv'
      BY <1>0, <2>7, <2>10, <2>11, <2>12, DevicesMove
    <2>20. InstancesInv'
      BY <1>0, <2>7, <2>11, <2>13, <2>14, <2>15, <2>16, InstancesMove
    <2> QED BY <2>17, <2>18, <2>19, <2>20 DEF LoadInv
  <1> QED BY <1>2, <1>3

\* The commit, which an aborted transaction does not survive, and the report.
LEMMA FinishStep ==
    ASSUME LoadInv, NEW p \in Procs, Finish(p)
    PROVE  LoadInv'
  <1>0. ScriptsInv /\ ReportsInv
    BY DEF LoadInv
  <1>1. Ends(p) /\ report' = report \cup {Report(p)} /\ runs' = runs
    BY DEF Finish, Gone, Ends
  <1>2. Stored' = IF proc[p].aborted THEN Stored ELSE Stored \cup Keys(p)
    <2>1. DOMAIN Over(tx[p], tab) = DOMAIN tx[p] \cup DOMAIN tab
      BY RowKeys
    <2> QED BY <2>1 DEF Finish, Stored, Keys
  <1>3. /\ \A q \in Procs : proc'[q] = IF q = p THEN Off ELSE proc[q]
        /\ \A q \in Procs : Keys(q)' = IF q = p THEN {} ELSE Keys(q)
        /\ ~Active(Off) /\ ~Working(Off)
        /\ ScriptsInv'
    BY <1>0, <1>1, EndKeys
  <1>4. DevicesInv' /\ InstancesInv'
    BY <1>1, <1>2, EndsWell
  <1> DEFINE r == proc[p].run
             new == Report(p)
  <1>5. Active(proc[p]) /\ (proc[p].job \in Loads => Working(proc[p]))
    BY <1>0 DEF Finish, AtEnd, Active, Working, ScriptsInv, IsProc, Loads
  <1>6. /\ new.run = r /\ new.job = proc[p].job /\ new.said = proc[p].said
        /\ new.ok = ~proc[p].aborted
    BY DEF Report
  <1>7. r \in 1..runs /\ \A q \in Procs \ {p} : Active(proc[q]) => proc[q].run # r
    BY <1>0, <1>5 DEF ScriptsInv
  <1> HIDE DEF new
  <1>8. ASSUME NEW k \in Stored', RunRow(k)
        PROVE  /\ RunOf(k) \in 1..runs
               /\ \A q \in Procs : Active(proc'[q]) => RunOf(k) # proc'[q].run
               /\ \A x \in report' : ~x.ok => RunOf(k) # x.run
    <2>1. CASE k \in Stored
      <3>1. /\ RunOf(k) \in 1..runs
            /\ \A q \in Procs : Active(proc[q]) => RunOf(k) # proc[q].run
            /\ \A x \in report : ~x.ok => RunOf(k) # x.run
        BY <1>0, <1>8, <2>1 DEF ReportsInv
      <3> QED BY <1>1, <1>3, <1>5, <1>6, <3>1 DEF new
    <2>2. CASE k \notin Stored
      <3>1. k \in Keys(p) /\ ~proc[p].aborted
        BY <1>2, <2>2
      <3>2. RunOf(k) = r
        BY <1>0, <1>8, <2>2, <3>1 DEF ReportsInv
      <3>3. \A x \in report : x.run # r
        BY <1>0, <1>5 DEF ReportsInv
      <3>4. new.ok
        BY <1>6, <3>1
      <3>5. \A x \in report' : ~x.ok => RunOf(k) # x.run
        BY <1>1, <3>2, <3>3, <3>4 DEF new
      <3>6. \A q \in Procs : Active(proc'[q]) => RunOf(k) # proc'[q].run
        BY <1>3, <1>7, <3>2
      <3> QED BY <1>7, <3>2, <3>5, <3>6
    <2> QED BY <2>1, <2>2
  <1>9. \A q \in Procs : \A k \in Keys(q)' : RunRow(k) => k \in Stored' \/ RunOf(k) = proc'[q].run
    BY <1>0, <1>2, <1>3 DEF ReportsInv
  <1>10. \A q \in Procs : Working(proc'[q]) => Done(proc'[q], Keys(q)')
    BY <1>0, <1>3 DEF ReportsInv
  <1>11. ASSUME NEW x \in report'
         PROVE  /\ x.run \in 1..runs
                /\ \A q \in Procs : Active(proc'[q]) => x.run # proc'[q].run
                /\ x.job \in Loads /\ x.ok => Done(x, Stored')
    <2>1. CASE x \in report
      <3>1. /\ x.run \in 1..runs
            /\ \A q \in Procs : Active(proc[q]) => x.run # proc[q].run
            /\ x.job \in Loads /\ x.ok => Done(x, Stored)
        BY <1>0, <2>1 DEF ReportsInv
      <3>2. Stored \subseteq Stored'
        BY <1>2
      <3>3. Done(x, Stored) => Done(x, Stored')
        BY <3>2 DEF Done
      <3> QED BY <1>3, <3>1, <3>3
    <2>2. CASE x = new
      <3>1. x.run \in 1..runs /\ \A q \in Procs : Active(proc'[q]) => x.run # proc'[q].run
        BY <1>3, <1>6, <1>7, <2>2
      <3>2. ASSUME x.job \in Loads, x.ok PROVE Done(x, Stored')
        <4>1. Done(proc[p], Keys(p))
          BY <1>0, <1>5, <1>6, <2>2, <3>2 DEF ReportsInv
        <4>2. Keys(p) \subseteq Stored'
          BY <1>2, <1>6, <2>2, <3>2
        <4> QED BY <1>6, <2>2, <4>1, <4>2 DEF Done
      <3> QED BY <3>1, <3>2
    <2> QED BY <1>1, <2>1, <2>2 DEF new
  <1>12. ReportsInv'
    BY <1>1, <1>8, <1>9, <1>10, <1>11 DEF ReportsInv, Done, RunRow, RunOf, Active, Working
  <1> QED BY <1>3, <1>4, <1>12 DEF LoadInv

\* A step in which no script moves.
LEMMA LoadStays == LoadInv /\ UNCHANGED vars => LoadInv'
  <1> SUFFICES ASSUME LoadInv, UNCHANGED vars PROVE LoadInv'
    OBVIOUS
  <1>1. UNCHANGED <<tab, tx, proc, runs, report, overlap>>
    BY DEF vars
  <1>2. ScriptsInv'
    BY <1>1 DEF LoadInv, ScriptsInv, IsProc, Active, Keys
  <1>3. ReportsInv'
    BY <1>1 DEF LoadInv, ReportsInv, Done, RunRow, RunOf, Active, Working, Keys, Stored
  <1>4. DevicesInv'
    BY <1>1 DEF LoadInv, DevicesInv, OneEach, SameDevice, Keys, Stored
  <1>5. InstancesInv'
    BY <1>1
          DEF LoadInv, InstancesInv, HasLooked, Met, Posting, IsOf, SameInstance, Keys, Stored,
              AllKeys
  <1> QED BY <1>2, <1>3, <1>4, <1>5 DEF LoadInv

\* Every step.
LEMMA LoadsStep == LoadInv /\ [Next]_vars => LoadInv'
  <1>1. ASSUME LoadInv, NEW p \in Procs, Step(p)
        PROVE  LoadInv'
    <2>1. ASSUME NEW j \in Jobs, NEW f \in DOMAIN AuditFiles, Start(p, j, f) PROVE LoadInv'
      BY <1>1, <2>1, StartStep
    <2>2. CASE Register(p)
      BY <1>1, <2>2, RegisterStep
    <2>3. CASE PassOver(p) \/ NodeRejected(p) \/ DeadlockVictim(p)
      BY <1>1, <2>3, PassStep
    <2>4. CASE SshLook(p)
      BY <1>1, <2>4, SshLookStep
    <2>5. CASE SshStore(p)
      BY <1>1, <2>5, SshStoreStep
    <2>6. CASE PostureLook(p)
      BY <1>1, <2>6, PostureLookStep
    <2>7. CASE PostureStore(p)
      BY <1>1, <2>7, PostureStoreStep
    <2>8. CASE TrustLoad(p)
      BY <1>1, <2>8, TrustLoadStep
    <2>9. CASE TrustEndpoints(p)
      BY <1>1, <2>9, TrustEndpointsStep
    <2>10. CASE SeedDomain(p)
      BY <1>1, <2>10, SeedDomainStep
    <2>11. CASE SeedService(p)
      BY <1>1, <2>11, SeedServiceStep
    <2>12. CASE Finish(p)
      BY <1>1, <2>12, FinishStep
    <2>13. CASE Crash(p)
      BY <1>1, <2>13, GoneMove DEF Crash
    <2> QED BY <1>1, <2>1, <2>2, <2>3, <2>4, <2>5, <2>6, <2>7, <2>8, <2>9, <2>10, <2>11, <2>12, <2>13
          DEF Step
  <1> QED BY <1>1, LoadStays DEF Next

\* What the run checks.
LEMMA LoadsKeep == LoadInv => UpsertsAreUnique /\ DoneIsAllOrNothing
  <1> SUFFICES ASSUME LoadInv PROVE UpsertsAreUnique /\ DoneIsAllOrNothing
    OBVIOUS
  <1>1. OneEach(Stored) /\ Met(Stored, overlap)
    BY DEF LoadInv, DevicesInv, InstancesInv, Met, AllKeys
  <1>2. UpsertsAreUnique
    BY <1>1 DEF UpsertsAreUnique, SameUpsert, OneEach, Met, SameDevice, SameInstance, Stored
  <1>3. DoneIsAllOrNothing
    BY DEF DoneIsAllOrNothing, LoadInv, ReportsInv, Done, RunRow, RunOf, Stored
  <1> QED BY <1>2, <1>3

\* Upserts without a UNIQUE constraint (_upsert_gpu_devices, _upsert_service_instance)
\* leave one row per key unless posture loads overlapped, and what a finished load
\* printed is all stored or all gone: for any scripts, files, crashes and faults.
THEOREM LoadsAreAlwaysSound == MCSpec => []LoadsAreSound
  <1>1. MCInit => LoadInv
    BY LoadsInit DEF MCInit
  <1>2. LoadInv /\ [MCNext]_allVars => LoadInv'
    BY PartsMove, LoadsStep
  <1>3. LoadInv => LoadsAreSound
    BY LoadsKeep DEF LoadsAreSound
  <1> QED BY <1>1, <1>2, <1>3, PTL DEF MCSpec
-----------------------------------------------------------------------------
(* The catalogues of the seeds.                                              *)
\* The catalogue is its four tables, which have no domain in common.
LEMMA CatalogueTables ==
    /\ DOMAIN Catalogue = DOMAIN TermsInventory \cup DOMAIN TermsPlacement \cup DOMAIN TermsStatus
                          \cup DOMAIN TermsRelations
    /\ \A d \in DOMAIN TermsInventory : Catalogue[d] = TermsInventory[d]
    /\ \A d \in DOMAIN TermsPlacement : Catalogue[d] = TermsPlacement[d]
    /\ \A d \in DOMAIN TermsStatus : Catalogue[d] = TermsStatus[d]
    /\ \A d \in DOMAIN TermsRelations : Catalogue[d] = TermsRelations[d]
  <1>1. ASSUME NEW f, NEW g
        PROVE  \E h : /\ h = Over(f, g) /\ DOMAIN h = DOMAIN f \cup DOMAIN g
                      /\ \A d \in DOMAIN f : h[d] = f[d]
                      /\ \A d \in DOMAIN g : d \notin DOMAIN f => h[d] = g[d]
    <2>1. /\ DOMAIN Over(f, g) = DOMAIN f \cup DOMAIN g
          /\ \A d \in DOMAIN f : Over(f, g)[d] = f[d]
          /\ \A d \in DOMAIN g : d \notin DOMAIN f => Over(f, g)[d] = g[d]
      BY DEF Over
    <2> QED BY <2>1, Zenon
  <1>4. DOMAIN TermsInventory = {"entity_kind", "host_role", "environment", "service_kind"}
    BY DEF TermsInventory
  <1>5. DOMAIN TermsPlacement = {"runtime_kind", "network_segment_kind", "address_scope",
                                 "exposure_method", "storage_kind", "document_kind"}
    BY DEF TermsPlacement
  <1>6. DOMAIN TermsStatus = {"os_family", "lifecycle_status", "observation_status",
                              "discovery_source_kind", "evidence_kind"}
    BY DEF TermsStatus
  <1>7. DOMAIN TermsRelations = {"membership_role", "interface_kind", "owner_type",
                                 "collection_run_status", "reconciliation_result_status",
                                 "exposure_health", "relationship_kind"}
    BY DEF TermsRelations
  <1>8. /\ \A d \in DOMAIN TermsRelations :
                d \notin DOMAIN TermsStatus /\ d \notin DOMAIN TermsPlacement /\ d \notin DOMAIN TermsInventory
        /\ \A d \in DOMAIN TermsStatus : d \notin DOMAIN TermsPlacement /\ d \notin DOMAIN TermsInventory
        /\ \A d \in DOMAIN TermsPlacement : d \notin DOMAIN TermsInventory
    BY <1>4, <1>5, <1>6, <1>7
  <1>9. PICK a : /\ a = Over(TermsStatus, TermsRelations)
                 /\ DOMAIN a = DOMAIN TermsStatus \cup DOMAIN TermsRelations
                 /\ \A d \in DOMAIN TermsStatus : a[d] = TermsStatus[d]
                 /\ \A d \in DOMAIN TermsRelations : d \notin DOMAIN TermsStatus => a[d] = TermsRelations[d]
    <2>1. PICK f, g : f = TermsStatus /\ g = TermsRelations
      OBVIOUS
    <2>2. PICK h : /\ h = Over(f, g) /\ DOMAIN h = DOMAIN f \cup DOMAIN g
                   /\ \A d \in DOMAIN f : h[d] = f[d]
                   /\ \A d \in DOMAIN g : d \notin DOMAIN f => h[d] = g[d]
      BY <1>1, Zenon
    <2> QED BY <2>1, <2>2
  <1>10. PICK b : /\ b = Over(TermsPlacement, a) /\ DOMAIN b = DOMAIN TermsPlacement \cup DOMAIN a
                  /\ \A d \in DOMAIN TermsPlacement : b[d] = TermsPlacement[d]
                  /\ \A d \in DOMAIN a : d \notin DOMAIN TermsPlacement => b[d] = a[d]
    BY <1>1, Zenon
  <1>11. PICK c : /\ c = Over(TermsInventory, b) /\ DOMAIN c = DOMAIN TermsInventory \cup DOMAIN b
                  /\ \A d \in DOMAIN TermsInventory : c[d] = TermsInventory[d]
                  /\ \A d \in DOMAIN b : d \notin DOMAIN TermsInventory => c[d] = b[d]
    BY <1>1, Zenon
  <1>12. Catalogue = c
    BY <1>9, <1>10, <1>11 DEF Catalogue
  <1>13. /\ DOMAIN c = DOMAIN TermsInventory \cup DOMAIN TermsPlacement \cup DOMAIN TermsStatus
                       \cup DOMAIN TermsRelations
         /\ \A d \in DOMAIN TermsStatus : c[d] = TermsStatus[d]
         /\ \A d \in DOMAIN TermsPlacement : c[d] = TermsPlacement[d]
    BY <1>8, <1>9, <1>10, <1>11
  <1>14. \A d \in DOMAIN TermsRelations : c[d] = TermsRelations[d]
    BY <1>8, <1>9, <1>10, <1>11
  <1> QED BY <1>11, <1>12, <1>13, <1>14

\* The seed writes each domain of the catalogue, and no other.
LEMMA DomainsOfCatalogue ==
    /\ DOMAIN Domains = 1..Len(Domains) /\ Len(Domains) \in Nat
    /\ \A d \in DOMAIN Catalogue : \E i \in DOMAIN Domains : Domains[i] = d
  <1>1. DOMAIN Domains = 1..22 /\ Len(Domains) = 22
    BY DEF Domains
  <1>2. ASSUME NEW d \in DOMAIN TermsInventory PROVE \E i \in 1..22 : Domains[i] = d
    BY <1>2 DEF TermsInventory, Domains
  <1>3. ASSUME NEW d \in DOMAIN TermsPlacement PROVE \E i \in 1..22 : Domains[i] = d
    BY <1>3 DEF TermsPlacement, Domains
  <1>4. ASSUME NEW d \in DOMAIN TermsStatus PROVE \E i \in 1..22 : Domains[i] = d
    BY <1>4 DEF TermsStatus, Domains
  <1>5. ASSUME NEW d \in DOMAIN TermsRelations PROVE \E i \in 1..22 : Domains[i] = d
    BY <1>5 DEF TermsRelations, Domains
  <1> QED BY <1>1, <1>2, <1>3, <1>4, <1>5, CatalogueTables

\* The codes the loaders ask for or fall back on are in the catalogue.
LEMMA FallbackTerms ==
    /\ {"host", "service_exposure"} \subseteq Catalogue["entity_kind"]
    /\ "production" \in Catalogue["environment"]
    /\ "monitored_host" \in Catalogue["host_role"]
    /\ "application_worker" \in Catalogue["service_kind"]
    /\ "docker_container" \in Catalogue["runtime_kind"]
    /\ "unknown" \in Catalogue["os_family"]
    /\ {"active", "unknown"} \subseteq Catalogue["lifecycle_status"]
    /\ "observed" \in Catalogue["observation_status"]
    /\ {"ssh_full_audit", "runtime_posture_audit", "trust_surface_audit"}
         \subseteq Catalogue["discovery_source_kind"]
    /\ "trust_surface_snapshot" \in Catalogue["evidence_kind"]
    /\ "succeeded" \in Catalogue["collection_run_status"]
    /\ {"entity_kind", "environment", "host_role", "service_kind", "runtime_kind", "os_family",
        "lifecycle_status", "observation_status", "discovery_source_kind", "evidence_kind",
        "collection_run_status"} \subseteq DOMAIN Catalogue
  <1>1. /\ {"host", "service_exposure"} \subseteq TermsInventory["entity_kind"]
        /\ "production" \in TermsInventory["environment"]
        /\ "monitored_host" \in TermsInventory["host_role"]
        /\ "application_worker" \in TermsInventory["service_kind"]
        /\ {"entity_kind", "environment", "host_role", "service_kind"} \subseteq DOMAIN TermsInventory
    BY DEF TermsInventory
  <1>2. "docker_container" \in TermsPlacement["runtime_kind"] /\ "runtime_kind" \in DOMAIN TermsPlacement
    BY DEF TermsPlacement
  <1>3. /\ "unknown" \in TermsStatus["os_family"]
        /\ {"active", "unknown"} \subseteq TermsStatus["lifecycle_status"]
        /\ "observed" \in TermsStatus["observation_status"]
        /\ {"ssh_full_audit", "runtime_posture_audit", "trust_surface_audit"}
             \subseteq TermsStatus["discovery_source_kind"]
        /\ "trust_surface_snapshot" \in TermsStatus["evidence_kind"]
        /\ {"os_family", "lifecycle_status", "observation_status", "discovery_source_kind",
            "evidence_kind"} \subseteq DOMAIN TermsStatus
    BY DEF TermsStatus
  <1>4. "succeeded" \in TermsRelations["collection_run_status"]
        /\ "collection_run_status" \in DOMAIN TermsRelations
    BY DEF TermsRelations
  <1> QED BY <1>1, <1>2, <1>3, <1>4, CatalogueTables

\* The kinds of the services.
ServiceKinds == {"postgresql", "pgbouncer", "redis", "traefik", "prometheus", "grafana", "loki", "tempo",
    "otel_collector", "node_exporter", "cadvisor", "postgres_exporter", "pve_exporter", "openbao",
    "zitadel", "oauth2_proxy", "vllm", "ollama", "open_webui", "application_api",
    "application_worker", "web_frontend", "job_scheduler", "activepieces", "kafka", "n8n", "neo4j"}

\* No two domains share a code the services use.
LEMMA CodesOfOneDomain ==
    \A d \in DOMAIN Catalogue : \A c \in Catalogue[d] :
        /\ c \in ServiceKinds => d = "service_kind"
        /\ c \in {"production", "shared-platform"} => d = "environment"
        /\ c \in {"active", "planned"} => d = "lifecycle_status"
  <1>1. ASSUME NEW d \in DOMAIN TermsInventory, NEW c \in TermsInventory[d]
        PROVE  /\ c \in ServiceKinds => d = "service_kind"
               /\ c \in {"production", "shared-platform"} => d = "environment"
               /\ c \in {"active", "planned"} => d = "lifecycle_status"
    BY <1>1 DEF TermsInventory, ServiceKinds
  <1>2. ASSUME NEW d \in DOMAIN TermsPlacement, NEW c \in TermsPlacement[d]
        PROVE  c \notin ServiceKinds \cup {"production", "shared-platform", "active", "planned"}
    BY <1>2 DEF TermsPlacement, ServiceKinds
  <1>3. ASSUME NEW d \in DOMAIN TermsStatus, NEW c \in TermsStatus[d]
        PROVE  /\ c \notin ServiceKinds \cup {"production", "shared-platform"}
               /\ c \in {"active", "planned"} => d = "lifecycle_status"
    BY <1>3 DEF TermsStatus, ServiceKinds
  <1>4. ASSUME NEW d \in DOMAIN TermsRelations, NEW c \in TermsRelations[d]
        PROVE  c \notin ServiceKinds \cup {"production", "shared-platform", "active", "planned"}
    BY <1>4 DEF TermsRelations, ServiceKinds
  <1> QED BY <1>1, <1>2, <1>3, <1>4, CatalogueTables

\* What a service of the seed is; a list of them that its codes tell apart.
IsService(s) ==
    /\ s.kind \in ServiceKinds /\ s.env \in {"production", "shared-platform"}
    /\ s.lifecycle \in {"active", "planned"}
IsList(list, codes) ==
    /\ list \in Seq(Range(list))
    /\ \A s \in Range(list) : IsService(s) /\ s.code \in codes
    /\ \A s, t \in Range(list) : s.code = t.code => s = t

StorageCodes == {"internalcmdb-postgres", "pgbouncer-main", "redis-shared", "traefik-proxy"}
MetricCodes == {"prometheus-main", "grafana-main", "loki-main", "tempo-main"}
ExporterCodes == {"otel-collector-main", "node-exporter-orchestrator",
    "cadvisor-orchestrator", "postgres-exporter-internalcmdb", "pve-exporter-main"}
SecurityCodes == {"openbao-main", "zitadel-main", "oauth2-proxy-main"}
ModelCodes == {"vllm-reasoning-32b", "vllm-fast-14b", "ollama-embed", "open-webui-main"}
PlatformCodes == {"internalcmdb-api", "internalcmdb-worker", "internalcmdb-frontend",
    "internalcmdb-scheduler"}
ProjectCodes == {"activepieces", "kafka", "n8n", "neo4j"}
WappCodes == {"evo-wapp-core", "evo-wapp-gateway", "evo-wapp-workers", "wapp-admin"}
MeshNames == {"wapp-proxy-mesh-hz62", "wapp-proxy-mesh-hz113", "wapp-proxy-mesh-hz118",
    "wapp-proxy-mesh-hz123", "wapp-proxy-mesh-hz157", "wapp-proxy-mesh-hz164",
    "wapp-proxy-mesh-hz215", "wapp-proxy-mesh-hz223", "wapp-proxy-mesh-hz247",
    "wapp-proxy-mesh-orchestrator", "wapp-proxy-mesh-hz118spare"}

\* Services by their positions.
LEMMA Listed ==
    ASSUME NEW list, NEW codes, NEW n \in Nat, list \in [1..n -> Range(list)],
           \A i \in 1..n : IsService(list[i]) /\ list[i].code \in codes,
           \A i, j \in 1..n : list[i].code = list[j].code => i = j
    PROVE  IsList(list, codes)
  <1>1. list \in Seq(Range(list))
    BY SeqDef
  <1>2. \A s \in Range(list) : \E i \in 1..n : s = list[i]
    BY DEF Range
  <1> QED BY <1>1, <1>2 DEF IsList

\* A list after another with other codes.
LEMMA ListsTogether ==
    ASSUME NEW l, NEW m, NEW A, NEW B, IsList(l, A), IsList(m, B), A \cap B = {}
    PROVE  IsList(l \o m, A \cup B)
  <1>1. PICK R : R = Range(l) \cup Range(m)
    OBVIOUS
  <1>2. l \in Seq(R) /\ m \in Seq(R)
    BY <1>1, SeqDef DEF IsList
  <1>3. l \o m \in Seq(R) /\ Range(l \o m) = R
    BY <1>1, <1>2, ConcatProperties, RangeConcatenation
  <1>4. \A s \in R : IsService(s) /\ s.code \in A \cup B
    BY <1>1 DEF IsList
  <1>5. \A s, t \in R : s.code = t.code => s = t
    BY <1>1 DEF IsList
  <1> QED BY <1>3, <1>4, <1>5 DEF IsList

LEMMA StorageList == IsList(StorageServices, StorageCodes)
  <1>1. StorageServices \in [1..4 -> Range(StorageServices)]
    BY DEF StorageServices, Range
  <1>2. \A i \in 1..4 : IsService(StorageServices[i]) /\ StorageServices[i].code \in StorageCodes
    BY DEF StorageServices, Service, IsService, ServiceKinds, StorageCodes
  <1>3. \A i, j \in 1..4 : StorageServices[i].code = StorageServices[j].code => i = j
    BY DEF StorageServices, Service
  <1> QED BY <1>1, <1>2, <1>3, Listed

LEMMA MetricList == IsList(MetricServices, MetricCodes)
  <1>1. MetricServices \in [1..4 -> Range(MetricServices)]
    BY DEF MetricServices, Range
  <1>2. \A i \in 1..4 : IsService(MetricServices[i]) /\ MetricServices[i].code \in MetricCodes
    BY DEF MetricServices, Service, IsService, ServiceKinds, MetricCodes
  <1>3. \A i, j \in 1..4 : MetricServices[i].code = MetricServices[j].code => i = j
    BY DEF MetricServices, Service
  <1> QED BY <1>1, <1>2, <1>3, Listed

LEMMA ExporterList == IsList(ExporterServices, ExporterCodes)
  <1>1. ExporterServices \in [1..5 -> Range(ExporterServices)]
    BY DEF ExporterServices, Range
  <1>2. \A i \in 1..5 : IsService(ExporterServices[i]) /\ ExporterServices[i].code \in ExporterCodes
    BY DEF ExporterServices, Service, IsService, ServiceKinds, ExporterCodes
  <1>3. \A i, j \in 1..5 : ExporterServices[i].code = ExporterServices[j].code => i = j
    BY DEF ExporterServices, Service
  <1> QED BY <1>1, <1>2, <1>3, Listed

LEMMA SecurityList == IsList(SecurityServices, SecurityCodes)
  <1>1. SecurityServices \in [1..3 -> Range(SecurityServices)]
    BY DEF SecurityServices, Range
  <1>2. \A i \in 1..3 : IsService(SecurityServices[i]) /\ SecurityServices[i].code \in SecurityCodes
    BY DEF SecurityServices, Service, IsService, ServiceKinds, SecurityCodes
  <1>3. \A i, j \in 1..3 : SecurityServices[i].code = SecurityServices[j].code => i = j
    BY DEF SecurityServices, Service
  <1> QED BY <1>1, <1>2, <1>3, Listed

LEMMA ModelList == IsList(ModelServices, ModelCodes)
  <1>1. ModelServices \in [1..4 -> Range(ModelServices)]
    BY DEF ModelServices, Range
  <1>2. \A i \in 1..4 : IsService(ModelServices[i]) /\ ModelServices[i].code \in ModelCodes
    BY DEF ModelServices, Service, IsService, ServiceKinds, ModelCodes
  <1>3. \A i, j \in 1..4 : ModelServices[i].code = ModelServices[j].code => i = j
    BY DEF ModelServices, Service
  <1> QED BY <1>1, <1>2, <1>3, Listed

LEMMA PlatformList == IsList(PlatformServices, PlatformCodes)
  <1>1. PlatformServices \in [1..4 -> Range(PlatformServices)]
    BY DEF PlatformServices, Range
  <1>2. \A i \in 1..4 : IsService(PlatformServices[i]) /\ PlatformServices[i].code \in PlatformCodes
    BY DEF PlatformServices, Service, IsService, ServiceKinds, PlatformCodes
  <1>3. \A i, j \in 1..4 : PlatformServices[i].code = PlatformServices[j].code => i = j
    BY DEF PlatformServices, Service
  <1> QED BY <1>1, <1>2, <1>3, Listed

LEMMA ProjectList == IsList(ProjectServices, ProjectCodes)
  <1>1. ProjectServices \in [1..4 -> Range(ProjectServices)]
    BY DEF ProjectServices, Range
  <1>2. \A i \in 1..4 : IsService(ProjectServices[i]) /\ ProjectServices[i].code \in ProjectCodes
    BY DEF ProjectServices, Service, IsService, ServiceKinds, ProjectCodes
  <1>3. \A i, j \in 1..4 : ProjectServices[i].code = ProjectServices[j].code => i = j
    BY DEF ProjectServices, Service
  <1> QED BY <1>1, <1>2, <1>3, Listed

LEMMA WappList == IsList(WappServices, WappCodes)
  <1>1. WappServices \in [1..4 -> Range(WappServices)]
    BY DEF WappServices, Range
  <1>2. \A i \in 1..4 : IsService(WappServices[i]) /\ WappServices[i].code \in WappCodes
    BY DEF WappServices, Service, IsService, ServiceKinds, WappCodes
  <1>3. \A i, j \in 1..4 : WappServices[i].code = WappServices[j].code => i = j
    BY DEF WappServices, Service
  <1> QED BY <1>1, <1>2, <1>3, Listed

LEMMA MeshList == IsList(MeshServices, MeshNames)
  <1>1. MeshServices \in [1..11 -> Range(MeshServices)]
    BY DEF MeshServices, MeshCodes, Range
  <1>2. \A i \in 1..11 : IsService(MeshServices[i]) /\ MeshServices[i].code \in MeshNames
    BY DEF MeshServices, MeshCodes, Service, IsService, ServiceKinds, MeshNames
  <1>3. \A i, j \in 1..11 : MeshServices[i].code = MeshServices[j].code => i = j
    BY DEF MeshServices, MeshCodes, Service
  <1> QED BY <1>1, <1>2, <1>3, Listed

\* The services of the seed, each known by its code.
LEMMA ServicesAreKnown ==
    /\ DOMAIN AllServices = 1..Len(AllServices)
    /\ \A s \in Range(AllServices) : IsService(s)
    /\ \A s, t \in Range(AllServices) : s.code = t.code => s = t
  <1>1. PICK l1, A1 : l1 = StorageServices /\ A1 = StorageCodes /\ IsList(l1, A1)
    BY StorageList
  <1>2. PICK l2, A2 : l2 = l1 \o MetricServices /\ A2 = A1 \cup MetricCodes /\ IsList(l2, A2)
    <2>1. A1 \cap MetricCodes = {}
      BY <1>1 DEF StorageCodes, MetricCodes
    <2> QED BY <1>1, <2>1, MetricList, ListsTogether
  <1>3. PICK l3, A3 : l3 = l2 \o ExporterServices /\ A3 = A2 \cup ExporterCodes /\ IsList(l3, A3)
    <2>1. A2 \cap ExporterCodes = {}
      BY <1>1, <1>2 DEF StorageCodes, MetricCodes, ExporterCodes
    <2> QED BY <1>2, <2>1, ExporterList, ListsTogether
  <1>4. PICK l4, A4 : l4 = l3 \o SecurityServices /\ A4 = A3 \cup SecurityCodes /\ IsList(l4, A4)
    <2>1. A3 \cap SecurityCodes = {}
      BY <1>1, <1>2, <1>3 DEF StorageCodes, MetricCodes, ExporterCodes, SecurityCodes
    <2> QED BY <1>3, <2>1, SecurityList, ListsTogether
  <1>5. PICK l5, A5 : l5 = l4 \o ModelServices /\ A5 = A4 \cup ModelCodes /\ IsList(l5, A5)
    <2>1. A4 \cap ModelCodes = {}
      BY <1>1, <1>2, <1>3, <1>4 DEF StorageCodes, MetricCodes, ExporterCodes, SecurityCodes, ModelCodes
    <2> QED BY <1>4, <2>1, ModelList, ListsTogether
  <1>6. PICK l6, A6 : l6 = l5 \o PlatformServices /\ A6 = A5 \cup PlatformCodes /\ IsList(l6, A6)
    <2>1. A5 \cap PlatformCodes = {}
      BY <1>1, <1>2, <1>3, <1>4, <1>5
          DEF StorageCodes, MetricCodes, ExporterCodes, SecurityCodes, ModelCodes, PlatformCodes
    <2> QED BY <1>5, <2>1, PlatformList, ListsTogether
  <1>7. PICK l7, A7 : l7 = l6 \o ProjectServices /\ A7 = A6 \cup ProjectCodes /\ IsList(l7, A7)
    <2>1. A6 \cap ProjectCodes = {}
      BY <1>1, <1>2, <1>3, <1>4, <1>5, <1>6
          DEF StorageCodes, MetricCodes, ExporterCodes, SecurityCodes, ModelCodes, PlatformCodes,
              ProjectCodes
    <2> QED BY <1>6, <2>1, ProjectList, ListsTogether
  <1>8. PICK l8, A8 : l8 = l7 \o WappServices /\ A8 = A7 \cup WappCodes /\ IsList(l8, A8)
    <2>1. A7 \cap WappCodes = {}
      BY <1>1, <1>2, <1>3, <1>4, <1>5, <1>6, <1>7
          DEF StorageCodes, MetricCodes, ExporterCodes, SecurityCodes, ModelCodes, PlatformCodes,
              ProjectCodes, WappCodes
    <2> QED BY <1>7, <2>1, WappList, ListsTogether
  <1>9. PICK l9, A9 : l9 = l8 \o MeshServices /\ A9 = A8 \cup MeshNames /\ IsList(l9, A9)
    <2>1. A8 \cap MeshNames = {}
      BY <1>1, <1>2, <1>3, <1>4, <1>5, <1>6, <1>7, <1>8
          DEF StorageCodes, MetricCodes, ExporterCodes, SecurityCodes, ModelCodes, PlatformCodes,
              ProjectCodes, WappCodes, MeshNames
    <2> QED BY <1>8, <2>1, MeshList, ListsTogether
  <1>10. AllServices = l9
    BY <1>1, <1>2, <1>3, <1>4, <1>5, <1>6, <1>7, <1>8, <1>9 DEF AllServices
  <1> QED BY <1>9, <1>10, LenProperties DEF IsList

-----------------------------------------------------------------------------
(* Seeds.                                                                    *)
\* The row the services seed writes for a service.
Seeded(n) == AllServices[SeedRows[n]]
RowOf(s) == [kind |-> <<"service_kind", s.kind>>, env |-> <<"environment", s.env>>,
             lifecycle |-> <<"lifecycle_status", s.lifecycle>>]
AllSeeded(rows) ==
    \A n \in DOMAIN SeedRows : LET k == SvcKey(Seeded(n).code)
                               IN k \in DOMAIN rows /\ rows[k] = RowOf(Seeded(n))

\* Terms are all there or none is; what is missing, the taxonomy seed at work
\* has in its transaction up to where it is.
Filling(r) == r.pc \in {"register", "look", "store", "commit"}
Seeding(r, job) == r.pc = "seed" /\ r.job = job
AllTerms(ks) == (\E k \in ks : k[1] = "term") => \A d \in DOMAIN Catalogue : <<"term", d>> \in ks
HasTerms(r, ks, there) ==
    /\ Filling(r) => r.terms = DOMAIN Catalogue
    /\ \A k \in ks : k[1] = "term" => Seeding(r, "taxonomy")
    /\ Seeding(r, "taxonomy") =>
         \A k \in DOMAIN Domains : k < r.i => <<"term", Domains[k]>> \in ks \cup there

\* A loader writes a service only when there is none; a seed writes what the
\* catalogue says, of every service up to where it is.
HasServices(r, rows, there) ==
    /\ r.pc = "seed" => ~r.aborted /\ r.i \in Nat
    /\ \A k \in DOMAIN rows : k[1] = "svc" =>
         IF r.pc = "seed"
         THEN \E n \in DOMAIN SeedRows : k = SvcKey(Seeded(n).code) /\ rows[k] = RowOf(Seeded(n))
         ELSE k \notin there
    /\ Seeding(r, "services") =>
         \A n \in DOMAIN SeedRows : n + 1 < r.i => SvcKey(Seeded(n).code) \in DOMAIN rows

SeedInv ==
    /\ missing = {} /\ AllTerms(Stored)
    /\ \A p \in Procs : HasTerms(proc[p], Keys(p), Stored) /\ HasServices(proc[p], tx[p], Stored)
    /\ \A p, q \in Procs : \A k \in Keys(p) \cap Keys(q) : k[1] = "svc" => p = q
    /\ (\E r \in report : r.job = "services") => AllSeeded(tab)

\* Services with one code are one service, in the places the seed has for them.
LEMMA SeededByCode ==
    /\ \A n \in DOMAIN SeedRows : n \in Nat /\ n <= Len(SeedRows) /\ IsService(Seeded(n))
    /\ \A n, m \in DOMAIN SeedRows :
          SvcKey(Seeded(n).code) = SvcKey(Seeded(m).code) => Seeded(n) = Seeded(m)
  <1>1. ASSUME NEW n \in DOMAIN SeedRows
        PROVE  n \in Nat /\ n <= Len(SeedRows) /\ Seeded(n) \in Range(AllServices)
    BY FilesAreSequences DEF Seeded, Range
  <1>2. ASSUME NEW c, NEW d, SvcKey(c) = SvcKey(d)
        PROVE  c = d
    BY <1>2, PairKey DEF SvcKey
  <1> QED BY <1>1, <1>2, ServicesAreKnown

LEMMA SeedsInit == Init => SeedInv
  <1> SUFFICES ASSUME Init PROVE SeedInv
    OBVIOUS
  <1>1. Stored = {} /\ \A p \in Procs : Keys(p) = {} /\ proc[p] = Off /\ DOMAIN tx[p] = {}
    BY DEF Init, Stored, Keys, Empty
  <1>2. Off.pc = "off"
    BY DEF Off
  <1>3. \A p \in Procs : HasTerms(proc[p], Keys(p), Stored) /\ HasServices(proc[p], tx[p], Stored)
    BY <1>1, <1>2 DEF HasTerms, HasServices, Filling, Seeding
  <1> QED BY <1>1, <1>3 DEF Init, SeedInv, AllTerms

\* A script that is not p, whatever p writes that the others have no part in.
LEMMA OthersStay ==
    ASSUME SeedInv, NEW p \in Procs, NEW q \in Procs \ {p}, proc'[q] = proc[q], tx'[q] = tx[q],
           Stored \subseteq Stored',
           \A k \in Stored' : k[1] = "svc" => k \in Stored \/ k \notin Keys(q)
    PROVE  HasTerms(proc'[q], Keys(q)', Stored') /\ HasServices(proc'[q], tx'[q], Stored')
  <1>1. HasTerms(proc[q], Keys(q), Stored) /\ HasServices(proc[q], tx[q], Stored)
    BY DEF SeedInv
  <1>2. Keys(q)' = Keys(q) /\ Keys(q) = DOMAIN tx[q]
    BY DEF Keys
  <1>3. HasTerms(proc[q], Keys(q), Stored')
    BY <1>1 DEF HasTerms
  <1>4. HasServices(proc[q], tx[q], Stored')
    BY <1>1, <1>2 DEF HasServices
  <1> QED BY <1>2, <1>3, <1>4

\* A loader goes on: it writes no term, and a service that nobody has.
Fills(p) ==
    /\ \A q \in Procs \ {p} : proc'[q] = proc[q] /\ tx'[q] = tx[q]
    /\ Working(proc'[p]) /\ proc'[p].terms = proc[p].terms
    /\ \A k \in Keys(p)' \ Keys(p) :
          k[1] # "term" /\ (k[1] = "svc" => k \notin Stored /\ \A q \in Procs \ {p} : k \notin Keys(q))
    /\ UNCHANGED <<tab, report, missing>>

LEMMA FillMove ==
    ASSUME SeedInv, NEW p \in Procs, Filling(proc[p]), Fills(p)
    PROVE  SeedInv'
  <1>1. Stored' = Stored /\ \A q \in Procs \ {p} : Keys(q)' = Keys(q)
    BY DEF Fills, Stored, Keys
  <1>2. \A q \in Procs \ {p} :
          HasTerms(proc'[q], Keys(q)', Stored') /\ HasServices(proc'[q], tx'[q], Stored')
    BY <1>1, OthersStay DEF Fills
  <1>3. HasTerms(proc[p], Keys(p), Stored) /\ HasServices(proc[p], tx[p], Stored)
    BY DEF SeedInv
  <1>4. HasTerms(proc'[p], Keys(p)', Stored')
    BY <1>3 DEF HasTerms, Fills, Filling, Seeding, Working
  <1>5. HasServices(proc'[p], tx'[p], Stored')
    <2>1. proc'[p].pc # "seed" /\ proc[p].pc # "seed"
      BY DEF Fills, Filling, Working
    <2>2. \A k \in Keys(p)' : k[1] = "svc" => k \notin Stored
      BY <1>3, <2>1 DEF HasServices, Fills, Keys
    <2> QED BY <1>1, <2>1, <2>2 DEF HasServices, Seeding, Keys
  <1>6. \A q, x \in Procs : \A k \in Keys(q)' \cap Keys(x)' : k[1] = "svc" => q = x
    BY <1>1 DEF SeedInv, Fills
  <1>7. \A q \in Procs : HasTerms(proc'[q], Keys(q)', Stored') /\ HasServices(proc'[q], tx'[q], Stored')
    BY <1>2, <1>4, <1>5
  <1>8. /\ missing' = {} /\ AllTerms(Stored')
        /\ (\E r \in report' : r.job = "services") => AllSeeded(tab')
    BY <1>1 DEF SeedInv, Fills
  <1> QED BY <1>6, <1>7, <1>8 DEF SeedInv, HasTerms, HasServices, AllTerms, AllSeeded

\* What a write leaves of the others' transactions, and what it adds.
LEMMA WrittenRows ==
    ASSUME ScriptsInv, NEW p \in Procs, NEW rows, Write(p, rows)
    PROVE  /\ \A q \in Procs \ {p} : tx'[q] = tx[q]
           /\ tx'[p] = Over(rows, tx[p])
           /\ Keys(p)' = Keys(p) \cup DOMAIN rows
  <1>1. tx'[p] = Over(rows, tx[p]) /\ \A q \in Procs \ {p} : tx'[q] = tx[q]
    BY DEF ScriptsInv, Write
  <1>2. DOMAIN Over(rows, tx[p]) = DOMAIN rows \cup DOMAIN tx[p]
    BY RowKeys
  <1> QED BY <1>1, <1>2 DEF Keys

\* Every term the loaders look up is in the catalogue, or its fallback is.
LEMMA LoadersFind ==
    ASSUME NEW p, proc[p].terms = DOMAIN Catalogue
    PROVE  /\ proc[p].job \in Loads => Unresolved(p, SourceTerms(proc[p].job)) = {}
           /\ \A n : Unresolved(p, HostTerms(n)) = {} /\ Unresolved(p, PostureTerms(n)) = {}
           /\ Unresolved(p, TrustTerms) = {} /\ Unresolved(p, EndpointTerms) = {}
  <1>0. ASSUME NEW d \in DOMAIN Catalogue, NEW cs, NEW c \in cs, c \in Catalogue[d]
        PROVE  HasTerm(p, <<d, cs>>)
    BY <1>0 DEF HasTerm
  <1>1. ASSUME proc[p].job \in Loads PROVE Unresolved(p, SourceTerms(proc[p].job)) = {}
    <2>1. ASSUME NEW c \in {"ssh_full_audit", "runtime_posture_audit", "trust_surface_audit"}
          PROVE  HasTerm(p, <<"discovery_source_kind", {c}>>)
      BY <1>0, <2>1, FallbackTerms
    <2>2. HasTerm(p, <<"collection_run_status", {"succeeded"}>>)
      BY <1>0, FallbackTerms
    <2> QED BY <1>1, <2>1, <2>2 DEF Unresolved, SourceTerms, Loads
  <1>2. ASSUME NEW n PROVE Unresolved(p, HostTerms(n)) = {}
    <2>1. /\ HasTerm(p, <<"entity_kind", {"host"}>>) /\ HasTerm(p, <<"environment", {"production"}>>)
          /\ \A c : /\ HasTerm(p, <<"lifecycle_status", {c, "unknown"}>>)
                    /\ HasTerm(p, <<"os_family", {c, "unknown"}>>)
                    /\ HasTerm(p, <<"host_role", {c, "monitored_host"}>>)
      BY <1>0, FallbackTerms
    <2> QED BY <2>1 DEF Unresolved, HostTerms
  <1>3. ASSUME NEW n PROVE Unresolved(p, PostureTerms(n)) = {}
    <2>1. /\ HasTerm(p, <<"entity_kind", {"host"}>>) /\ HasTerm(p, <<"observation_status", {"observed"}>>)
          /\ HasTerm(p, <<"environment", {"production"}>>) /\ HasTerm(p, <<"lifecycle_status", {"active"}>>)
          /\ HasTerm(p, <<"runtime_kind", {"docker_container"}>>)
          /\ \A c : HasTerm(p, <<"service_kind", {c, "application_worker"}>>)
      BY <1>0, FallbackTerms
    <2> QED BY <2>1 DEF Unresolved, PostureTerms
  <1>4. Unresolved(p, TrustTerms) = {}
    <2>1. /\ HasTerm(p, <<"entity_kind", {"host"}>>) /\ HasTerm(p, <<"observation_status", {"observed"}>>)
          /\ HasTerm(p, <<"evidence_kind", {"trust_surface_snapshot"}>>)
      BY <1>0, FallbackTerms
    <2> QED BY <2>1 DEF Unresolved, TrustTerms
  <1>5. Unresolved(p, EndpointTerms) = {}
    <2>1. /\ HasTerm(p, <<"entity_kind", {"service_exposure"}>>)
          /\ \A c : HasTerm(p, <<"observation_status", {c, "observed"}>>)
      BY <1>0, FallbackTerms
    <2> QED BY <2>1 DEF Unresolved, EndpointTerms
  <1> QED BY <1>1, <1>2, <1>3, <1>4, <1>5

\* A loader that leaves the transaction alone: nodes passed over, rejected
\* statements, the SELECT of a host.
LEMMA LookFills ==
    ASSUME ScriptsInv, NEW p \in Procs, Filling(proc[p]), NEW new,
           proc' = [proc EXCEPT ![p] = new], Working(new), new.terms = proc[p].terms,
           UNCHANGED <<tab, tx, report, missing>>
    PROVE  Fills(p)
  <1>1. proc'[p] = new /\ \A q \in Procs \ {p} : proc'[q] = proc[q]
    BY DEF ScriptsInv
  <1>2. Keys(p)' = Keys(p)
    BY DEF Keys
  <1> QED BY <1>1, <1>2 DEF Fills

\* A loader that writes rows which are neither terms nor services.
LEMMA StoreFills ==
    ASSUME ScriptsInv, NEW p \in Procs, Filling(proc[p]), NEW new, NEW rows,
           proc' = [proc EXCEPT ![p] = new], Working(new), new.terms = proc[p].terms,
           Write(p, rows), \A k \in DOMAIN rows : k[1] # "term" /\ k[1] # "svc",
           UNCHANGED <<tab, report, missing>>
    PROVE  Fills(p)
  <1>1. proc'[p] = new /\ \A q \in Procs \ {p} : proc'[q] = proc[q]
    BY DEF ScriptsInv
  <1> QED BY <1>1, WrittenRows DEF Fills

LEMMA NextFills ==
    ASSUME ScriptsInv, NEW p \in Procs, proc[p].pc \in {"look", "store", "commit"}, NEW said,
           \/ proc' = NextNode(p, said)
           \/ proc' = [NextNode(p, said) EXCEPT ![p].aborted = TRUE]
    PROVE  /\ Filling(proc[p])
           /\ \E new : /\ proc' = [proc EXCEPT ![p] = new]
                       /\ Working(new) /\ new.terms = proc[p].terms
  <1>1. PICK new : proc' = [proc EXCEPT ![p] = new] /\ new.pc = "look"
    BY Advance
  <1>2. proc'[p] = new
    BY <1>1 DEF ScriptsInv
  <1>3. proc'[p].terms = proc[p].terms
    <2>1. IsProc(proc[p])
      BY DEF ScriptsInv
    <2> QED BY <2>1 DEF IsProc, ScriptsInv, NextNode
  <1> QED BY <1>1, <1>2, <1>3 DEF Filling, Working

\* The end of a script without a commit.
LEMMA GoneSeed ==
    ASSUME SeedInv, ScriptsInv, NEW p \in Procs, Gone(p), UNCHANGED <<tab, report, missing>>
    PROVE  SeedInv'
  <1>1. /\ proc'[p] = Off /\ tx'[p] = Empty /\ Keys(p)' = {}
        /\ \A q \in Procs \ {p} : proc'[q] = proc[q] /\ tx'[q] = tx[q] /\ Keys(q)' = Keys(q)
    BY DEF Gone, ScriptsInv, Keys, Empty
  <1>2. Stored' = Stored
    BY DEF Stored
  <1>3. \A q \in Procs \ {p} :
          HasTerms(proc'[q], Keys(q)', Stored') /\ HasServices(proc'[q], tx'[q], Stored')
    BY <1>1, <1>2, OthersStay
  <1>4. HasTerms(proc'[p], Keys(p)', Stored') /\ HasServices(proc'[p], tx'[p], Stored')
    <2>1. Off.pc = "off" /\ DOMAIN Empty = {}
      BY DEF Off, Empty
    <2> QED BY <1>1, <2>1 DEF HasTerms, HasServices, Filling, Seeding
  <1>5. \A q, x \in Procs : \A k \in Keys(q)' \cap Keys(x)' : k[1] = "svc" => q = x
    BY <1>1 DEF SeedInv
  <1>6. \A q \in Procs : HasTerms(proc'[q], Keys(q)', Stored') /\ HasServices(proc'[q], tx'[q], Stored')
    BY <1>3, <1>4
  <1>7. /\ missing' = {} /\ AllTerms(Stored')
        /\ (\E r \in report' : r.job = "services") => AllSeeded(tab')
    BY <1>2 DEF SeedInv
  <1> QED BY <1>5, <1>6, <1>7 DEF SeedInv, HasTerms, HasServices, AllTerms, AllSeeded

\* A loader that begins has all terms: it has found some.
LEMMA StartSeeds ==
    ASSUME SeedInv, ScriptsInv, NEW p \in Procs, NEW j \in Jobs, NEW f \in DOMAIN AuditFiles,
           Start(p, j, f)
    PROVE  SeedInv'
  <1>1. /\ proc[p].pc = "off" /\ Keys(p) = {} /\ UNCHANGED <<tab, tx, report, missing>>
    BY DEF Start, ScriptsInv
  <1>2. Stored' = Stored /\ \A q \in Procs : Keys(q)' = Keys(q)
    BY <1>1 DEF Stored, Keys
  <1>3. /\ \A q, x \in Procs : \A k \in Keys(q)' \cap Keys(x)' : k[1] = "svc" => q = x
        /\ missing' = {} /\ AllTerms(Stored')
        /\ (\E r \in report' : r.job = "services") => AllSeeded(tab')
    BY <1>1, <1>2 DEF SeedInv
  <1>4. \A q \in Procs : HasTerms(proc[q], Keys(q)', Stored') /\ HasServices(proc[q], tx'[q], Stored')
    BY <1>1, <1>2 DEF SeedInv
  <1>5. ASSUME NEW new, proc' = [proc EXCEPT ![p] = new], HasTerms(new, {}, Stored),
               HasServices(new, tx[p], Stored)
        PROVE  SeedInv'
    <2>1. \A q \in Procs : proc'[q] = IF q = p THEN new ELSE proc[q]
      BY <1>5 DEF ScriptsInv
    <2>2. \A q \in Procs : HasTerms(proc'[q], Keys(q)', Stored') /\ HasServices(proc'[q], tx'[q], Stored')
      BY <1>1, <1>2, <1>4, <1>5, <2>1
    <2> QED BY <1>3, <2>2 DEF SeedInv, HasTerms, HasServices, AllTerms, AllSeeded
  <1>6. CASE proc' = proc
    BY <1>3, <1>4, <1>6 DEF SeedInv, HasTerms, HasServices, AllTerms, AllSeeded
  <1>7. CASE proc' # proc
    <2>1. PICK terms : terms = {d \in DOMAIN Catalogue : <<"term", d>> \in DOMAIN tab}
      OBVIOUS
    <2>2. PICK new : new = [pc |-> IF j \in Loads THEN "register" ELSE "seed", job |-> j, i |-> 1,
                            seen |-> IF <<"source", j>> \in DOMAIN tab THEN 1 ELSE 0,
                            aborted |-> FALSE, said |-> {}, terms |-> terms, run |-> runs + 1, file |-> f]
      OBVIOUS
    <2>3. proc' = [proc EXCEPT ![p] = new] /\ (j \in Loads => terms # {})
      BY <1>7, <2>1, <2>2 DEF Start
    <2>4. /\ new.pc = (IF j \in Loads THEN "register" ELSE "seed") /\ new.i = 1 /\ ~new.aborted
          /\ new.terms = terms
      BY <2>2
    <2>5. ASSUME j \in Loads PROVE terms = DOMAIN Catalogue
      <3>1. PICK d \in DOMAIN Catalogue : <<"term", d>> \in Stored
        BY <2>1, <2>3, <2>5 DEF Stored
      <3>2. \A x \in DOMAIN Catalogue : <<"term", x>> \in Stored
        BY <3>1, PairKey DEF SeedInv, AllTerms
      <3> QED BY <2>1, <3>2 DEF Stored
    <2>6. HasTerms(new, {}, Stored)
      <3>1. \A k \in DOMAIN Domains : ~(k < 1)
        BY DomainsOfCatalogue
      <3> QED BY <2>4, <2>5, <3>1 DEF HasTerms, Filling
    <2>7. HasServices(new, tx[p], Stored)
      <3>1. \A n \in DOMAIN SeedRows : ~(n + 1 < 1)
        BY SeededByCode
      <3> QED BY <1>1, <2>4, <3>1 DEF HasServices, Keys
    <2> QED BY <1>5, <2>3, <2>6, <2>7
  <1> QED BY <1>6, <1>7

LEMMA RegisterSeeds ==
    ASSUME SeedInv, ScriptsInv, NEW p \in Procs, Register(p)
    PROVE  SeedInv'
  <1>1. proc[p].pc = "register" /\ IsProc(proc[p]) /\ proc[p].job \in Loads /\ UNCHANGED <<tab, runs, report>>
    BY DEF Register, ScriptsInv, IsProc
  <1>2. Filling(proc[p]) /\ proc[p].terms = DOMAIN Catalogue
    BY <1>1 DEF SeedInv, HasTerms, Filling
  <1>3. missing' = missing
    BY <1>1, <1>2, LoadersFind DEF Register
  <1>4. CASE Gone(p)
    BY <1>1, <1>3, <1>4, GoneSeed
  <1>5. CASE ~Gone(p)
    <2>1. PICK first, own, rows :
             /\ first = (IF proc[p].seen = 0 THEN Row(<<"source", proc[p].job>>, 0) ELSE Empty)
             /\ own = Row(<<"run", proc[p].run>>, 0)
             /\ rows = Over(own, first)
      OBVIOUS
    <2>2. Write(p, rows) /\ proc' = [proc EXCEPT ![p].pc = "look"]
      BY <1>5, <2>1 DEF Register
    <2>3. PICK new : new = [proc[p] EXCEPT !.pc = "look"]
      OBVIOUS
    <2>4. proc' = [proc EXCEPT ![p] = new]
      BY <2>2, <2>3 DEF ScriptsInv
    <2>5. Working(new) /\ new.terms = proc[p].terms
      BY <1>1, <2>3 DEF IsProc, Working
    <2>6. \A k \in DOMAIN rows : k[1] \in {"run", "source"}
      <3>1. DOMAIN rows = DOMAIN own \cup DOMAIN first
        BY <2>1, RowKeys
      <3>2. DOMAIN first \subseteq {<<"source", proc[p].job>>}
        BY <2>1, OneRow DEF Empty
      <3>3. DOMAIN own = {<<"run", proc[p].run>>}
        BY <2>1, OneRow
      <3> QED BY <3>1, <3>2, <3>3, PairKey
    <2>7. Fills(p)
      BY <1>1, <1>2, <1>3, <2>2, <2>4, <2>5, <2>6, StoreFills
    <2> QED BY <1>2, <2>7, FillMove
  <1> QED BY <1>4, <1>5

LEMMA PassSeeds ==
    ASSUME SeedInv, ScriptsInv, NEW p \in Procs, PassOver(p) \/ NodeRejected(p) \/ DeadlockVictim(p)
    PROVE  SeedInv'
  <1>1. ASSUME proc[p].pc \in {"look", "store", "commit"}, UNCHANGED <<tab, tx, report, missing>>,
               \/ proc' = NextNode(p, {})
               \/ proc' = [NextNode(p, {}) EXCEPT ![p].aborted = TRUE]
        PROVE  SeedInv'
    <2>1. Filling(proc[p]) /\ Fills(p)
      BY <1>1, NextFills, LookFills
    <2> QED BY <2>1, FillMove
  <1>2. CASE PassOver(p) \/ NodeRejected(p)
    BY <1>1, <1>2 DEF PassOver, NodeRejected
  <1>3. CASE DeadlockVictim(p) /\ proc[p].pc = "seed"
    BY <1>3, GoneSeed DEF DeadlockVictim
  <1>4. CASE DeadlockVictim(p) /\ proc[p].pc # "seed"
    <2>1. PICK q \in Procs \ {p} : Wants(q) \in Keys(p)
      BY <1>4 DEF DeadlockVictim, WaitsOn, Keys
    <2>2. proc[p].pc \in {"look", "store", "commit"}
      BY <1>4, <2>1 DEF ScriptsInv, IsProc
    <2> QED BY <1>1, <1>4, <2>2 DEF DeadlockVictim
  <1> QED BY <1>2, <1>3, <1>4

LEMMA SshLookSeeds ==
    ASSUME SeedInv, ScriptsInv, NEW p \in Procs, SshLook(p)
    PROVE  SeedInv'
  <1>1. proc[p].pc = "look" /\ IsProc(proc[p]) /\ UNCHANGED <<tab, tx, report>>
    BY DEF SshLook, AtNode, ScriptsInv
  <1>2. Filling(proc[p]) /\ proc[p].terms = DOMAIN Catalogue
    BY <1>1 DEF SeedInv, HasTerms, Filling
  <1>3. Unresolved(p, HostTerms(Node(p))) = {}
    BY <1>2, LoadersFind
  <1>4. missing' = missing
    BY <1>3 DEF SshLook
  <1>5. PICK seen : proc' = [proc EXCEPT ![p].pc = "store", ![p].seen = seen]
    BY <1>3 DEF SshLook
  <1>6. PICK new : new = [proc[p] EXCEPT !.pc = "store", !.seen = seen]
    OBVIOUS
  <1>7. proc' = [proc EXCEPT ![p] = new]
    BY <1>5, <1>6 DEF ScriptsInv
  <1>8. Working(new) /\ new.terms = proc[p].terms
    BY <1>1, <1>6 DEF IsProc, Working
  <1>9. Fills(p)
    BY <1>1, <1>2, <1>4, <1>7, <1>8, LookFills
  <1> QED BY <1>2, <1>9, FillMove

\* The host, its snapshot and its devices.
LEMMA SshStoreSeeds ==
    ASSUME SeedInv, ScriptsInv, NEW p \in Procs, SshStore(p)
    PROVE  SeedInv'
  <1>1. proc[p].pc = "store" /\ UNCHANGED <<tab, report, missing>>
    BY DEF SshStore, AtNode
  <1>2. CASE UNCHANGED tx /\ proc' = [NextNode(p, {}) EXCEPT ![p].aborted = TRUE]
    <2>1. Filling(proc[p]) /\ Fills(p)
      BY <1>1, <1>2, NextFills, LookFills
    <2> QED BY <2>1, FillMove
  <1>3. CASE ~(UNCHANGED tx /\ proc' = [NextNode(p, {}) EXCEPT ![p].aborted = TRUE])
    <2> DEFINE n == Node(p)
               r == proc[p].run
    <2>1. PICK devices, snap, host, said :
             /\ devices = (IF n.kind = "badgpu" THEN Empty ELSE DeviceRows(Visible(p), n, r))
             /\ snap = Row(<<"snap", n.alias, r>>, r) /\ host = Row(HostKey(n), HostRow(n))
             /\ said = (IF n.kind = "badgpu" THEN {} ELSE {n.alias})
      OBVIOUS
    <2>2. Write(p, Over(host, Over(snap, devices))) /\ proc' = NextNode(p, said)
      BY <1>3, <2>1 DEF SshStore
    <2>3. PICK rest, rows : rest = Over(snap, devices) /\ rows = Over(host, rest)
      OBVIOUS
    <2>4. DOMAIN rows = DOMAIN host \cup (DOMAIN snap \cup DOMAIN devices)
      <3>1. DOMAIN rest = DOMAIN snap \cup DOMAIN devices
        BY <2>3, RowKeys
      <3>2. DOMAIN rows = DOMAIN host \cup DOMAIN rest
        BY <2>3, RowKeys
      <3> QED BY <3>1, <3>2
    <2>5. \A k \in DOMAIN devices : k[1] = "gpu"
      <3>1. \A u : <<"gpu", n.alias, u, r>>[1] = "gpu"
        BY LongKey
      <3> QED BY <2>1, <3>1 DEF Empty, DeviceRows, Devices
    <2>6. DOMAIN host = {HostKey(n)} /\ DOMAIN snap = {<<"snap", n.alias, r>>}
      BY <2>1, OneRow
    <2>7. \A k \in DOMAIN rows : k[1] \in {"host", "snap", "gpu"}
      BY <2>4, <2>5, <2>6, PairKey, TripleKey DEF HostKey
    <2>8. Filling(proc[p]) /\ Fills(p)
      BY <1>1, <2>2, <2>3, <2>7, NextFills, StoreFills
    <2> QED BY <2>8, FillMove
  <1> QED BY <1>2, <1>3

\* The fact, and a service when there is none.
LEMMA PostureLookSeeds ==
    ASSUME SeedInv, ScriptsInv, NEW p \in Procs, PostureLook(p)
    PROVE  SeedInv'
  <1> DEFINE n == Node(p)
             r == proc[p].run
             code == InferServiceKind(n.name)
  <1>1. proc[p].pc = "look" /\ IsProc(proc[p]) /\ UNCHANGED <<tab, report>>
    BY DEF PostureLook, AtNode, ScriptsInv
  <1>2. Filling(proc[p]) /\ proc[p].terms = DOMAIN Catalogue
    BY <1>1 DEF SeedInv, HasTerms, Filling
  <1>3. Unresolved(p, PostureTerms(n)) = {}
    BY <1>2, LoadersFind
  <1>4. missing' = missing
    BY <1>3 DEF PostureLook
  <1>5. PICK fact, svc, rows, seen :
           /\ fact = (IF n.safe THEN Row(<<"fact", n.alias, r>>, r) ELSE Empty)
           /\ svc = ServiceRow(p, code) /\ rows = Over(fact, svc)
           /\ seen = (IF Instances(Visible(p), n) = {} THEN 0 ELSE 1)
    OBVIOUS
  <1>6. Write(p, rows) /\ proc' = [proc EXCEPT ![p].pc = "store", ![p].seen = seen]
    BY <1>3, <1>5 DEF PostureLook
  <1>7. PICK new : new = [proc[p] EXCEPT !.pc = "store", !.seen = seen]
    OBVIOUS
  <1>8. proc' = [proc EXCEPT ![p] = new]
    BY <1>6, <1>7 DEF ScriptsInv
  <1>9. Working(new) /\ new.terms = proc[p].terms
    BY <1>1, <1>7 DEF IsProc, Working
  <1>10. proc'[p] = new /\ \A q \in Procs \ {p} : proc'[q] = proc[q]
    BY <1>8 DEF ScriptsInv
  <1>11. DOMAIN rows = DOMAIN fact \cup DOMAIN svc
    BY <1>5, RowKeys
  <1>12. \A k \in DOMAIN fact : k[1] = "fact"
    <2>1. DOMAIN fact \subseteq {<<"fact", n.alias, r>>}
      BY <1>5, OneRow DEF Empty
    <2> QED BY <2>1, TripleKey
  <1>13. ASSUME NEW k \in DOMAIN svc
         PROVE  k[1] = "svc" /\ k \notin Stored /\ \A q \in Procs \ {p} : k \notin Keys(q)
    <2>1. DOMAIN Row(SvcKey(code), LoadedService(code)) = {SvcKey(code)}
      BY OneRow
    <2>2. k = SvcKey(code) /\ ~Sees(p, SvcKey(code))
      BY <1>5, <1>13, <2>1 DEF ServiceRow, Empty
    <2>3. SvcKey(code) \notin Stored
      BY <2>2, SeenKeys DEF Sees
    <2>4. ~Locked(p, SvcKey(code))
      BY <2>2 DEF PostureLook
    <2>5. SvcKey(code)[1] = "svc"
      BY PairKey DEF SvcKey
    <2> QED BY <2>2, <2>3, <2>4, <2>5 DEF Locked, Keys
  <1>14. \A k \in Keys(p)' \ Keys(p) : k \in DOMAIN fact \cup DOMAIN svc
    BY <1>6, <1>11, WrittenRows
  <1>15. \A q \in Procs \ {p} : tx'[q] = tx[q]
    BY <1>6, WrittenRows
  <1>16. Fills(p)
    BY <1>1, <1>4, <1>9, <1>10, <1>12, <1>13, <1>14, <1>15 DEF Fills
  <1> QED BY <1>2, <1>16, FillMove

\* The instance.
LEMMA PostureStoreSeeds ==
    ASSUME SeedInv, LoadInv, NEW p \in Procs, PostureStore(p)
    PROVE  SeedInv'
  <1>1. /\ AtNode(p, "store", "posture") /\ proc[p].pc = "store" /\ ScriptsInv
        /\ UNCHANGED <<tab, report, missing>>
    BY DEF PostureStore, AtNode, LoadInv
  <1>2. PICK said, rows : /\ Write(p, rows) /\ proc' = NextNode(p, said)
                          /\ rows = PostureRow(p, Node(p))
    BY DEF PostureStore
  <1>3. \A k \in DOMAIN rows : k[1] = "inst"
    BY <1>1, <1>2, InstanceRow DEF IsOf
  <1>4. Filling(proc[p]) /\ Fills(p)
    BY <1>1, <1>2, <1>3, NextFills, StoreFills
  <1> QED BY <1>1, <1>4, FillMove

\* The fact and the artifact of a host.
LEMMA TrustLoadSeeds ==
    ASSUME SeedInv, ScriptsInv, NEW p \in Procs, TrustLoad(p)
    PROVE  SeedInv'
  <1> DEFINE n == Node(p)
             r == proc[p].run
  <1>1. proc[p].pc = "look" /\ UNCHANGED <<tab, report>>
    BY DEF TrustLoad, AtNode
  <1>2. Filling(proc[p]) /\ proc[p].terms = DOMAIN Catalogue
    BY <1>1 DEF SeedInv, HasTerms, Filling
  <1>3. Unresolved(p, TrustTerms) = {}
    BY <1>2, LoadersFind
  <1>4. missing' = missing
    BY <1>3 DEF TrustLoad
  <1>5. PICK fact, art, rows, said :
           /\ fact = (IF n.safe THEN Row(<<"fact", n.alias, r>>, RiskLevel(n.root, n.password)) ELSE Empty)
           /\ art = Row(<<"art", n.alias, r>>, RiskLevel(n.root, n.password))
           /\ rows = Over(fact, art) /\ said = {n.alias}
    OBVIOUS
  <1>6. Write(p, rows) /\ proc' = NextNode(p, said)
    BY <1>3, <1>5 DEF TrustLoad
  <1>7. \A k \in DOMAIN rows : k[1] \in {"fact", "art"}
    <2>1. DOMAIN rows = DOMAIN fact \cup DOMAIN art
      BY <1>5, RowKeys
    <2>2. DOMAIN fact \subseteq {<<"fact", n.alias, r>>}
      BY <1>5, OneRow DEF Empty
    <2>3. DOMAIN art = {<<"art", n.alias, r>>}
      BY <1>5, OneRow
    <2> QED BY <2>1, <2>2, <2>3, TripleKey
  <1>8. Fills(p)
    BY <1>1, <1>2, <1>4, <1>6, <1>7, NextFills, StoreFills
  <1> QED BY <1>2, <1>8, FillMove

LEMMA TrustEndpointsSeeds ==
    ASSUME SeedInv, ScriptsInv, NEW p \in Procs, TrustEndpoints(p)
    PROVE  SeedInv'
  <1>1. proc[p].pc = "look" /\ IsProc(proc[p]) /\ UNCHANGED <<tab, report>>
    BY DEF TrustEndpoints, ScriptsInv
  <1>2. Filling(proc[p]) /\ proc[p].terms = DOMAIN Catalogue
    BY <1>1 DEF SeedInv, HasTerms, Filling
  <1>3. missing' = missing
    BY <1>2, LoadersFind DEF TrustEndpoints
  <1>4. CASE Gone(p)
    BY <1>1, <1>3, <1>4, GoneSeed
  <1>5. CASE ~Gone(p)
    <2>1. PICK rows : rows = EndpointFacts(proc[p].run)
      OBVIOUS
    <2>2. Write(p, rows) /\ proc' = [proc EXCEPT ![p].pc = "commit"]
      BY <1>5, <2>1 DEF TrustEndpoints
    <2>3. PICK new : new = [proc[p] EXCEPT !.pc = "commit"]
      OBVIOUS
    <2>4. proc' = [proc EXCEPT ![p] = new]
      BY <2>2, <2>3 DEF ScriptsInv
    <2>5. Working(new) /\ new.terms = proc[p].terms
      BY <1>1, <2>3 DEF IsProc, Working
    <2>6. \A k \in DOMAIN rows : k[1] = "ep"
      BY <2>1 DEF EndpointFacts
    <2>7. Fills(p)
      BY <1>1, <1>2, <1>3, <2>2, <2>4, <2>5, <2>6, StoreFills
    <2> QED BY <1>2, <2>7, FillMove
  <1> QED BY <1>4, <1>5

\* A seed goes on to its next row.
SeedsOn(p, new, rows) ==
    /\ proc' = [proc EXCEPT ![p] = new]
    /\ new.pc = "seed" /\ ~new.aborted /\ new.job = proc[p].job
    /\ new.i = proc[p].i + 1
    /\ Write(p, rows)
    /\ UNCHANGED <<tab, report, missing>>

LEMMA SeedMove ==
    ASSUME SeedInv, ScriptsInv, NEW p \in Procs, NEW new, NEW rows, SeedsOn(p, new, rows),
           HasTerms(new, Keys(p)', Stored), HasServices(new, tx'[p], Stored),
           \A k \in DOMAIN rows : k[1] = "svc" => \A q \in Procs \ {p} : k \notin Keys(q)
    PROVE  SeedInv'
  <1>1. /\ proc'[p] = new /\ Keys(p)' = Keys(p) \cup DOMAIN rows /\ Stored' = Stored
        /\ \A q \in Procs \ {p} : proc'[q] = proc[q] /\ tx'[q] = tx[q] /\ Keys(q)' = Keys(q)
    <2>1. proc'[p] = new /\ \A q \in Procs \ {p} : proc'[q] = proc[q]
      BY DEF SeedsOn, ScriptsInv
    <2>2. Keys(p)' = Keys(p) \cup DOMAIN rows /\ \A q \in Procs \ {p} : tx'[q] = tx[q]
      BY WrittenRows DEF SeedsOn
    <2> QED BY <2>1, <2>2 DEF SeedsOn, Stored, Keys
  <1>2. \A q \in Procs \ {p} :
          HasTerms(proc'[q], Keys(q)', Stored') /\ HasServices(proc'[q], tx'[q], Stored')
    BY <1>1, OthersStay
  <1>3. \A q \in Procs : HasTerms(proc'[q], Keys(q)', Stored') /\ HasServices(proc'[q], tx'[q], Stored')
    BY <1>1, <1>2
  <1>4. \A q, x \in Procs : \A k \in Keys(q)' \cap Keys(x)' : k[1] = "svc" => q = x
    BY <1>1 DEF SeedInv
  <1>5. /\ missing' = {} /\ AllTerms(Stored')
        /\ (\E r \in report' : r.job = "services") => AllSeeded(tab')
    BY <1>1 DEF SeedInv, SeedsOn
  <1> QED BY <1>3, <1>4, <1>5 DEF SeedInv, HasTerms, HasServices, AllTerms, AllSeeded

\* A domain of the taxonomy.
LEMMA SeedDomainSeeds ==
    ASSUME SeedInv, ScriptsInv, NEW p \in Procs, SeedDomain(p)
    PROVE  SeedInv'
  <1> DEFINE i == proc[p].i
  <1>1. /\ proc[p].pc = "seed" /\ proc[p].job = "taxonomy" /\ IsProc(proc[p])
        /\ HasTerms(proc[p], Keys(p), Stored) /\ HasServices(proc[p], tx[p], Stored)
    BY DEF SeedDomain, ScriptsInv, SeedInv
  <1>2. ~proc[p].aborted /\ i \in Nat /\ i \in DOMAIN Domains
    BY <1>1 DEF HasServices, SeedDomain
  <1>3. PICK key, rows : /\ key = <<"term", Domains[i]>>
                         /\ rows = (IF Sees(p, key) THEN Empty ELSE Row(key, 0))
    OBVIOUS
  <1>4. Write(p, rows) /\ proc' = [proc EXCEPT ![p].i = @ + 1] /\ UNCHANGED <<tab, report, missing>>
    BY <1>3 DEF SeedDomain
  <1>5. PICK new : new = [proc[p] EXCEPT !.i = @ + 1]
    OBVIOUS
  <1>6. proc' = [proc EXCEPT ![p] = new]
    BY <1>4, <1>5 DEF ScriptsInv
  <1>7. new.pc = "seed" /\ ~new.aborted /\ new.job = "taxonomy" /\ new.i = i + 1
    BY <1>1, <1>2, <1>5 DEF IsProc
  <1>8. SeedsOn(p, new, rows)
    BY <1>1, <1>4, <1>6, <1>7 DEF SeedsOn
  <1>9. DOMAIN rows \subseteq {key} /\ key[1] = "term" /\ key \in DOMAIN rows \cup (Stored \cup Keys(p))
    <2>1. DOMAIN Row(key, 0) = {key} /\ DOMAIN Empty = {}
      BY OneRow DEF Empty
    <2>2. key[1] = "term"
      BY <1>3, PairKey
    <2>3. Sees(p, key) => key \in Stored \cup Keys(p)
      BY SeenKeys DEF Sees
    <2> QED BY <1>3, <2>1, <2>2, <2>3
  <1>10. Keys(p)' = Keys(p) \cup DOMAIN rows /\ tx'[p] = Over(rows, tx[p])
    BY <1>4, WrittenRows
  <1>11. HasTerms(new, Keys(p)', Stored)
    <2>1. ASSUME NEW k \in DOMAIN Domains, k < new.i
          PROVE  <<"term", Domains[k]>> \in Keys(p)' \cup Stored
      <3>1. k \in Nat
        BY DomainsOfCatalogue
      <3>2. k < i \/ k = i
        BY <1>2, <1>7, <2>1, <3>1
      <3>3. CASE k < i
        BY <1>1, <1>10, <3>3 DEF HasTerms, Seeding
      <3>4. CASE k = i
        BY <1>3, <1>9, <1>10, <3>4
      <3> QED BY <3>2, <3>3, <3>4
    <2>2. Seeding(new, "taxonomy") /\ ~Filling(new)
      BY <1>7 DEF Seeding, Filling
    <2> QED BY <2>1, <2>2 DEF HasTerms
  <1>12. HasServices(new, tx'[p], Stored)
    <2>1. ASSUME NEW k \in DOMAIN tx'[p], k[1] = "svc"
          PROVE  k \in DOMAIN tx[p] /\ tx'[p][k] = tx[p][k]
      BY <1>9, <1>10, <2>1, RowKeys DEF Over
    <2>2. \A k \in DOMAIN tx[p] : k[1] = "svc" =>
             \E n \in DOMAIN SeedRows : k = SvcKey(Seeded(n).code) /\ tx[p][k] = RowOf(Seeded(n))
      BY <1>1 DEF HasServices
    <2>3. ~Seeding(new, "services") /\ new.i \in Nat
      BY <1>2, <1>7 DEF Seeding
    <2> QED BY <1>7, <2>1, <2>2, <2>3 DEF HasServices
  <1> QED BY <1>8, <1>9, <1>11, <1>12, SeedMove

\* The code of a service's term has one domain.
LEMMA TermByCode ==
    ASSUME NEW p, NEW s, IsService(s)
    PROVE  /\ TermsByCode(p, s.kind) \subseteq {<<"service_kind", s.kind>>}
           /\ TermsByCode(p, s.env) \subseteq {<<"environment", s.env>>}
           /\ TermsByCode(p, s.lifecycle) \subseteq {<<"lifecycle_status", s.lifecycle>>}
  BY CodesOfOneDomain DEF TermsByCode, IsService

\* The host of the seed, or a service of the catalogue.
LEMMA SeedServiceSeeds ==
    ASSUME SeedInv, ScriptsInv, NEW p \in Procs, SeedService(p)
    PROVE  SeedInv'
  <1> DEFINE i == proc[p].i
  <1>1. /\ proc[p].pc = "seed" /\ proc[p].job = "services" /\ IsProc(proc[p])
        /\ HasTerms(proc[p], Keys(p), Stored) /\ HasServices(proc[p], tx[p], Stored)
        /\ ~Locked(p, SeedKey(p)) /\ UNCHANGED <<tab, report, missing>>
    BY DEF SeedService, ScriptsInv, SeedInv
  <1>2. ~proc[p].aborted /\ i \in Nat /\ i \in 1..(Len(SeedRows) + 1)
    BY <1>1 DEF HasServices, SeedService
  <1>3. CASE Gone(p)
    BY <1>1, <1>3, GoneSeed
  <1>4. CASE ~Gone(p)
    <2>1. proc' = [proc EXCEPT ![p].i = @ + 1]
      BY <1>4 DEF SeedService
    <2>2. PICK key, v : /\ key = SeedKey(p) /\ Write(p, Row(key, v))
                        /\ \/ i = 1 /\ key = WappHost
                           \/ /\ i # 1 /\ i - 1 \in DOMAIN SeedRows
                              /\ key = SvcKey(Seeded(i - 1).code) /\ v = RowOf(Seeded(i - 1))
      <3>1. CASE i = 1
        BY <1>4, <3>1 DEF SeedService, SeedKey
      <3>2. CASE i # 1
        <4>1. i - 1 \in DOMAIN SeedRows
          <5>1. DOMAIN SeedRows = 1..Len(SeedRows) /\ Len(SeedRows) \in Nat
            BY FilesAreSequences
          <5> QED BY <1>2, <3>2, <5>1
        <4>2. PICK s : s = Seeded(i - 1)
          OBVIOUS
        <4>3. IsService(s)
          BY <4>1, <4>2, SeededByCode
        <4>4. PICK k \in TermsByCode(p, s.kind), e \in TermsByCode(p, s.env),
                   l \in TermsByCode(p, s.lifecycle) :
                   Write(p, Row(SvcKey(s.code), [kind |-> k, env |-> e, lifecycle |-> l]))
          BY <1>4, <3>2, <4>2 DEF SeedService, Seeded
        <4>5. /\ k = <<"service_kind", s.kind>> /\ e = <<"environment", s.env>>
              /\ l = <<"lifecycle_status", s.lifecycle>>
          BY <4>3, TermByCode
        <4>6. [kind |-> k, env |-> e, lifecycle |-> l] = RowOf(s)
          BY <4>5 DEF RowOf
        <4>7. SeedKey(p) = SvcKey(s.code)
          BY <3>2, <4>2 DEF SeedKey, Seeded
        <4>8. Write(p, Row(SeedKey(p), RowOf(s)))
          BY <4>4, <4>6, <4>7
        <4> QED BY <3>2, <4>1, <4>2, <4>7, <4>8
      <3> QED BY <3>1, <3>2
    <2>3. PICK new : new = [proc[p] EXCEPT !.i = @ + 1]
      OBVIOUS
    <2>4. proc' = [proc EXCEPT ![p] = new]
      BY <2>1, <2>3 DEF ScriptsInv
    <2>5. new.pc = "seed" /\ ~new.aborted /\ new.job = "services" /\ new.i = i + 1
      BY <1>1, <1>2, <2>3 DEF IsProc
    <2>6. PICK rows : rows = Row(key, v)
      OBVIOUS
    <2>7. SeedsOn(p, new, rows)
      BY <1>1, <2>2, <2>4, <2>5, <2>6 DEF SeedsOn
    <2>8. DOMAIN rows = {key} /\ rows[key] = v
      BY <2>6, OneRow DEF Row
    <2>9. /\ Keys(p)' = Keys(p) \cup {key} /\ DOMAIN tx'[p] = Keys(p) \cup {key}
          /\ tx'[p][key] = v
          /\ \A k \in Keys(p) : k # key => tx'[p][k] = tx[p][k]
      <3>1. Keys(p)' = Keys(p) \cup {key} /\ tx'[p] = Over(rows, tx[p])
        BY <2>2, <2>6, <2>8, WrittenRows
      <3> QED BY <2>8, <3>1 DEF Over, Keys
    <2>10. key[1] # "term" /\ (i = 1 => key[1] # "svc")
      BY <2>2, PairKey DEF WappHost, SvcKey
    <2>11. HasTerms(new, Keys(p)', Stored)
      <3>1. ~Filling(new) /\ ~Seeding(new, "taxonomy") /\ ~Seeding(proc[p], "taxonomy")
        BY <1>1, <2>5 DEF Filling, Seeding
      <3> QED BY <1>1, <2>9, <2>10, <3>1 DEF HasTerms
    <2>12. HasServices(new, tx'[p], Stored)
      <3>1. ASSUME NEW k \in DOMAIN tx'[p], k[1] = "svc"
            PROVE  \E n \in DOMAIN SeedRows : k = SvcKey(Seeded(n).code) /\ tx'[p][k] = RowOf(Seeded(n))
        <4>1. CASE k = key
          BY <2>2, <2>9, <2>10, <3>1, <4>1
        <4>2. CASE k # key
          <5>1. k \in DOMAIN tx[p] /\ tx'[p][k] = tx[p][k]
            BY <2>9, <3>1, <4>2 DEF Keys
          <5> QED BY <1>1, <3>1, <5>1 DEF HasServices
        <4> QED BY <4>1, <4>2
      <3>2. ASSUME NEW n \in DOMAIN SeedRows, n + 1 < new.i
            PROVE  SvcKey(Seeded(n).code) \in DOMAIN tx'[p]
        <4>1. n \in Nat /\ n # 0
          BY FilesAreSequences
        <4>2. n + 1 < i \/ (n + 1 = i /\ n = i - 1 /\ i # 1)
          BY <1>2, <2>5, <3>2, <4>1
        <4>3. CASE n + 1 < i
          BY <1>1, <2>9, <4>3 DEF HasServices, Seeding, Keys
        <4>4. CASE n + 1 = i /\ n = i - 1 /\ i # 1
          BY <2>2, <2>9, <4>4
        <4> QED BY <4>2, <4>3, <4>4
      <3>3. new.i \in Nat
        BY <1>2, <2>5
      <3> QED BY <2>5, <3>1, <3>2, <3>3 DEF HasServices
    <2>13. \A q \in Procs \ {p} : key \notin Keys(q)
      BY <1>1, <2>2 DEF Locked, Keys
    <2> QED BY <2>7, <2>8, <2>11, <2>12, <2>13, SeedMove
  <1> QED BY <1>3, <1>4

\* The commit: of all terms or none, and of every service of the seed.
LEMMA FinishSeeds ==
    ASSUME SeedInv, ScriptsInv, NEW p \in Procs, Finish(p)
    PROVE  SeedInv'
  <1>1. /\ Gone(p) /\ report' = report \cup {Report(p)} /\ missing' = missing /\ AtEnd(p)
        /\ tab' = IF proc[p].aborted THEN tab ELSE Over(tx[p], tab)
        /\ IsProc(proc[p])
        /\ HasTerms(proc[p], Keys(p), Stored) /\ HasServices(proc[p], tx[p], Stored)
    BY DEF Finish, ScriptsInv, SeedInv
  <1>2. /\ proc'[p] = Off /\ tx'[p] = Empty /\ Keys(p)' = {}
        /\ \A q \in Procs \ {p} : proc'[q] = proc[q] /\ tx'[q] = tx[q] /\ Keys(q)' = Keys(q)
    BY <1>1 DEF Gone, ScriptsInv, Keys, Empty
  <1>3. Stored' = IF proc[p].aborted THEN Stored ELSE Stored \cup Keys(p)
    <2>1. DOMAIN Over(tx[p], tab) = DOMAIN tx[p] \cup DOMAIN tab
      BY RowKeys
    <2> QED BY <1>1, <2>1 DEF Stored, Keys
  <1>4. \A q \in Procs : HasTerms(proc'[q], Keys(q)', Stored') /\ HasServices(proc'[q], tx'[q], Stored')
    <2>1. ASSUME NEW q \in Procs \ {p}
          PROVE  HasTerms(proc'[q], Keys(q)', Stored') /\ HasServices(proc'[q], tx'[q], Stored')
      <3>1. \A k \in Stored' : k[1] = "svc" => k \in Stored \/ k \notin Keys(q)
        BY <1>3 DEF SeedInv
      <3>2. Stored \subseteq Stored'
        BY <1>3
      <3> QED BY <1>2, <3>1, <3>2, OthersStay
    <2>2. HasTerms(proc'[p], Keys(p)', Stored') /\ HasServices(proc'[p], tx'[p], Stored')
      <3>1. Off.pc = "off" /\ DOMAIN Empty = {}
        BY DEF Off, Empty
      <3> QED BY <1>2, <3>1 DEF HasTerms, HasServices, Filling, Seeding
    <2> QED BY <2>1, <2>2
  <1>5. \A q, x \in Procs : \A k \in Keys(q)' \cap Keys(x)' : k[1] = "svc" => q = x
    BY <1>2 DEF SeedInv
  <1>6. AllTerms(Stored')
    <2>1. CASE \E k \in Stored : k[1] = "term"
      BY <1>3, <2>1 DEF SeedInv, AllTerms
    <2>2. CASE ~proc[p].aborted /\ \E k \in Keys(p) : k[1] = "term"
      <3>1. Seeding(proc[p], "taxonomy")
        BY <1>1, <2>2 DEF HasTerms
      <3>2. proc[p].i \in Nat /\ proc[p].i > Len(Domains)
        BY <1>1, <3>1 DEF HasServices, Seeding, AtEnd, Length, Loads
      <3>3. ASSUME NEW d \in DOMAIN Catalogue
            PROVE  <<"term", d>> \in Stored'
        <4>1. PICK k \in DOMAIN Domains : Domains[k] = d
          BY DomainsOfCatalogue
        <4>2. k < proc[p].i
          BY <3>2, DomainsOfCatalogue
        <4> QED BY <1>1, <1>3, <2>2, <3>1, <4>1, <4>2 DEF HasTerms
      <3> QED BY <3>3 DEF AllTerms
    <2> QED BY <1>3, <2>1, <2>2 DEF AllTerms
  <1>7. ASSUME NEW n \in DOMAIN SeedRows, SvcKey(Seeded(n).code) \in Keys(p), ~proc[p].aborted,
               proc[p].pc = "seed"
        PROVE  SvcKey(Seeded(n).code) \in DOMAIN tab' /\ tab'[SvcKey(Seeded(n).code)] = RowOf(Seeded(n))
    <2>1. PICK key : key = SvcKey(Seeded(n).code)
      OBVIOUS
    <2>2. key[1] = "svc"
      BY <2>1, PairKey DEF SvcKey
    <2>3. PICK m \in DOMAIN SeedRows : key = SvcKey(Seeded(m).code) /\ tx[p][key] = RowOf(Seeded(m))
      BY <1>1, <1>7, <2>1, <2>2 DEF HasServices, Keys
    <2>4. Seeded(m) = Seeded(n)
      BY <2>1, <2>3, SeededByCode
    <2>5. key \in DOMAIN tab' /\ tab'[key] = tx[p][key]
      BY <1>1, <1>7, <2>1 DEF Over, Keys
    <2> QED BY <2>1, <2>3, <2>4, <2>5
  <1>8. ASSUME \E r \in report : r.job = "services"
        PROVE  AllSeeded(tab')
    <2>1. ASSUME NEW n \in DOMAIN SeedRows
          PROVE  SvcKey(Seeded(n).code) \in DOMAIN tab' /\ tab'[SvcKey(Seeded(n).code)] = RowOf(Seeded(n))
      <3>1. PICK key : key = SvcKey(Seeded(n).code)
        OBVIOUS
      <3>2. key \in Stored /\ key \in DOMAIN tab /\ tab[key] = RowOf(Seeded(n)) /\ key[1] = "svc"
        BY <1>8, <3>1, PairKey DEF SeedInv, AllSeeded, SvcKey, Stored
      <3>3. CASE proc[p].aborted
        BY <1>1, <3>1, <3>2, <3>3
      <3>4. CASE ~proc[p].aborted /\ key \in Keys(p)
        <4>1. proc[p].pc = "seed"
          BY <1>1, <3>2, <3>4 DEF HasServices, Keys
        <4> QED BY <1>7, <3>1, <3>4, <4>1
      <3>5. CASE ~proc[p].aborted /\ key \notin Keys(p)
        <4>1. key \in DOMAIN Over(tx[p], tab) /\ Over(tx[p], tab)[key] = tab[key]
          BY <3>2, <3>5 DEF Over, Keys
        <4> QED BY <1>1, <3>1, <3>2, <3>5, <4>1
      <3> QED BY <3>3, <3>4, <3>5
    <2> QED BY <2>1 DEF AllSeeded
  <1>9. ASSUME proc[p].job = "services"
        PROVE  AllSeeded(tab')
    <2>1. proc[p].pc = "seed" /\ proc[p].i > Len(SeedRows) + 1
      BY <1>1, <1>9 DEF AtEnd, Length, Loads, IsProc
    <2>2. ~proc[p].aborted /\ proc[p].i \in Nat
      BY <1>1, <2>1 DEF HasServices
    <2>3. ASSUME NEW n \in DOMAIN SeedRows
          PROVE  SvcKey(Seeded(n).code) \in Keys(p)
      <3>1. n \in Nat /\ n <= Len(SeedRows) /\ Len(SeedRows) \in Nat
        BY SeededByCode, FilesAreSequences
      <3>2. n + 1 < proc[p].i
        BY <2>1, <2>2, <3>1
      <3> QED BY <1>1, <1>9, <2>1, <3>2 DEF HasServices, Seeding, Keys
    <2> QED BY <1>7, <2>1, <2>2, <2>3 DEF AllSeeded
  <1>10. (\E r \in report' : r.job = "services") => AllSeeded(tab')
    <2>1. Report(p).job = proc[p].job
      BY DEF Report
    <2> QED BY <1>1, <1>8, <1>9, <2>1
  <1>11. missing' = {}
    BY <1>1 DEF SeedInv
  <1> QED BY <1>4, <1>5, <1>6, <1>10, <1>11 DEF SeedInv, HasTerms, HasServices, AllTerms, AllSeeded

\* Every step.
LEMMA SeedsStep == SeedInv /\ LoadInv /\ [Next]_vars => SeedInv'
  <1>1. ASSUME SeedInv, LoadInv, NEW p \in Procs, Step(p)
        PROVE  SeedInv'
    <2>0. ScriptsInv
      BY <1>1 DEF LoadInv
    <2>1. ASSUME NEW j \in Jobs, NEW f \in DOMAIN AuditFiles, Start(p, j, f) PROVE SeedInv'
      BY <1>1, <2>0, <2>1, StartSeeds
    <2>2. CASE Register(p)
      BY <1>1, <2>0, <2>2, RegisterSeeds
    <2>3. CASE PassOver(p) \/ NodeRejected(p) \/ DeadlockVictim(p)
      BY <1>1, <2>0, <2>3, PassSeeds
    <2>4. CASE SshLook(p)
      BY <1>1, <2>0, <2>4, SshLookSeeds
    <2>5. CASE SshStore(p)
      BY <1>1, <2>0, <2>5, SshStoreSeeds
    <2>6. CASE PostureLook(p)
      BY <1>1, <2>0, <2>6, PostureLookSeeds
    <2>7. CASE PostureStore(p)
      BY <1>1, <2>7, PostureStoreSeeds
    <2>8. CASE TrustLoad(p)
      BY <1>1, <2>0, <2>8, TrustLoadSeeds
    <2>9. CASE TrustEndpoints(p)
      BY <1>1, <2>0, <2>9, TrustEndpointsSeeds
    <2>10. CASE SeedDomain(p)
      BY <1>1, <2>0, <2>10, SeedDomainSeeds
    <2>11. CASE SeedService(p)
      BY <1>1, <2>0, <2>11, SeedServiceSeeds
    <2>12. CASE Finish(p)
      BY <1>1, <2>0, <2>12, FinishSeeds
    <2>13. CASE Crash(p)
      BY <1>1, <2>0, <2>13, GoneSeed DEF Crash
    <2> QED BY <1>1, <2>1, <2>2, <2>3, <2>4, <2>5, <2>6, <2>7, <2>8, <2>9, <2>10, <2>11, <2>12, <2>13
          DEF Step
  <1>2. ASSUME SeedInv, UNCHANGED vars
        PROVE  SeedInv'
    <2>1. UNCHANGED <<tab, tx, proc, report, missing>>
      BY <1>2 DEF vars
    <2> QED BY <1>2, <2>1 DEF SeedInv, HasTerms, HasServices, AllTerms, AllSeeded, Keys, Stored
  <1> QED BY <1>1, <1>2 DEF Next

\* No loader that has found a taxonomy misses a term, and once the services seed
\* has finished, its services are the seed's whatever loaders did before, at the
\* same time or since: for any files, scripts, crashes and faults.
THEOREM SeedIsAlwaysAuthoritative == MCSpec => []SeedIsAuthoritative
  <1>1. MCInit => LoadInv /\ SeedInv
    BY LoadsInit, SeedsInit DEF MCInit
  <1>2. LoadInv /\ SeedInv /\ [MCNext]_allVars => LoadInv' /\ SeedInv'
    BY PartsMove, LoadsStep, SeedsStep
  <1>3. SeedInv => SeedIsAuthoritative
    BY DEF SeedInv, SeedIsAuthoritative, LookupsResolve, SeededServices, AllSeeded, Seeded, RowOf
  <1> QED BY <1>1, <1>2, <1>3, PTL DEF MCSpec

-----------------------------------------------------------------------------
(* Induction.  The numbers up to some bound are shown to be in a set; a        *)
(* definition by recursion has a solution as far as every number.              *)
\* A set of numbers has a least one.
LEMMA LeastNatural ==
    ASSUME NEW T, T \subseteq Nat, T # {}
    PROVE  \E m \in T : \A k \in T : m <= k
  <1>1. PICK R : IsWellFoundedOn(R, Nat) /\ \A k, m \in Nat : k < m => <<k, m>> \in R
    <2>1. \A k, m \in Nat : k < m => <<k, m>> \in OpToRel(<, Nat)
      BY Zenon DEF OpToRel
    <2> QED BY <2>1, NatLessThanWellFounded, Zenon
  <1>2. PICK m \in T : \A k \in T : ~(<<k, m>> \in R)
    <2>1. IsWellFoundedOn(R, Nat)
      BY <1>1, Zenon
    <2> QED BY <2>1, WFMin
  <1>3. ASSUME NEW k \in T PROVE m <= k
    <2>1. k \in Nat /\ m \in Nat
      OBVIOUS
    <2>2. ~(k < m)
      BY <1>1, <1>2, <2>1
    <2> QED BY <2>1, <2>2
  <1> QED BY <1>3

\* What holds of 0 and goes on from n to n + 1 holds of every number.
LEMMA Induction ==
    ASSUME NEW S, 0 \in S, \A n \in Nat : n \in S => n + 1 \in S
    PROVE  \A n \in Nat : n \in S
  <1> DEFINE T == {n \in Nat : n \notin S}
  <1>1. SUFFICES ASSUME T # {} PROVE FALSE
    OBVIOUS
  <1>2. PICK m \in T : \A k \in T : m <= k
    BY <1>1, LeastNatural
  <1>3. m \in Nat /\ m # 0
    OBVIOUS
  <1>4. m - 1 \in Nat /\ m - 1 \notin T
    BY <1>2, <1>3
  <1>5. (m - 1) + 1 \in S
    BY <1>4
  <1> QED BY <1>3, <1>5

\* The elements of a finite set stand in a strict total order one after the other:
\* there is one with n elements before it, for every n below their number.
LEMMA Ranks ==
    ASSUME NEW S, IsFiniteSet(S), NEW R,
           \A i \in S : <<i, i>> \notin R,
           \A i, j \in S : i # j => <<i, j>> \in R \/ <<j, i>> \in R,
           \A i, j, k \in S : <<i, j>> \in R /\ <<j, k>> \in R => <<i, k>> \in R
    PROVE  \E f \in [1 .. Cardinality(S) -> S] :
              /\ \A n \in 1 .. Cardinality(S) :
                    f[n] = CHOOSE k \in S : Cardinality({j \in S : <<j, k>> \in R}) = n - 1
              /\ \A n, m \in 1 .. Cardinality(S) : n < m => <<f[n], f[m]>> \in R /\ f[n] # f[m]
              /\ \A k \in S : \E n \in 1 .. Cardinality(S) : f[n] = k
  <1> DEFINE N == Cardinality(S)
             Pre(k) == {j \in S : <<j, k>> \in R}
             place == [k \in S |-> Cardinality(Pre(k)) + 1]
             f == [n \in 1 .. N |-> CHOOSE k \in S : Cardinality(Pre(k)) = n - 1]
  <1>1. N \in Nat
    BY FS_CardinalityType
  <1>2. ASSUME NEW k \in S
        PROVE  IsFiniteSet(Pre(k)) /\ Cardinality(Pre(k)) \in Nat /\ Cardinality(Pre(k)) < N
    <2>1. Pre(k) \in SUBSET S /\ k \notin Pre(k)
      OBVIOUS
    <2>2. IsFiniteSet(Pre(k)) /\ Cardinality(Pre(k)) <= N /\ Pre(k) # S
          /\ (N = Cardinality(Pre(k)) => S = Pre(k))
      BY <2>1, FS_Subset
    <2>3. Cardinality(Pre(k)) \in Nat
      BY <2>2, FS_CardinalityType
    <2> QED BY <1>1, <2>2, <2>3
  <1>3. ASSUME NEW k \in S, NEW m \in S, <<k, m>> \in R
        PROVE  Cardinality(Pre(k)) < Cardinality(Pre(m))
    <2>1. Pre(k) \in SUBSET Pre(m) /\ k \notin Pre(k) /\ k \in Pre(m)
      BY <1>3
    <2>2. Cardinality(Pre(k)) <= Cardinality(Pre(m)) /\ Pre(k) # Pre(m)
          /\ (Cardinality(Pre(m)) = Cardinality(Pre(k)) => Pre(m) = Pre(k))
      BY <1>2, <2>1, FS_Subset
    <2>3. Cardinality(Pre(k)) \in Nat /\ Cardinality(Pre(m)) \in Nat
      BY <1>2
    <2> HIDE DEF Pre
    <2> QED BY <2>2, <2>3
  <1> HIDE DEF Pre
  <1>4. place \in Injection(S, 1 .. N)
    <2>1. place \in [S -> 1 .. N]
      BY <1>1, <1>2
    <2>2. ASSUME NEW k \in S, NEW m \in S, k # m
          PROVE  place[k] # place[m]
      <3>1. <<k, m>> \in R \/ <<m, k>> \in R
        BY <2>2
      <3>2. Cardinality(Pre(k)) \in Nat /\ Cardinality(Pre(m)) \in Nat
        BY <1>2
      <3>3. Cardinality(Pre(k)) < Cardinality(Pre(m)) \/ Cardinality(Pre(m)) < Cardinality(Pre(k))
        BY <1>3, <3>1
      <3>4. Cardinality(Pre(k)) # Cardinality(Pre(m))
        BY <3>2, <3>3
      <3> QED BY <3>2, <3>4
    <2> HIDE DEF place
    <2> QED BY <2>1, <2>2 DEF Injection, IsInjective
  <1>5. place \in Surjection(S, 1 .. N)
    <2>1. IsFiniteSet(1 .. N) /\ Cardinality(1 .. N) = N
      BY <1>1, FS_Interval
    <2> QED BY <1>4, <2>1, FS_Injection
  <1>6. ASSUME NEW n \in 1 .. N
        PROVE  f[n] \in S /\ Cardinality(Pre(f[n])) = n - 1
    <2>1. PICK k \in S : place[k] = n
      BY <1>5 DEF Surjection
    <2>2. Cardinality(Pre(k)) = n - 1
      BY <1>1, <1>2, <2>1
    <2> QED BY <2>2
  <1>7. ASSUME NEW n \in 1 .. N, NEW m \in 1 .. N, n < m
        PROVE  <<f[n], f[m]>> \in R /\ f[n] # f[m]
    <2>1. f[n] \in S /\ f[m] \in S /\ Cardinality(Pre(f[n])) = n - 1 /\ Cardinality(Pre(f[m])) = m - 1
      BY <1>6
    <2> HIDE DEF f
    <2>2. f[n] # f[m] /\ ~(<<f[m], f[n]>> \in R)
      BY <1>1, <1>3, <1>7, <2>1
    <2> QED BY <2>1, <2>2
  <1>8. ASSUME NEW k \in S
        PROVE  \E n \in 1 .. N : f[n] = k
    <2>1. place[k] \in 1 .. N /\ Cardinality(Pre(k)) = place[k] - 1
      BY <1>1, <1>2, <1>4 DEF Injection
    <2>2. f[place[k]] \in S /\ Cardinality(Pre(f[place[k]])) = place[k] - 1
      BY <1>6, <2>1
    <2> HIDE DEF f, place
    <2>3. f[place[k]] = k
      <3>1. Cardinality(Pre(k)) \in Nat /\ Cardinality(Pre(k)) = Cardinality(Pre(f[place[k]]))
        BY <1>2, <2>1, <2>2
      <3>2. ~(<<k, f[place[k]]>> \in R) /\ ~(<<f[place[k]], k>> \in R)
        BY <1>3, <2>2, <3>1
      <3> QED BY <2>2, <3>2
    <2> QED BY <2>1, <2>3
  <1>9. f \in [1 .. N -> S]
    BY <1>6
  <1>10. \A n \in 1 .. N : f[n] = CHOOSE k \in S : Cardinality({j \in S : <<j, k>> \in R}) = n - 1
    BY DEF Pre
  <1> HIDE DEF f
  <1> QED BY <1>7, <1>8, <1>9, <1>10

\* f gives the place in s of every element that a list comprehension keeps.
Places(f, s, ks) ==
    /\ f \in [1 .. Cardinality(ks) -> ks]
    /\ At(s, ks) = [n \in 1 .. Cardinality(ks) |-> s[f[n]]]
    /\ \A n, m \in 1 .. Cardinality(ks) : n < m => f[n] < f[m]
    /\ \A k \in ks : \E n \in 1 .. Cardinality(ks) : f[n] = k

\* A list comprehension keeps the order of what it keeps.
LEMMA Subsequence ==
    ASSUME NEW s, NEW L \in Nat, NEW ks, ks \subseteq 1 .. L
    PROVE  Cardinality(ks) \in Nat /\ IsFiniteSet(ks) /\ \E f : Places(f, s, ks)
  <1>1. IsFiniteSet(ks) /\ Cardinality(ks) \in Nat
    <2>1. IsFiniteSet(1 .. L)
      BY FS_Interval
    <2> QED BY <2>1, FS_Subset, FS_CardinalityType
  <1> DEFINE R == {p \in ks \X ks : p[1] < p[2]}
  <1>2. /\ \A i \in ks : <<i, i>> \notin R
        /\ \A i, j \in ks : i # j => <<i, j>> \in R \/ <<j, i>> \in R
        /\ \A i, j, k \in ks : <<i, j>> \in R /\ <<j, k>> \in R => <<i, k>> \in R
    OBVIOUS
  <1>3. \A k \in ks : {j \in ks : <<j, k>> \in R} = {j \in ks : j < k}
    OBVIOUS
  <1>4. \A i, j \in ks : <<i, j>> \in R => i < j
    OBVIOUS
  <1> HIDE DEF R
  <1>5. PICK f \in [1 .. Cardinality(ks) -> ks] :
              /\ \A n \in 1 .. Cardinality(ks) :
                    f[n] = CHOOSE k \in ks : Cardinality({j \in ks : <<j, k>> \in R}) = n - 1
              /\ \A n, m \in 1 .. Cardinality(ks) : n < m => <<f[n], f[m]>> \in R /\ f[n] # f[m]
              /\ \A k \in ks : \E n \in 1 .. Cardinality(ks) : f[n] = k
    BY <1>1, <1>2, Ranks
  <1>6. ASSUME NEW n \in 1 .. Cardinality(ks)
        PROVE  f[n] = CHOOSE k \in ks : Cardinality({j \in ks : j < k}) = n - 1
    <2>1. f[n] = CHOOSE k \in ks : Cardinality({j \in ks : <<j, k>> \in R}) = n - 1
      BY <1>5
    <2>2. (CHOOSE k \in ks : Cardinality({j \in ks : <<j, k>> \in R}) = n - 1)
          = (CHOOSE k \in ks : Cardinality({j \in ks : j < k}) = n - 1)
      BY <1>3
    <2> QED BY <2>1, <2>2
  <1>7. At(s, ks) = [n \in 1 .. Cardinality(ks) |-> s[f[n]]]
    <2> DEFINE Kth(n) == CHOOSE k \in ks : Cardinality({j \in ks : j < k}) = n - 1
    <2>1. \A n \in 1 .. Cardinality(ks) : f[n] = Kth(n)
      BY <1>6
    <2>2. At(s, ks) = [n \in 1 .. Cardinality(ks) |-> s[Kth(n)]]
      BY DEF At
    <2> HIDE DEF Kth
    <2> QED BY <2>1, <2>2
  <1>8. Places(f, s, ks)
    BY <1>4, <1>5, <1>7 DEF Places
  <1> QED BY <1>1, <1>8

-----------------------------------------------------------------------------
(* What items cost.                                                          *)
Toks(is, ks) == UNION {{k} \X (1 .. is[k].cost) : k \in ks}
Priced(is, L) == L \in Nat /\ \A k \in 1 .. L : is[k].cost \in Nat

\* The items at positions ks cost as many tokens as are counted one by one.
LEMMA CostIs ==
    ASSUME NEW is, NEW ks
    PROVE  Pack!Cost(is, ks) = Cardinality(Toks(is, ks))
  <1> DEFINE T == UNION {{k} \X (1 .. is[k].cost) : k \in ks}
  <1>1. T = Toks(is, ks)
    BY DEF Toks
  <1>2. Pack!Cost(is, ks) = Cardinality(T)
    BY DEF Pack!Cost, Pack!Cardinality, Cardinality
  <1> HIDE DEF T
  <1> QED BY <1>1, <1>2

\* Priced items have a price together.
LEMMA CostFinite ==
    ASSUME NEW is, NEW L, Priced(is, L), NEW ks, ks \subseteq 1 .. L
    PROVE  IsFiniteSet(Toks(is, ks)) /\ Pack!Cost(is, ks) \in Nat
  <1> DEFINE S == {n \in Nat : n <= L => IsFiniteSet(Toks(is, 1 .. n))}
  <1>0. L \in Nat
    BY DEF Priced
  <1>1. 0 \in S
    <2>1. Toks(is, 1 .. 0) = {}
      BY DEF Toks
    <2> QED BY <2>1, FS_EmptySet
  <1>2. ASSUME NEW n \in Nat, n \in S PROVE n + 1 \in S
    <2>1. SUFFICES ASSUME n + 1 <= L PROVE IsFiniteSet(Toks(is, 1 .. n + 1))
      BY <1>2
    <2>2. IsFiniteSet(Toks(is, 1 .. n)) /\ n + 1 \in 1 .. L /\ is[n + 1].cost \in Nat
      BY <1>0, <1>2, <2>1 DEF Priced
    <2>3. IsFiniteSet({n + 1} \X (1 .. is[n + 1].cost))
      <3>1. IsFiniteSet({n + 1})
        BY FS_Singleton
      <3>2. IsFiniteSet(1 .. is[n + 1].cost)
        BY <2>2, FS_Interval
      <3> QED BY <3>1, <3>2, FS_Product
    <2>4. 1 .. n + 1 = (1 .. n) \cup {n + 1}
      OBVIOUS
    <2>5. Toks(is, 1 .. n + 1) = Toks(is, 1 .. n) \cup ({n + 1} \X (1 .. is[n + 1].cost))
      BY <2>4 DEF Toks
    <2> DEFINE A == Toks(is, 1 .. n)
               D == {n + 1} \X (1 .. is[n + 1].cost)
    <2>6. IsFiniteSet(A) /\ IsFiniteSet(D) /\ Toks(is, 1 .. n + 1) = A \cup D
      BY <2>2, <2>3, <2>5
    <2> HIDE DEF A, D
    <2>7. IsFiniteSet(A \cup D)
      BY <2>6, FS_Union
    <2> QED BY <2>6, <2>7
  <1>3. IsFiniteSet(Toks(is, 1 .. L))
    <2> HIDE DEF S
    <2>1. L \in S
      BY <1>0, <1>1, <1>2, Induction
    <2> QED BY <1>0, <2>1 DEF S
  <1>4. Toks(is, ks) \in SUBSET Toks(is, 1 .. L)
    BY DEF Toks
  <1> QED BY <1>3, <1>4, FS_Subset, FS_CardinalityType, CostIs

\* One item costs what it costs.
LEMMA CostOne ==
    ASSUME NEW is, NEW k, is[k].cost \in Nat
    PROVE  Pack!Cost(is, {k}) = is[k].cost
  <1>1. Toks(is, {k}) = {k} \X (1 .. is[k].cost)
    BY DEF Toks
  <1>2. Cardinality({k} \X (1 .. is[k].cost)) = 1 * is[k].cost
    <2>1. IsFiniteSet({k}) /\ Cardinality({k}) = 1
      BY FS_Singleton
    <2>2. IsFiniteSet(1 .. is[k].cost) /\ Cardinality(1 .. is[k].cost) = is[k].cost
      <3> DEFINE c == is[k].cost
      <3>1. c \in Nat
        OBVIOUS
      <3> HIDE DEF c
      <3>2. IsFiniteSet(1 .. c) /\ Cardinality(1 .. c) = IF 1 > c THEN 0 ELSE c - 1 + 1
        BY <3>1, FS_Interval
      <3>3. IsFiniteSet(1 .. c) /\ Cardinality(1 .. c) = c
        BY <3>1, <3>2
      <3> QED BY <3>3 DEF c
    <2> QED BY <2>1, <2>2, FS_Product
  <1>3. Pack!Cost(is, {k}) = 1 * is[k].cost
    <2>1. Pack!Cost(is, {k}) = Cardinality(Toks(is, {k}))
      BY CostIs
    <2> QED BY <1>1, <1>2, <2>1
  <1> QED BY <1>3

\* The cost of disjoint positions adds up.
LEMMA CostSplit ==
    ASSUME NEW is, NEW L, Priced(is, L), NEW ks, NEW ls, ks \cup ls \subseteq 1 .. L, ks \cap ls = {}
    PROVE  Pack!Cost(is, ks \cup ls) = Pack!Cost(is, ks) + Pack!Cost(is, ls)
  <1>1. IsFiniteSet(Toks(is, ks)) /\ IsFiniteSet(Toks(is, ls))
    BY CostFinite
  <1>2. Toks(is, ks \cup ls) = Toks(is, ks) \cup Toks(is, ls)
    BY DEF Toks
  <1>3. Toks(is, ks) \cap Toks(is, ls) = {}
    BY DEF Toks
  <1>4. Cardinality(Toks(is, ks) \cup Toks(is, ls))
        = Cardinality(Toks(is, ks)) + Cardinality(Toks(is, ls)) - Cardinality({})
    BY <1>1, <1>3, FS_Union
  <1>5. Cardinality(Toks(is, ks)) \in Nat /\ Cardinality(Toks(is, ls)) \in Nat /\ Cardinality({}) = 0
    BY <1>1, FS_CardinalityType, FS_EmptySet
  <1>6. /\ Pack!Cost(is, ks) = Cardinality(Toks(is, ks))
        /\ Pack!Cost(is, ls) = Cardinality(Toks(is, ls))
        /\ Pack!Cost(is, ks \cup ls) = Cardinality(Toks(is, ks \cup ls))
    BY CostIs
  <1>7. Pack!Cost(is, ks \cup ls) = Pack!Cost(is, ks) + Pack!Cost(is, ls) - 0
    BY <1>2, <1>4, <1>5, <1>6, Zenon
  <1>8. Pack!Cost(is, ks) \in Nat /\ Pack!Cost(is, ls) \in Nat
    BY <1>5, <1>6
  <1> QED BY <1>7, <1>8

\* Items taken from others, each from one of its own, cost no more than those.
LEMMA CostOfTaken ==
    ASSUME NEW is, NEW L, Priced(is, L), NEW ls, ls \subseteq 1 .. L, NEW js, NEW ks, NEW f \in [ks -> ls],
           \A k \in ks : js[k].cost = is[f[k]].cost,
           \A k, m \in ks : f[k] = f[m] => k = m
    PROVE  Pack!Cost(js, ks) <= Pack!Cost(is, ls)
  <1> DEFINE g == [t \in Toks(js, ks) |-> <<f[t[1]], t[2]>>]
  <1>1. ASSUME NEW t \in Toks(js, ks)
        PROVE  t[1] \in ks /\ t = <<t[1], t[2]>> /\ <<f[t[1]], t[2]>> \in Toks(is, ls)
    <2>1. PICK k \in ks : t \in {k} \X (1 .. js[k].cost)
      BY DEF Toks
    <2>2. t[1] = k /\ t = <<t[1], t[2]>> /\ t[2] \in 1 .. is[f[k]].cost /\ f[k] \in ls
      BY <2>1
    <2> QED BY <2>2 DEF Toks
  <1>2. g \in Injection(Toks(js, ks), Toks(is, ls))
    <2>1. g \in [Toks(js, ks) -> Toks(is, ls)]
      BY <1>1
    <2>2. ASSUME NEW t \in Toks(js, ks), NEW u \in Toks(js, ks), g[t] = g[u]
          PROVE  t = u
      <3>1. f[t[1]] = f[u[1]] /\ t[2] = u[2]
        BY <2>2
      <3> QED BY <1>1, <3>1
    <2> HIDE DEF g
    <2> QED BY <2>1, <2>2 DEF Injection, IsInjective
  <1>3. IsFiniteSet(Toks(is, ls))
    BY CostFinite
  <1> HIDE DEF g
  <1>4. Cardinality(Toks(js, ks)) <= Cardinality(Toks(is, ls))
    BY <1>2, <1>3, FS_Injection
  <1> QED BY <1>4, CostIs

-----------------------------------------------------------------------------
(* Selection.                                                                *)
KeptStep(is, f, n) ==
          IF n = 0 THEN {}
          ELSE IF Pack!tier_for(is[n].class) = 0 \/ is[n].cost <= Pack!Left(Pack!Cost(is, f[n - 1]))
               THEN f[n - 1] \cup {n} ELSE f[n - 1]

\* The recursion of the selection has a solution.
LEMMA KeptExists ==
    ASSUME NEW is, Len(is) \in Nat
    PROVE  Pack!Kept(is) = [n \in 0 .. Len(is) |-> KeptStep(is, Pack!Kept(is), n)]
  <1> DEFINE Solves(g, N) == g = [n \in 0 .. N |-> KeptStep(is, g, n)]
             S == {N \in Nat : \E g : Solves(g, N)}
  <1>1. 0 \in S
    <2> DEFINE h == [n \in 0 .. 0 |-> {}]
    <2>1. \A n \in 0 .. 0 : KeptStep(is, h, n) = {}
      BY DEF KeptStep
    <2>2. Solves(h, 0)
      BY <2>1
    <2> HIDE DEF h, Solves
    <2> QED BY <2>2
  <1>2. ASSUME NEW N \in Nat, N \in S PROVE N + 1 \in S
    <2>1. PICK g : Solves(g, N)
      BY <1>2
    <2> DEFINE h == [n \in 0 .. N + 1 |-> KeptStep(is, g, n)]
    <2>2. ASSUME NEW n \in 0 .. N + 1
          PROVE  KeptStep(is, h, n) = KeptStep(is, g, n)
      <3>1. CASE n = 0
        BY <3>1 DEF KeptStep
      <3>2. CASE n # 0
        <4>1. n - 1 \in 0 .. N /\ n - 1 \in 0 .. N + 1
          BY <3>2
        <4>2. h[n - 1] = g[n - 1]
          BY <2>1, <4>1
        <4> HIDE DEF h
        <4> QED BY <3>2, <4>2 DEF KeptStep
      <3> QED BY <3>1, <3>2
    <2>3. Solves(h, N + 1) /\ N + 1 \in Nat
      BY <2>2
    <2> HIDE DEF h, Solves
    <2> QED BY <2>3
  <1>3. \E g : Solves(g, Len(is))
    <2> HIDE DEF S
    <2>1. Len(is) \in S
      BY <1>1, <1>2, Induction
    <2> QED BY <2>1 DEF S
  <1>4. Pack!Kept(is) = CHOOSE g : Solves(g, Len(is))
    BY DEF Pack!Kept, KeptStep
  <1> HIDE DEF Solves
  <1>5. Solves(Pack!Kept(is), Len(is))
    BY <1>3, <1>4
  <1> QED BY <1>5 DEF Solves

PackClasses == {"host", "service", "artifact", "fact", "ownership", "doc", "lexical", "semantic",
                "schema", "term", "application"}
PackItem == [class : PackClasses, cost : Nat \ {0}]
RightRequest == request \in [task : DOMAIN Pack!get_contract, lexical : BOOLEAN,
                             vector : {"none", "right", "wrong"}]

\* Every task type has a budget and an order.
LEMMA Contracts ==
    ASSUME RightRequest
    PROVE  Pack!contract.budget \in Nat /\ Pack!contract.order \in Seq(PackClasses)
  <1>1. request.task \in {"TT001", "TT002", "TT003", "TT004", "TT005", "TT006", "TT007"}
    BY DEF RightRequest, Pack!get_contract
  <1>2. ASSUME NEW b \in Nat, NEW m, NEW r, NEW d, NEW o \in Seq(PackClasses)
        PROVE  Pack!Contract(b, m, r, d, o).budget \in Nat /\ Pack!Contract(b, m, r, d, o).order \in Seq(PackClasses)
    BY DEF Pack!Contract
  <1>3. /\ <<"host", "artifact", "service", "doc", "lexical">> \in Seq(PackClasses)
        /\ <<"service", "doc", "artifact", "host">> \in Seq(PackClasses)
        /\ <<"host", "service", "artifact", "fact", "doc">> \in Seq(PackClasses)
        /\ <<"doc", "schema", "term">> \in Seq(PackClasses)
        /\ <<"doc", "schema", "term", "service", "host", "lexical", "semantic">> \in Seq(PackClasses)
        /\ <<"host", "service", "artifact", "doc", "ownership">> \in Seq(PackClasses)
        /\ <<"doc", "host", "service", "artifact">> \in Seq(PackClasses)
    BY DEF PackClasses
  <1>4. \A c \in {Pack!InfrastructureAudit, Pack!ServiceHealthCheck, Pack!RegistryReconciliation,
                  Pack!DocumentValidation, Pack!DocumentAuthoring, Pack!ChangePlanning, Pack!PolicyCompliance} :
            c.budget \in Nat /\ c.order \in Seq(PackClasses)
    BY <1>2, <1>3 DEF Pack!InfrastructureAudit, Pack!ServiceHealthCheck, Pack!RegistryReconciliation,
          Pack!DocumentValidation, Pack!DocumentAuthoring, Pack!ChangePlanning, Pack!PolicyCompliance
  <1>5. Pack!contract \in {Pack!InfrastructureAudit, Pack!ServiceHealthCheck, Pack!RegistryReconciliation,
                  Pack!DocumentValidation, Pack!DocumentAuthoring, Pack!ChangePlanning, Pack!PolicyCompliance}
    BY <1>1 DEF Pack!contract, Pack!get_contract
  <1> QED BY <1>4, <1>5

\* Min of a set of numbers.
LEMMA LeastOf ==
    ASSUME NEW S, S \subseteq Nat, S # {}
    PROVE  Min(S) \in S /\ \A k \in S : Min(S) <= k
  <1>1. \E m \in S : \A k \in S : m <= k
    BY LeastNatural
  <1> QED BY <1>1 DEF Min

\* Max of a bounded set of numbers.
LEMMA GreatestOf ==
    ASSUME NEW S, S \subseteq Nat, S # {}, NEW N \in Nat, \A k \in S : k <= N
    PROVE  Max(S) \in S /\ \A k \in S : k <= Max(S)
  <1> DEFINE T == {N - k : k \in S}
  <1>1. T \subseteq Nat /\ T # {}
    <2>1. \A k \in S : k \in Nat /\ k <= N
      OBVIOUS
    <2>2. \A k \in S : N - k \in Nat
      BY <2>1
    <2> QED BY <2>2
  <1>2. PICK t \in T : \A u \in T : t <= u
    BY <1>1, LeastNatural
  <1>3. PICK m \in S : t = N - m
    OBVIOUS
  <1>4. ASSUME NEW k \in S PROVE m >= k
    <2>1. N - m <= N - k
      BY <1>2, <1>3
    <2>2. m \in Nat /\ k \in Nat
      OBVIOUS
    <2> QED BY <2>1, <2>2
  <1>5. \E x \in S : \A y \in S : x >= y
    BY <1>4
  <1>6. Max(S) \in S /\ \A y \in S : Max(S) >= y
    BY <1>5 DEF Max
  <1>7. ASSUME NEW k \in S PROVE k <= Max(S)
    <2>1. k \in Nat /\ Max(S) \in Nat /\ Max(S) >= k
      BY <1>6
    <2> QED BY <2>1
  <1> QED BY <1>6, <1>7

\* Every class has a place in the order of its task type, and a tier.
LEMMA Positions ==
    ASSUME RightRequest, NEW class
    PROVE  Pack!order_position(class) \in Nat /\ Pack!tier_for(class) \in 0 .. 3
  <1> DEFINE S == {k \in DOMAIN Pack!contract.order : Pack!contract.order[k] = class}
                  \cup {Len(Pack!contract.order) + 1}
  <1>1. S \subseteq Nat /\ S # {}
    <2>1. Pack!contract.order \in Seq(PackClasses)
      BY Contracts
    <2>2. ASSUME NEW o \in Seq(PackClasses)
          PROVE  DOMAIN o \subseteq Nat /\ Len(o) + 1 \in Nat
      BY LenProperties
    <2> QED BY <2>1, <2>2
  <1>2. Pack!order_position(class) = Min(S)
    BY DEF Pack!order_position, Pack!Min, Min
  <1> HIDE DEF S
  <1>3. Pack!order_position(class) \in Nat
    BY <1>1, <1>2, LeastOf
  <1>4. Pack!tier_for(class) \in 0 .. 3
    BY DEF Pack!tier_for
  <1> QED BY <1>3, <1>4

\* sorted: every item once, by tier first.
LEMMA SortedItems ==
    ASSUME RightRequest, NEW is \in Seq(PackItem)
    PROVE  \E f \in [1 .. Len(is) -> 1 .. Len(is)] :
              /\ Pack!Sorted(is) = [n \in 1 .. Len(is) |-> is[f[n]]]
              /\ \A n, m \in 1 .. Len(is) :
                    n < m => f[n] # f[m] /\ Pack!tier_for(is[f[n]].class) <= Pack!tier_for(is[f[m]].class)
  <1> DEFINE S == 1 .. Len(is)
             R == {p \in S \X S : Pack!Before(is, p[1], p[2])}
  <1>0. Len(is) \in Nat /\ DOMAIN is = S /\ IsFiniteSet(S) /\ Cardinality(S) = Len(is)
    <2>1. Len(is) \in Nat /\ DOMAIN is = S
      BY LenProperties
    <2>2. \A n \in Nat : IsFiniteSet(1 .. n) /\ Cardinality(1 .. n) = IF 1 > n THEN 0 ELSE n - 1 + 1
      BY FS_Interval
    <2>3. \A n \in Nat : (IF 1 > n THEN 0 ELSE n - 1 + 1) = n
      OBVIOUS
    <2> QED BY <2>1, <2>2, <2>3
  <1> DEFINE T(k) == Pack!tier_for(is[k].class)
             O(k) == Pack!order_position(is[k].class)
             C(k) == is[k].cost
  <1>1. ASSUME NEW k \in S
        PROVE  T(k) \in Nat /\ O(k) \in Nat /\ C(k) \in Nat
    <2>1. is[k] \in PackItem
      BY <1>0
    <2> QED BY <2>1, Positions DEF PackItem
  <1>b. \A j, k \in S : Pack!Before(is, j, k) <=>
            \/ T(j) < T(k)
            \/ T(j) = T(k) /\ O(j) < O(k)
            \/ T(j) = T(k) /\ O(j) = O(k) /\ C(j) < C(k)
            \/ T(j) = T(k) /\ O(j) = O(k) /\ C(j) = C(k) /\ j < k
    BY DEF Pack!Before
  <1> HIDE DEF T, O, C
  <1>2. /\ \A i \in S : <<i, i>> \notin R
        /\ \A i, j \in S : i # j => <<i, j>> \in R \/ <<j, i>> \in R
        /\ \A i, j, k \in S : <<i, j>> \in R /\ <<j, k>> \in R => <<i, k>> \in R
    <2>1. ASSUME NEW i \in S PROVE <<i, i>> \notin R
      BY <1>0, <1>1, <1>b
    <2>2. ASSUME NEW i \in S, NEW j \in S, i # j PROVE <<i, j>> \in R \/ <<j, i>> \in R
      <3>1. i \in Nat /\ j \in Nat /\ (i < j \/ j < i)
        BY <1>0, <2>2
      <3>a. T(i) \in Nat /\ T(j) \in Nat /\ O(i) \in Nat /\ O(j) \in Nat /\ C(i) \in Nat /\ C(j) \in Nat
        BY <1>1
      <3>b. /\ T(i) < T(j) => Pack!Before(is, i, j)
            /\ T(i) = T(j) /\ O(i) < O(j) => Pack!Before(is, i, j)
            /\ T(i) = T(j) /\ O(i) = O(j) /\ C(i) < C(j) => Pack!Before(is, i, j)
            /\ T(i) = T(j) /\ O(i) = O(j) /\ C(i) = C(j) /\ i < j => Pack!Before(is, i, j)
        BY <1>b
      <3>c. /\ T(j) < T(i) => Pack!Before(is, j, i)
            /\ T(j) = T(i) /\ O(j) < O(i) => Pack!Before(is, j, i)
            /\ T(j) = T(i) /\ O(j) = O(i) /\ C(j) < C(i) => Pack!Before(is, j, i)
            /\ T(j) = T(i) /\ O(j) = O(i) /\ C(j) = C(i) /\ j < i => Pack!Before(is, j, i)
        BY <1>b
      <3>2. Pack!Before(is, i, j) \/ Pack!Before(is, j, i)
        BY <3>1, <3>a, <3>b, <3>c
      <3> QED BY <3>2
    <2>3. ASSUME NEW i \in S, NEW j \in S, NEW k \in S, <<i, j>> \in R, <<j, k>> \in R PROVE <<i, k>> \in R
      BY <1>0, <1>1, <1>b, <2>3
    <2> QED BY <2>1, <2>2, <2>3
  <1>3. \A k \in S : {j \in S : <<j, k>> \in R} = {j \in S : Pack!Before(is, j, k)}
    OBVIOUS
  <1>4. \A i, j \in S : <<i, j>> \in R => T(i) <= T(j)
    BY <1>1, <1>b
  <1> HIDE DEF R
  <1>5. PICK f \in [1 .. Cardinality(S) -> S] :
              /\ \A n \in 1 .. Cardinality(S) :
                    f[n] = CHOOSE k \in S : Cardinality({j \in S : <<j, k>> \in R}) = n - 1
              /\ \A n, m \in 1 .. Cardinality(S) : n < m => <<f[n], f[m]>> \in R /\ f[n] # f[m]
              /\ \A k \in S : \E n \in 1 .. Cardinality(S) : f[n] = k
    BY <1>0, <1>2, Ranks
  <1> DEFINE Kth(n) == CHOOSE k \in S : Cardinality({j \in S : Pack!Before(is, j, k)}) = n - 1
  <1>6. ASSUME NEW n \in S
        PROVE  f[n] = Kth(n)
    <2>1. f[n] = CHOOSE k \in S : Cardinality({j \in S : <<j, k>> \in R}) = n - 1
      BY <1>0, <1>5
    <2>2. (CHOOSE k \in S : Cardinality({j \in S : <<j, k>> \in R}) = n - 1) = Kth(n)
      BY <1>3
    <2> QED BY <2>1, <2>2
  <1>7. Pack!Sorted(is) = [n \in S |-> is[Kth(n)]]
    BY <1>0 DEF Pack!Sorted, Pack!Cardinality, Cardinality
  <1>8. Pack!Sorted(is) = [n \in S |-> is[f[n]]]
    <2> HIDE DEF Kth
    <2> QED BY <1>6, <1>7
  <1>9. f \in [S -> S] /\ \A n, m \in S : n < m => <<f[n], f[m]>> \in R /\ f[n] # f[m]
    BY <1>0, <1>5
  <1> QED BY <1>4, <1>8, <1>9 DEF T

\* The selection goes on item by item.
LEMMA KeptSteps ==
    ASSUME NEW is, Len(is) \in Nat
    PROVE  /\ Pack!Kept(is)[0] = {}
           /\ \A n \in 0 .. Len(is) - 1 :
                 Pack!Kept(is)[n + 1] =
                   IF Pack!tier_for(is[n + 1].class) = 0 \/ is[n + 1].cost <= Pack!Left(Pack!Cost(is, Pack!Kept(is)[n]))
                   THEN Pack!Kept(is)[n] \cup {n + 1} ELSE Pack!Kept(is)[n]
  <1>1. \A n \in 0 .. Len(is) : Pack!Kept(is)[n] = KeptStep(is, Pack!Kept(is), n)
    BY KeptExists
  <1>2. Pack!Kept(is)[0] = {}
    <2>1. 0 \in 0 .. Len(is)
      OBVIOUS
    <2> QED BY <1>1, <2>1 DEF KeptStep
  <1>3. ASSUME NEW n \in 0 .. Len(is) - 1
        PROVE  Pack!Kept(is)[n + 1] =
                   IF Pack!tier_for(is[n + 1].class) = 0 \/ is[n + 1].cost <= Pack!Left(Pack!Cost(is, Pack!Kept(is)[n]))
                   THEN Pack!Kept(is)[n] \cup {n + 1} ELSE Pack!Kept(is)[n]
    <2>1. n + 1 \in 0 .. Len(is) /\ n + 1 # 0 /\ (n + 1) - 1 = n
      OBVIOUS
    <2> QED BY <1>1, <2>1 DEF KeptStep
  <1> QED BY <1>2, <1>3

\* _select: what is kept is among the candidates, and is all of them when they fit.
LEMMA KeptItems ==
    ASSUME RightRequest, NEW is, Len(is) \in Nat, Priced(is, Len(is))
    PROVE  /\ Pack!Kept(is)[Len(is)] \subseteq 1 .. Len(is)
           /\ Pack!Cost(is, 1 .. Len(is)) <= Pack!contract.budget
                 => Pack!Kept(is)[Len(is)] = 1 .. Len(is)
  <1> DEFINE L == Len(is)
             K(n) == Pack!Kept(is)[n]
             fits == Pack!Cost(is, 1 .. Len(is)) <= Pack!contract.budget
             S == {n \in Nat : n <= L => K(n) \subseteq 1 .. n /\ (fits => K(n) = 1 .. n)}
  <1>1. 0 \in S
    <2>1. K(0) = {}
      BY KeptSteps
    <2> HIDE DEF K
    <2> QED BY <2>1
  <1>2. ASSUME NEW n \in Nat, n \in S PROVE n + 1 \in S
    <2> SUFFICES ASSUME n + 1 <= L
                 PROVE  K(n + 1) \subseteq 1 .. n + 1 /\ (fits => K(n + 1) = 1 .. n + 1)
      OBVIOUS
    <2>1. n \in 0 .. L - 1 /\ n <= L
      OBVIOUS
    <2>2. K(n + 1) = IF Pack!tier_for(is[n + 1].class) = 0 \/ is[n + 1].cost <= Pack!Left(Pack!Cost(is, K(n)))
                     THEN K(n) \cup {n + 1} ELSE K(n)
      BY <2>1, KeptSteps
    <2>3. K(n) \subseteq 1 .. n /\ (fits => K(n) = 1 .. n)
      BY <1>2, <2>1
    <2>4. 1 .. n + 1 = (1 .. n) \cup {n + 1}
      OBVIOUS
    <2>5. ASSUME fits
          PROVE  is[n + 1].cost <= Pack!Left(Pack!Cost(is, 1 .. n))
      <3>1. is[n + 1].cost \in Nat
        BY <2>1 DEF Priced
      <3>2. Pack!Cost(is, 1 .. n) \in Nat
        BY CostFinite
      <3>3. Pack!Cost(is, {n + 1}) = is[n + 1].cost
        BY <3>1, CostOne
      <3>4. Pack!Cost(is, (1 .. n) \cup {n + 1}) = Pack!Cost(is, 1 .. n) + Pack!Cost(is, {n + 1})
        <4>1. (1 .. n) \cup {n + 1} \subseteq 1 .. L /\ (1 .. n) \cap {n + 1} = {}
          OBVIOUS
        <4> QED BY <4>1, CostSplit
      <3>5. Pack!Cost(is, 1 .. n + 1) <= Pack!Cost(is, 1 .. L) /\ Pack!Cost(is, 1 .. n + 1) \in Nat
                /\ Pack!Cost(is, 1 .. L) \in Nat
        <4> DEFINE f == [k \in 1 .. n + 1 |-> k]
        <4>1. f \in [1 .. n + 1 -> 1 .. L] /\ \A k \in 1 .. n + 1 : f[k] = k
          OBVIOUS
        <4> HIDE DEF f
        <4>2. Pack!Cost(is, 1 .. n + 1) <= Pack!Cost(is, 1 .. L)
          <5>1. \A k \in 1 .. n + 1 : is[k].cost = is[f[k]].cost
            BY <4>1
          <5>2. \A k, m \in 1 .. n + 1 : f[k] = f[m] => k = m
            BY <4>1
          <5> QED BY <4>1, <5>1, <5>2, CostOfTaken
        <4>3. 1 .. n + 1 \subseteq 1 .. L
          OBVIOUS
        <4> QED BY <4>2, <4>3, CostFinite
      <3>6. Pack!contract.budget \in Nat
        BY Contracts
      <3> DEFINE a == Pack!Cost(is, 1 .. n)
                 b == is[n + 1].cost
                 c == Pack!Cost(is, 1 .. L)
                 d == Pack!contract.budget
      <3>7. a \in Nat /\ b \in Nat /\ c \in Nat /\ d \in Nat /\ a + b <= c /\ c <= d
        BY <2>4, <2>5, <3>1, <3>2, <3>3, <3>4, <3>5, <3>6
      <3>8. Pack!Left(a) = IF d > a THEN d - a ELSE 0
        BY DEF Pack!Left
      <3> HIDE DEF a, b, c, d
      <3>9. b <= Pack!Left(a)
        BY <3>7, <3>8
      <3> QED BY <3>9 DEF a, b
    <2> HIDE DEF K
    <2> QED BY <2>2, <2>3, <2>4, <2>5
  <1>3. L \in S
    <2> HIDE DEF S
    <2> QED BY <1>1, <1>2, Induction
  <1> QED BY <1>3

IsEntity(i) == i.class \in {"host", "service"}

\* A sequence of items is priced.
LEMMA ItemsArePriced ==
    ASSUME NEW is \in Seq(PackItem)
    PROVE  /\ Len(is) \in Nat /\ DOMAIN is = 1 .. Len(is) /\ Priced(is, Len(is))
           /\ Pack!Tokens(is) = Pack!Cost(is, 1 .. Len(is)) /\ Pack!Tokens(is) \in Nat
           /\ \A k \in 1 .. Len(is) : is[k].class \in PackClasses
  <1>1. Len(is) \in Nat /\ DOMAIN is = 1 .. Len(is)
    BY LenProperties
  <1>2. \A k \in 1 .. Len(is) : is[k] \in PackItem
    BY <1>1
  <1>3. Priced(is, Len(is)) /\ \A k \in 1 .. Len(is) : is[k].class \in PackClasses
    BY <1>1, <1>2 DEF Priced, PackItem
  <1>4. Pack!Tokens(is) = Pack!Cost(is, 1 .. Len(is))
    BY <1>1 DEF Pack!Tokens
  <1> QED BY <1>1, <1>3, <1>4, CostFinite

\* Ranker.rank: an item comes once at most, by tier, and all of them come when
\* they fit the budget together.
LEMMA RankedItems ==
    ASSUME RightRequest, NEW is \in Seq(PackItem)
    PROVE  LET r == Pack!rank(is) IN
           /\ \A j, k \in DOMAIN r : j < k => Pack!tier_for(r[j].class) <= Pack!tier_for(r[k].class)
           /\ Pack!Tokens(r) \in Nat /\ Pack!Tokens(r) <= Pack!Tokens(is)
           /\ Pack!Tokens(is) <= Pack!contract.budget => Len(r) = Len(is)
           /\ \A j \in DOMAIN r : \E k \in DOMAIN is : r[j] = is[k]
  <1> DEFINE L == Len(is)
             s == Pack!Sorted(is)
             ks == Pack!Kept(s)[Len(s)]
             r == Pack!rank(is)
  <1>1. L \in Nat /\ DOMAIN is = 1 .. L /\ Priced(is, L) /\ Pack!Tokens(is) = Pack!Cost(is, 1 .. L)
    BY ItemsArePriced
  <1>2. PICK f \in [1 .. L -> 1 .. L] :
            /\ s = [n \in 1 .. L |-> is[f[n]]]
            /\ \A n, m \in 1 .. L :
                    n < m => f[n] # f[m] /\ Pack!tier_for(is[f[n]].class) <= Pack!tier_for(is[f[m]].class)
    BY SortedItems
  <1> HIDE DEF s
  <1>3. Len(s) = L /\ \A n \in 1 .. L : s[n] = is[f[n]]
    BY <1>1, <1>2, LenProperties
  <1>4. Priced(s, L)
    BY <1>1, <1>2, <1>3 DEF Priced
  <1>5. ks \subseteq 1 .. L /\ (Pack!Cost(s, 1 .. L) <= Pack!contract.budget => ks = 1 .. L)
    BY <1>1, <1>3, <1>4, KeptItems
  <1> DEFINE N == Cardinality(ks)
  <1>6. r = At(s, ks)
    BY DEF Pack!rank, Pack!select, Pack!At, At, Pack!Cardinality, Cardinality, s
  <1> HIDE DEF ks, r
  <1>7. PICK g : Places(g, s, ks)
    <2>1. L \in Nat /\ ks \subseteq 1 .. L
      BY <1>1, <1>5
    <2> HIDE DEF L
    <2> QED BY <2>1, Subsequence
  <1>a. /\ g \in [1 .. N -> ks] /\ At(s, ks) = [n \in 1 .. N |-> s[g[n]]]
        /\ \A n, m \in 1 .. N : n < m => g[n] < g[m]
    BY <1>7 DEF Places
  <1>8. N \in Nat
    <2>1. IsFiniteSet(ks)
      <3>1. IsFiniteSet(1 .. L)
        BY <1>1, FS_Interval
      <3> QED BY <1>5, <3>1, FS_Subset
    <2> QED BY <2>1, FS_CardinalityType
  <1> HIDE DEF N
  <1>9. Len(r) = N /\ DOMAIN r = 1 .. N /\ \A n \in 1 .. N : g[n] \in 1 .. L /\ r[n] = is[f[g[n]]]
    <2>1. \A n \in 1 .. N : g[n] \in 1 .. L
      BY <1>5, <1>a
    <2>2. r = [n \in 1 .. N |-> s[g[n]]]
      BY <1>6, <1>a
    <2>3. DOMAIN r = 1 .. N
      BY <2>2
    <2>4. Len(r) = N
      BY <1>8, <2>2, LenProperties
    <2>5. \A n \in 1 .. N : r[n] = is[f[g[n]]]
      BY <1>3, <2>1, <2>2
    <2> QED BY <2>1, <2>3, <2>4, <2>5
  <1>10. \A j, k \in 1 .. N : j < k =>
            /\ f[g[j]] # f[g[k]]
            /\ Pack!tier_for(r[j].class) <= Pack!tier_for(r[k].class)
    BY <1>2, <1>a, <1>9
  <1>11. Pack!Tokens(r) \in Nat /\ Pack!Tokens(r) <= Pack!Tokens(is)
    <2> DEFINE h == [n \in 1 .. N |-> f[g[n]]]
    <2>1. h \in [1 .. N -> 1 .. L] /\ \A n \in 1 .. N : r[n].cost = is[h[n]].cost
      BY <1>2, <1>9
    <2>2. \A n, m \in 1 .. N : h[n] = h[m] => n = m
      BY <1>8, <1>10
    <2> HIDE DEF h
    <2>3. Pack!Cost(r, 1 .. N) <= Pack!Cost(is, 1 .. L)
      BY <1>1, <2>1, <2>2, CostOfTaken
    <2>4. Pack!Tokens(r) = Pack!Cost(r, 1 .. N)
      BY <1>9 DEF Pack!Tokens
    <2>5. Priced(r, N)
      BY <1>1, <1>8, <2>1 DEF Priced
    <2> QED BY <1>1, <2>3, <2>4, <2>5, CostFinite
  <1>12. Pack!Tokens(is) <= Pack!contract.budget => Len(r) = L
    <2> SUFFICES ASSUME Pack!Tokens(is) <= Pack!contract.budget PROVE N = L
      BY <1>9
    <2>1. Pack!Cost(s, 1 .. L) <= Pack!Cost(is, 1 .. L)
      <3>1. \A n, m \in 1 .. L : f[n] = f[m] => n = m
        BY <1>1, <1>2
      <3>2. \A n \in 1 .. L : s[n].cost = is[f[n]].cost
        BY <1>3
      <3> QED BY <1>1, <3>1, <3>2, CostOfTaken
    <2>2. Pack!Cost(s, 1 .. L) \in Nat /\ Pack!Cost(is, 1 .. L) \in Nat /\ Pack!contract.budget \in Nat
      BY <1>1, <1>4, CostFinite, Contracts
    <2>3. Pack!Cost(s, 1 .. L) <= Pack!contract.budget
      BY <1>1, <2>1, <2>2
    <2>4. ks = 1 .. L
      BY <1>5, <2>3
    <2>5. \A n \in Nat : Cardinality(1 .. n) = IF 1 > n THEN 0 ELSE n - 1 + 1
      BY FS_Interval
    <2>6. Cardinality(1 .. L) = IF 1 > L THEN 0 ELSE L - 1 + 1
      BY <1>1, <2>5
    <2>7. Cardinality(1 .. L) = L
      BY <1>1, <2>6
    <2> QED BY <2>4, <2>7 DEF N
  <1>13. \A j \in DOMAIN r : \E k \in DOMAIN is : r[j] = is[k]
    BY <1>1, <1>2, <1>9
  <1> QED BY <1>9, <1>10, <1>11, <1>12, <1>13 DEF r

\* No item, no cost.
LEMMA NothingCosts ==
    ASSUME NEW is
    PROVE  Pack!Cost(is, {}) = 0
  <1>1. Toks(is, {}) = {}
    BY DEF Toks
  <1> QED BY <1>1, CostIs, FS_EmptySet

\* What a query adds fits the budget that is left.
LEMMA FittingItems ==
    ASSUME RightRequest, items \in Seq(PackItem), Pack!Tokens(items) <= Pack!contract.budget,
           NEW costs \in Lists, NEW class \in PackClasses
    PROVE  /\ items \o Pack!Fitting(class, costs) \in Seq(PackItem)
           /\ Pack!Tokens(items \o Pack!Fitting(class, costs)) <= Pack!contract.budget
  <1> DEFINE N == Len(costs)
             found == [k \in DOMAIN costs |-> [class |-> class, cost |-> costs[k]]]
             left == Pack!Left(Pack!Tokens(items))
             S == {n \in 0 .. N : Pack!Cost(found, 1 .. n) <= left}
             F == SubSeq(found, 1, Max(S))
             a == Len(items)
             C == items \o F
  <1>1. costs \in Seq(Nat \ {0}) /\ N \in Nat /\ DOMAIN costs = 1 .. N
    BY ListsAreCosts, LenProperties
  <1>2. found \in Seq(PackItem) /\ Len(found) = N /\ Priced(found, N)
    <2>1. \A k \in 1 .. N : costs[k] \in Nat \ {0}
      BY <1>1
    <2>2. found = [k \in 1 .. N |-> [class |-> class, cost |-> costs[k]]]
      BY <1>1
    <2>3. \A k \in 1 .. N : [class |-> class, cost |-> costs[k]] \in PackItem
      BY <2>1 DEF PackItem
    <2>4. found \in [1 .. N -> PackItem]
      BY <2>2, <2>3
    <2> HIDE DEF found
    <2>5. found \in Seq(PackItem) /\ Len(found) = N
      <3>1. \A n \in Nat : \A g \in [1 .. n -> PackItem] : g \in Seq(PackItem) /\ Len(g) = n
        BY SeqDef
      <3> QED BY <1>1, <2>4, <3>1
    <2> QED BY <2>5, ItemsArePriced
  <1>3. /\ a \in Nat /\ DOMAIN items = 1 .. a /\ Priced(items, a)
        /\ Pack!Tokens(items) = Pack!Cost(items, 1 .. a) /\ Pack!Tokens(items) \in Nat
        /\ Pack!contract.budget \in Nat
    BY ItemsArePriced, Contracts
  <1>4. left \in Nat /\ Pack!Tokens(items) + left <= Pack!contract.budget
    BY <1>3 DEF Pack!Left
  <1>5. Pack!Fitting(class, costs) = F
    BY DEF Pack!Fitting, Pack!Prefix, Pack!Max, Max
  <1> HIDE DEF found, left, a
  <1>6. Max(S) \in S
    <2>1. S \subseteq Nat /\ \A k \in S : k <= N
      BY <1>1
    <2>2. 0 \in S
      <3>1. 1 .. 0 = {}
        OBVIOUS
      <3>2. Pack!Cost(found, 1 .. 0) = 0
        BY <3>1, NothingCosts
      <3>3. 0 \in 0 .. N
        BY <1>1
      <3> QED BY <1>4, <3>2, <3>3
    <2> HIDE DEF S
    <2> QED BY <1>1, <2>1, <2>2, GreatestOf
  <1> DEFINE m == Max(S)
  <1>7. m \in 0 .. N /\ Pack!Cost(found, 1 .. m) <= left
    BY <1>6
  <1> HIDE DEF S, m, N
  <1>8. F \in Seq(PackItem) /\ Len(F) = m /\ \A k \in 1 .. m : F[k] = found[k]
    <2>1. F = SubSeq(found, 1, m)
      BY DEF m
    <2> HIDE DEF F
    <2>2. F \in Seq(PackItem) /\ Len(F) = IF 1 <= m THEN m - 1 + 1 ELSE 0
      BY <1>1, <1>2, <1>7, <2>1, SubSeqProperties
    <2>3. \A k \in 1 .. m - 1 + 1 : F[k] = found[1 + k - 1]
      BY <1>1, <1>2, <1>7, <2>1, SubSeqProperties
    <2> QED BY <1>1, <1>7, <2>2, <2>3
  <1> HIDE DEF F
  <1>9. /\ C \in Seq(PackItem) /\ Len(C) = a + m
        /\ \A k \in 1 .. a : C[k] = items[k]
        /\ \A k \in 1 .. m : C[a + k] = F[k]
    <2>1. /\ items \o F \in Seq(PackItem) /\ Len(items \o F) = a + m
          /\ \A i \in 1 .. a + m : (items \o F)[i] = IF i <= a THEN items[i] ELSE F[i - a]
      BY <1>8, ConcatProperties DEF a
    <2>2. a \in Nat /\ m \in Nat
      BY <1>1, <1>3, <1>7
    <2>3. \A k \in 1 .. a : C[k] = items[k]
      BY <2>1, <2>2
    <2>4. ASSUME NEW k \in 1 .. m PROVE C[a + k] = F[k]
      <3>1. a + k \in 1 .. a + m /\ ~(a + k <= a) /\ (a + k) - a = k
        BY <2>2
      <3>2. C[a + k] = IF a + k <= a THEN items[a + k] ELSE F[(a + k) - a]
        BY <2>1, <3>1
      <3> QED BY <3>1, <3>2
    <2> QED BY <2>1, <2>3, <2>4
  <1> HIDE DEF C
  <1>10. Priced(C, a + m) /\ Pack!Tokens(C) = Pack!Cost(C, 1 .. a + m)
    BY <1>9, ItemsArePriced
  <1>11. Pack!Cost(C, 1 .. a) <= Pack!Cost(items, 1 .. a)
    <2> DEFINE f == [k \in 1 .. a |-> k]
    <2>1. f \in [1 .. a -> 1 .. a] /\ (\A k \in 1 .. a : C[k].cost = items[f[k]].cost)
          /\ \A j, k \in 1 .. a : f[j] = f[k] => j = k
      BY <1>9
    <2> HIDE DEF f
    <2> QED BY <1>3, <2>1, CostOfTaken
  <1>12. Pack!Cost(C, a + 1 .. a + m) <= Pack!Cost(found, 1 .. m)
    <2> DEFINE f == [k \in a + 1 .. a + m |-> k - a]
    <2>1. \A k \in a + 1 .. a + m : k - a \in 1 .. m /\ k = a + (k - a)
      BY <1>1, <1>3, <1>7
    <2>2. \A k \in a + 1 .. a + m : C[k] = found[k - a]
      BY <1>8, <1>9, <2>1
    <2>3. f \in [a + 1 .. a + m -> 1 .. m] /\ (\A k \in a + 1 .. a + m : C[k].cost = found[f[k]].cost)
          /\ \A j, k \in a + 1 .. a + m : f[j] = f[k] => j = k
      <3>1. f \in [a + 1 .. a + m -> 1 .. m]
        BY <2>1
      <3>2. \A k \in a + 1 .. a + m : C[k].cost = found[f[k]].cost
        BY <2>2
      <3>3. \A j, k \in a + 1 .. a + m : f[j] = f[k] => j = k
        BY <1>3
      <3> QED BY <3>1, <3>2, <3>3
    <2>4. 1 .. m \subseteq 1 .. N
      BY <1>1, <1>7
    <2> HIDE DEF f
    <2> QED BY <1>2, <2>3, <2>4, CostOfTaken
  <1>13. Pack!Cost(C, 1 .. a + m) = Pack!Cost(C, 1 .. a) + Pack!Cost(C, a + 1 .. a + m)
         /\ Pack!Cost(C, 1 .. a) \in Nat /\ Pack!Cost(C, a + 1 .. a + m) \in Nat
    <2>1. /\ 1 .. a + m = (1 .. a) \cup (a + 1 .. a + m)
          /\ (1 .. a) \cap (a + 1 .. a + m) = {}
          /\ 1 .. a \subseteq 1 .. a + m /\ a + 1 .. a + m \subseteq 1 .. a + m
      BY <1>1, <1>3, <1>7
    <2>2. Pack!Cost(C, 1 .. a) \in Nat /\ Pack!Cost(C, a + 1 .. a + m) \in Nat
      BY <1>10, <2>1, CostFinite
    <2>3. (1 .. a) \cup (a + 1 .. a + m) \subseteq 1 .. a + m
      BY <2>1
    <2>4. Pack!Cost(C, (1 .. a) \cup (a + 1 .. a + m)) = Pack!Cost(C, 1 .. a) + Pack!Cost(C, a + 1 .. a + m)
      <3>1. Priced(C, a + m) /\ (1 .. a) \cap (a + 1 .. a + m) = {}
        BY <1>10, <2>1
      <3>2. ASSUME NEW X, NEW Y, X \cup Y \subseteq 1 .. a + m, X \cap Y = {}
            PROVE  Pack!Cost(C, X \cup Y) = Pack!Cost(C, X) + Pack!Cost(C, Y)
        BY <3>1, <3>2, CostSplit
      <3> DEFINE X == 1 .. a
                 Y == a + 1 .. a + m
      <3>3. X \cup Y \subseteq 1 .. a + m /\ X \cap Y = {}
        BY <2>3, <3>1
      <3> HIDE DEF X, Y
      <3>4. Pack!Cost(C, X \cup Y) = Pack!Cost(C, X) + Pack!Cost(C, Y)
        BY <3>2, <3>3
      <3> QED BY <3>4 DEF X, Y
    <2> QED BY <2>1, <2>2, <2>4
  <1>14. Pack!Cost(found, 1 .. m) \in Nat
    <2>1. 1 .. m \subseteq 1 .. N
      BY <1>1, <1>7
    <2> QED BY <1>2, <2>1, CostFinite
  <1>15. Pack!Tokens(C) <= Pack!contract.budget
    <2>1. \A x, y, u, v, l, b \in Nat : x <= u /\ y <= v /\ v <= l /\ u + l <= b => x + y <= b
      OBVIOUS
    <2> QED BY <1>3, <1>4, <1>7, <1>10, <1>11, <1>12, <1>13, <1>14, <2>1
  <1> QED BY <1>5, <1>9, <1>15 DEF C

\* The elements a list comprehension keeps are elements of the list.
LEMMA Taken ==
    ASSUME NEW T, NEW s \in Seq(T), NEW ks, ks \subseteq 1 .. Len(s)
    PROVE  At(s, ks) \in Seq(T)
  <1>1. Len(s) \in Nat /\ \A k \in 1 .. Len(s) : s[k] \in T
    BY LenProperties
  <1>2. PICK f : Cardinality(ks) \in Nat /\ Places(f, s, ks)
    <2> DEFINE L == Len(s)
    <2>1. L \in Nat /\ ks \subseteq 1 .. L
      BY <1>1
    <2> HIDE DEF L
    <2> QED BY <2>1, Subsequence
  <1>3. f \in [1 .. Cardinality(ks) -> ks] /\ At(s, ks) = [n \in 1 .. Cardinality(ks) |-> s[f[n]]]
    BY <1>2 DEF Places
  <1>4. At(s, ks) \in [1 .. Cardinality(ks) -> T]
    BY <1>1, <1>3
  <1>5. \A n \in Nat : \A g \in [1 .. n -> T] : g \in Seq(T)
    BY SeqDef
  <1> QED BY <1>2, <1>4, <1>5

-----------------------------------------------------------------------------
Sound(is) ==
    /\ Pack!contract.mandatory \subseteq Pack!Classes(is)
    /\ Pack!contract.disallowed \cap Pack!Classes(is) = {}
    /\ \A j, k \in DOMAIN is : j < k => Pack!tier_for(is[j].class) <= Pack!tier_for(is[k].class)
    /\ Pack!Tokens(is) <= Pack!contract.budget
    /\ Len(is) = Len(items)
    /\ request.task \in {"TT001", "TT003"}

\* Of the contracts that want no item of unknown kind, each wants an artifact.
LEMMA StorableTasks ==
    ASSUME RightRequest, Pack!contract.mandatory \cap Pack!UnknownKind = {}
    PROVE  request.task \in {"TT001", "TT003"} /\ "artifact" \in Pack!contract.mandatory
  <1>1. request.task \in {"TT001", "TT002", "TT003", "TT004", "TT005", "TT006", "TT007"}
    BY DEF RightRequest, Pack!get_contract
  <1>2. /\ request.task = "TT001" => Pack!contract = Pack!InfrastructureAudit
        /\ request.task = "TT002" => Pack!contract = Pack!ServiceHealthCheck
        /\ request.task = "TT003" => Pack!contract = Pack!RegistryReconciliation
        /\ request.task = "TT004" => Pack!contract = Pack!DocumentValidation
        /\ request.task = "TT005" => Pack!contract = Pack!DocumentAuthoring
        /\ request.task = "TT006" => Pack!contract = Pack!ChangePlanning
        /\ request.task = "TT007" => Pack!contract = Pack!PolicyCompliance
    BY DEF Pack!contract, Pack!get_contract
  <1>3. ASSUME NEW b, NEW m, NEW r, NEW d, NEW o
        PROVE  Pack!Contract(b, m, r, d, o).mandatory = m
    BY DEF Pack!Contract
  <1>4. /\ Pack!ServiceHealthCheck.mandatory = {"service", "doc", "artifact"}
        /\ Pack!DocumentValidation.mandatory = {"doc", "schema", "term"}
        /\ Pack!DocumentAuthoring.mandatory = {"doc", "schema", "term"}
        /\ Pack!ChangePlanning.mandatory = {"host", "service", "doc", "artifact", "ownership"}
        /\ Pack!PolicyCompliance.mandatory = {"doc"}
        /\ Pack!InfrastructureAudit.mandatory = {"host", "artifact"}
        /\ Pack!RegistryReconciliation.mandatory = {"host", "service", "artifact", "fact"}
    BY <1>3 DEF Pack!InfrastructureAudit, Pack!ServiceHealthCheck, Pack!RegistryReconciliation,
          Pack!DocumentValidation, Pack!DocumentAuthoring, Pack!ChangePlanning, Pack!PolicyCompliance
  <1>5. "doc" \notin Pack!contract.mandatory
    BY DEF Pack!UnknownKind
  <1>6. request.task \in {"TT001", "TT003"}
    BY <1>1, <1>2, <1>4, <1>5
  <1> QED BY <1>2, <1>4, <1>6

\* rank: a pack whose mandatory classes are there, all of a known kind, is sound.
LEMMA SoundPack ==
    ASSUME RightRequest, items \in Seq(PackItem),
           \/ Pack!Tokens(items) <= Pack!contract.budget
           \/ \A k \in DOMAIN items : IsEntity(items[k]),
           Pack!Violations(Pack!rank(items)) = {},
           Pack!Classes(Pack!rank(items)) \cap Pack!UnknownKind = {}
    PROVE  Sound(Pack!rank(items))
  <1> DEFINE r == Pack!rank(items)
             b == Pack!contract.budget
             t == Pack!Tokens(items)
  <1>1. /\ \A j, k \in DOMAIN r : j < k => Pack!tier_for(r[j].class) <= Pack!tier_for(r[k].class)
        /\ Pack!Tokens(r) \in Nat /\ Pack!Tokens(r) <= t
        /\ t <= b => Len(r) = Len(items)
        /\ \A j \in DOMAIN r : \E k \in DOMAIN items : r[j] = items[k]
    BY RankedItems
  <1>2. t \in Nat /\ b \in Nat
    BY ItemsArePriced, Contracts
  <1>3. /\ Pack!contract.mandatory \subseteq Pack!Classes(r) /\ Pack!contract.disallowed \cap Pack!Classes(r) = {}
        /\ Pack!Classes(r) \cap Pack!UnknownKind = {}
    BY DEF Pack!Violations
  <1> HIDE DEF r
  <1>4. request.task \in {"TT001", "TT003"} /\ "artifact" \in Pack!contract.mandatory
    <2>1. Pack!contract.mandatory \cap Pack!UnknownKind = {}
      BY <1>3
    <2> QED BY <2>1, StorableTasks
  \* Artifacts are looked for only while there is budget.
  <1>5. t <= b
    <2>1. PICK j \in DOMAIN r : r[j].class = "artifact"
      BY <1>3, <1>4 DEF Pack!Classes
    <2>2. PICK k \in DOMAIN items : r[j] = items[k]
      BY <1>1
    <2>3. ~IsEntity(items[k])
      BY <2>1, <2>2 DEF IsEntity
    <2> QED BY <2>3
  <1>6. Pack!Tokens(r) <= b
    <2> DEFINE x == Pack!Tokens(r)
    <2>1. x \in Nat /\ x <= t
      BY <1>1
    <2> HIDE DEF x, b, t
    <2>2. x <= b
      BY <1>2, <1>5, <2>1
    <2> QED BY <2>2 DEF x
  <1> QED BY <1>1, <1>3, <1>4, <1>5, <1>6 DEF Sound, r

PackInv ==
    part = "pack" =>
      /\ RightRequest /\ items \in Seq(PackItem)
      /\ \/ Pack!Tokens(items) <= Pack!contract.budget
         \/ \A k \in DOMAIN items : IsEntity(items[k])
      /\ pack.result # "none" => stage = "end"
      /\ Pack!PackIsSound

\* No request has been answered yet.
LEMMA PackInvInit ==
    ASSUME MCInit
    PROVE  PackInv
  <1> SUFFICES ASSUME part = "pack" PROVE PackInv
    BY DEF PackInv
  <1>1. Pack!Init
    BY DEF MCInit
  <1>2. RightRequest /\ items = <<>> /\ pack.result = "none"
    BY <1>1 DEF Pack!Init, Pack!NoPack, RightRequest
  <1>3. items \in Seq(PackItem) /\ \A k \in DOMAIN items : IsEntity(items[k])
    BY <1>2
  <1> QED BY <1>2, <1>3 DEF PackInv, Pack!PackIsSound

\* Every stage of the broker keeps the invariant.
LEMMA PackInvNext ==
    ASSUME PackInv, part = "pack", part' = part, Pack!Next
    PROVE  PackInv'
  <1>1. /\ RightRequest /\ items \in Seq(PackItem)
        /\ \/ Pack!Tokens(items) <= Pack!contract.budget
           \/ \A k \in DOMAIN items : IsEntity(items[k])
        /\ pack.result # "none" => stage = "end"
    BY DEF PackInv
  <1>2. request' = request
    BY DEF Pack!Next, Pack!exact_lookup, Pack!metadata_filter, Pack!lexical_search, Pack!semantic_search,
       Pack!semantic_unavailable, Pack!finish, Pack!query_fails, Pack!Collect, Pack!Goto
  <1>3. RightRequest' /\ Pack!contract' = Pack!contract
    BY <1>1, <1>2 DEF RightRequest, Pack!contract
  \* Only the end of a call touches the pack.
  <1>a. ASSUME stage # "end", pack' = pack, items' \in Seq(PackItem),
               \/ (Pack!Tokens(items) <= Pack!contract.budget)'
               \/ (\A k \in DOMAIN items : IsEntity(items[k]))'
        PROVE  PackInv'
    <2>1. pack.result = "none" /\ pack'.result = "none"
      BY <1>1, <1>a
    <2> QED BY <1>3, <1>a, <2>1 DEF PackInv, Pack!PackIsSound
  <1>b. ASSUME NEW next, NEW class \in PackClasses, NEW costs \in Lists, NEW may, stage # "end",
               may => Pack!Tokens(items) < Pack!contract.budget,
               Pack!Goto(next, IF may THEN items \o Pack!Fitting(class, costs) ELSE items)
        PROVE  PackInv'
    <2>1. /\ pack' = pack
          /\ items' = IF may THEN items \o Pack!Fitting(class, costs) ELSE items
      BY <1>b DEF Pack!Goto
    <2>2. CASE may
      <3>1. Pack!Tokens(items) \in Nat /\ Pack!contract.budget \in Nat
        BY <1>1, ItemsArePriced, Contracts
      <3>2. Pack!Tokens(items) <= Pack!contract.budget
        BY <1>b, <2>2, <3>1
      <3>3. /\ items \o Pack!Fitting(class, costs) \in Seq(PackItem)
            /\ Pack!Tokens(items \o Pack!Fitting(class, costs)) <= Pack!contract.budget
        BY <1>1, <3>2, FittingItems
      <3>4. items' = items \o Pack!Fitting(class, costs)
        BY <2>1, <2>2
      <3>5. items' \in Seq(PackItem) /\ Pack!Tokens(items') <= Pack!contract'.budget
        BY <1>3, <3>3, <3>4
      <3>6. Pack!Tokens(items)' = Pack!Tokens(items')
        BY DEF Pack!Tokens, Pack!Cost
      <3> QED BY <1>a, <1>b, <2>1, <3>5, <3>6
    <2>3. CASE ~may
      <3>1. items' = items
        BY <2>1, <2>3
      <3>2. Pack!Tokens(items)' = Pack!Tokens(items)
        BY <3>1 DEF Pack!Tokens, Pack!Cost
      <3> QED BY <1>1, <1>3, <1>a, <1>b, <2>1, <3>1, <3>2 DEF IsEntity
    <2> QED BY <2>2, <2>3
  \* A call that ends without a pack leaves the items alone.
  <1>c. ASSUME items' = items, stage' = "end", pack'.result # "persisted"
        PROVE  PackInv'
    <2>1. Pack!Tokens(items)' = Pack!Tokens(items)
      BY <1>c DEF Pack!Tokens, Pack!Cost
    <2> QED BY <1>1, <1>3, <1>c, <2>1 DEF PackInv, IsEntity, Pack!PackIsSound
  <1>4. CASE \E found \in EntityLists : Pack!exact_lookup(found)
    <2>1. PICK found \in EntityLists : Pack!exact_lookup(found)
      BY <1>4
    <2> DEFINE ks == {k \in DOMAIN found : found[k].class \in Pack!Scope}
               E == [class : {"host", "service"}, cost : Nat \ {0}]
    <2>2. found \in Seq(E)
      BY ListsAreCosts
    <2>3. stage # "end" /\ pack' = pack /\ items' = At(found, ks)
      BY <2>1 DEF Pack!exact_lookup, Pack!Goto, Pack!At, At, Pack!Cardinality, Cardinality
    <2>4. Len(found) \in Nat /\ ks \subseteq 1 .. Len(found)
      BY <2>2, LenProperties
    <2>5. At(found, ks) \in Seq(E)
      BY <2>2, <2>4, Taken
    <2>6. items' \in Seq(PackItem)
      <3>1. E \subseteq PackItem
        BY DEF PackItem, PackClasses
      <3> HIDE DEF E
      <3> QED BY <2>3, <2>5, <3>1, SeqMonotonic
    <2>7. \A k \in DOMAIN items' : IsEntity(items'[k])
      <3>1. ASSUME NEW T, NEW t \in Seq(T)
            PROVE  \A k \in DOMAIN t : t[k] \in T
        BY LenProperties
      <3>2. \A k \in DOMAIN items' : items'[k] \in E
        <4>1. items' \in Seq(E)
          BY <2>3, <2>5
        <4> HIDE DEF E
        <4> QED BY <3>1, <4>1
      <3> QED BY <3>2 DEF IsEntity
    <2> QED BY <1>a, <2>3, <2>6, <2>7
  <1>5. CASE \E costs \in Lists : Pack!metadata_filter(costs)
    <2>1. PICK costs \in Lists : Pack!metadata_filter(costs)
      BY <1>5
    <2>2. \E class \in {"artifact", "fact", "ownership", "doc"} : \E next : Pack!Collect(class, next, costs)
      BY <2>1, Zenon DEF Pack!metadata_filter
    <2>a. PICK class \in {"artifact", "fact", "ownership", "doc"} : \E next : Pack!Collect(class, next, costs)
      BY <2>2
    <2>b. PICK next : Pack!Collect(class, next, costs)
      BY <2>a
    <2>3. /\ stage # "end"
          /\ Pack!Goto(next, IF class \in Pack!Scope /\ Pack!Tokens(items) < Pack!contract.budget
                             THEN items \o Pack!Fitting(class, costs) ELSE items)
      BY <2>b DEF Pack!Collect
    <2>4. class \in PackClasses
      BY DEF PackClasses
    <2> QED BY <1>b, <2>3, <2>4
  <1>6. CASE \E costs \in Lists : Pack!lexical_search(costs)
    <2>1. PICK costs \in Lists : Pack!lexical_search(costs)
      BY <1>6
    <2>2. /\ stage # "end"
          /\ Pack!Goto("semantic", IF request.lexical /\ Pack!Tokens(items) < Pack!contract.budget
                           /\ "lexical" \notin Pack!contract.disallowed
                        THEN items \o Pack!Fitting("lexical", costs) ELSE items)
      BY <2>1 DEF Pack!lexical_search
    <2>3. "lexical" \in PackClasses
      BY DEF PackClasses
    <2> QED BY <1>b, <2>2, <2>3
  <1>7. CASE \E costs \in Lists : Pack!semantic_search(costs)
    <2>1. PICK costs \in Lists : Pack!semantic_search(costs)
      BY <1>7
    <2>2. CASE Pack!Semantic /\ request.vector = "wrong"
      <3>1. stage' = "end" /\ items' = items /\ pack'.result = "raised"
        BY <2>1, <2>2 DEF Pack!semantic_search, Pack!Ended
      <3> QED BY <1>c, <3>1
    <2>3. CASE ~(Pack!Semantic /\ request.vector = "wrong")
      <3>1. /\ stage # "end"
            /\ Pack!Goto("rank", IF Pack!Semantic THEN items \o Pack!Fitting("semantic", costs) ELSE items)
        BY <2>1, <2>3 DEF Pack!semantic_search
      <3>2. "semantic" \in PackClasses /\ (Pack!Semantic => Pack!Tokens(items) < Pack!contract.budget)
        BY DEF PackClasses, Pack!Semantic
      <3> QED BY <1>b, <3>1, <3>2
    <2> QED BY <2>2, <2>3
  <1>8. CASE Pack!semantic_unavailable
    <2>1. stage # "end" /\ pack' = pack /\ items' = items
      BY <1>8 DEF Pack!semantic_unavailable
    <2>2. Pack!Tokens(items)' = Pack!Tokens(items)
      BY <2>1 DEF Pack!Tokens, Pack!Cost
    <2> QED BY <1>1, <1>3, <1>a, <2>1, <2>2 DEF IsEntity
  <1>9. CASE Pack!finish
    <2> DEFINE r == Pack!rank(items)
    <2>1. items' = items /\ stage' = "end"
          /\ (pack'.result = "persisted" =>
                pack'.items = r /\ Pack!Violations(r) = {} /\ Pack!Classes(r) \cap Pack!UnknownKind = {})
      BY <1>9 DEF Pack!finish, Pack!Ended
    <2> HIDE DEF r
    <2>2. CASE pack'.result = "persisted"
      <3>1. Sound(r)
        BY <1>1, <2>1, <2>2, SoundPack DEF r
      <3>2. Pack!PackIsSound'
        <4>1. \A class : Pack!tier_for(class)' = Pack!tier_for(class)
          BY <1>3 DEF Pack!tier_for
        <4>2. items' = items /\ request' = request /\ pack'.items = r /\ Pack!contract' = Pack!contract
          BY <1>2, <1>3, <2>1, <2>2
        <4>3. /\ Pack!contract.mandatory \subseteq Pack!Classes(r)
              /\ Pack!contract.disallowed \cap Pack!Classes(r) = {}
              /\ \A j, k \in DOMAIN r : j < k => Pack!tier_for(r[j].class) <= Pack!tier_for(r[k].class)
              /\ Pack!Tokens(r) <= Pack!contract.budget
              /\ Len(r) = Len(items)
              /\ request.task \in {"TT001", "TT003"}
          BY <3>1 DEF Sound
        <4>4. /\ Pack!Classes(pack.items)' = Pack!Classes(r)
              /\ Pack!Tokens(pack.items)' = Pack!Tokens(r)
          BY <4>2 DEF Pack!Classes, Pack!Tokens, Pack!Cost
        <4>5. (\A j, k \in DOMAIN pack.items : j < k =>
                  Pack!tier_for(pack.items[j].class) <= Pack!tier_for(pack.items[k].class))'
          BY <4>1, <4>2, <4>3
        <4> QED BY <4>2, <4>3, <4>4, <4>5 DEF Pack!PackIsSound
      <3>3. Pack!Tokens(items)' = Pack!Tokens(items)
        BY <2>1 DEF Pack!Tokens, Pack!Cost
      <3> QED BY <1>1, <1>3, <2>1, <3>2, <3>3 DEF PackInv, IsEntity
    <2>3. CASE pack'.result # "persisted"
      BY <1>c, <2>1, <2>3
    <2> QED BY <2>2, <2>3
  <1>10. CASE Pack!query_fails
    <2>1. stage' = "end" /\ items' = items /\ pack'.result = "raised"
      BY <1>10 DEF Pack!query_fails, Pack!Ended
    <2> QED BY <1>c, <2>1
  <1> QED
    BY <1>4, <1>5, <1>6, <1>7, <1>8, <1>9, <1>10 DEF Pack!Next

-----------------------------------------------------------------------------
(* Sequences whose elements are of no matter.                                *)
IsSeq(s) == Len(s) \in Nat /\ s = [i \in 1 .. Len(s) |-> s[i]]

\* A sequence of anything is a sequence.
LEMMA AnySeq ==
    ASSUME NEW T, NEW s \in Seq(T)
    PROVE  IsSeq(s)
  <1>1. Len(s) \in Nat /\ s \in [1 .. Len(s) -> T]
    BY LenProperties
  <1> QED BY <1>1 DEF IsSeq

\* A sequence has a set of elements.
LEMMA SeqOfAny ==
    ASSUME NEW s, IsSeq(s)
    PROVE  \E T : s \in Seq(T)
  <1> DEFINE T == {s[i] : i \in 1 .. Len(s)}
  <1>1. Len(s) \in Nat /\ s \in [1 .. Len(s) -> T]
    BY DEF IsSeq
  <1>2. \A n \in Nat : \A g \in [1 .. n -> T] : g \in Seq(T)
    BY SeqDef
  <1> QED BY <1>1, <1>2

\* A function on 1 .. n is a sequence.
LEMMA FunctionIsSeq ==
    ASSUME NEW n \in Nat, NEW s, s = [i \in 1 .. n |-> s[i]]
    PROVE  IsSeq(s) /\ Len(s) = n
  <1> DEFINE T == {s[i] : i \in 1 .. n}
  <1>1. s \in [1 .. n -> T]
    OBVIOUS
  <1>2. \A m \in Nat : \A g \in [1 .. m -> T] : g \in Seq(T) /\ Len(g) = m
    BY SeqDef
  <1>3. s \in Seq(T) /\ Len(s) = n
    BY <1>1, <1>2
  <1> HIDE DEF T
  <1> QED BY <1>3, AnySeq

\* One more element.
LEMMA Appended ==
    ASSUME NEW s, IsSeq(s), NEW e
    PROVE  /\ IsSeq(Append(s, e)) /\ Len(Append(s, e)) = Len(s) + 1
           /\ \A i \in 1 .. Len(s) : Append(s, e)[i] = s[i]
           /\ Append(s, e)[Len(s) + 1] = e
  <1>1. PICK T : s \in Seq(T)
    BY SeqOfAny
  <1>2. s \in Seq(T \cup {e})
    BY <1>1, SeqMonotonic
  <1>3. e \in T \cup {e}
    OBVIOUS
  <1>4. /\ Append(s, e) \in Seq(T \cup {e}) /\ Len(Append(s, e)) = Len(s) + 1
        /\ \A i \in 1 .. Len(s) : Append(s, e)[i] = s[i]
        /\ Append(s, e)[Len(s) + 1] = e
    BY <1>2, <1>3, AppendProperties
  <1> QED BY <1>4, AnySeq

-----------------------------------------------------------------------------
(* Where a text stands in another.                                           *)
Occurs(u, s, o) == o + Len(u) <= Len(s) /\ \A i \in 1 .. Len(u) : s[o + i] = u[i]
Holds(u, s) == \E o \in Nat : Occurs(u, s, o)
Word == {u \in Seq(Nat) : Len(u) >= 1 /\ \A i \in 1 .. Len(u) : u[i] # 0}
HasWord(s) == \E i \in 1 .. Len(s) : s[i] # 0

\* A text found at a place is within the other.
LEMMA HoldsIsWithin ==
    ASSUME NEW u \in Seq(Nat), NEW s \in Seq(Nat), Holds(u, s)
    PROVE  Chunks!Within(u, s)
  <1>1. Len(u) \in Nat /\ Len(s) \in Nat /\ \A i \in 1 .. Len(s) : s[i] \in Nat
    BY LenProperties
  <1>2. PICK o \in Nat : Occurs(u, s, o)
    BY DEF Holds
  <1> DEFINE l == Len(u)
             i == o + 1
             t == SubSeq(s, i, i + l - 1)
  <1>3. i \in 1 .. Len(s) - l + 1 /\ i \in Int /\ i + l - 1 \in Int
    BY <1>1, <1>2 DEF Occurs
  <1>4. /\ t \in Seq(Nat) /\ Len(t) = l
        /\ \A k \in 1 .. l : t[k] = s[o + k]
    <2>1. \A k \in i .. i + l - 1 : s[k] \in Nat
      BY <1>1, <1>3
    <2>2. /\ t \in Seq(Nat)
          /\ Len(t) = IF i <= i + l - 1 THEN (i + l - 1) - i + 1 ELSE 0
          /\ \A k \in 1 .. (i + l - 1) - i + 1 : t[k] = s[i + k - 1]
      BY <1>3, <2>1, SubSeqProperties
    <2> HIDE DEF t
    <2> QED BY <1>1, <1>2, <2>2
  <1>5. t = u
    <2>1. \A k \in 1 .. l : t[k] = u[k]
      BY <1>2, <1>4 DEF Occurs
    <2> HIDE DEF t
    <2> QED BY <1>4, <2>1, SeqEqual
  <1> QED BY <1>3, <1>5 DEF Chunks!Within

\* A text is within itself.
LEMMA HoldsItself ==
    ASSUME NEW u \in Seq(Nat)
    PROVE  Holds(u, u)
  <1>1. Len(u) \in Nat
    BY LenProperties
  <1>2. Occurs(u, u, 0)
    BY <1>1 DEF Occurs
  <1> QED BY <1>2 DEF Holds

\* A text stays within what is put before or after.
LEMMA HoldsInConcat ==
    ASSUME NEW u \in Seq(Nat), NEW s \in Seq(Nat), NEW t \in Seq(Nat)
    PROVE  /\ Holds(u, s) => Holds(u, s \o t)
           /\ Holds(u, t) => Holds(u, s \o t)
  <1>1. Len(u) \in Nat /\ Len(s) \in Nat /\ Len(t) \in Nat
    BY LenProperties
  <1>2. /\ Len(s \o t) = Len(s) + Len(t)
        /\ \A i \in 1 .. Len(s) + Len(t) : (s \o t)[i] = IF i <= Len(s) THEN s[i] ELSE t[i - Len(s)]
    BY ConcatProperties
  <1>3. ASSUME Holds(u, s) PROVE Holds(u, s \o t)
    <2>1. PICK o \in Nat : Occurs(u, s, o)
      BY <1>3 DEF Holds
    <2>2. Occurs(u, s \o t, o)
      <3>1. \A i \in 1 .. Len(u) : o + i \in 1 .. Len(s) + Len(t) /\ o + i <= Len(s)
        BY <1>1, <2>1 DEF Occurs
      <3> QED BY <1>1, <1>2, <2>1, <3>1 DEF Occurs
    <2> QED BY <2>2 DEF Holds
  <1>4. ASSUME Holds(u, t) PROVE Holds(u, s \o t)
    <2>1. PICK o \in Nat : Occurs(u, t, o)
      BY <1>4 DEF Holds
    <2>2. Occurs(u, s \o t, Len(s) + o)
      <3>1. \A i \in 1 .. Len(u) :
                /\ Len(s) + o + i \in 1 .. Len(s) + Len(t) /\ ~(Len(s) + o + i <= Len(s))
                /\ Len(s) + o + i - Len(s) = o + i
        BY <1>1, <2>1 DEF Occurs
      <3>2. \A i \in 1 .. Len(u) : (s \o t)[Len(s) + o + i] = t[o + i]
        BY <1>2, <3>1
      <3>3. Len(s) + o + Len(u) <= Len(s \o t)
        BY <1>1, <1>2, <2>1 DEF Occurs
      <3> QED BY <2>1, <3>2, <3>3 DEF Occurs
    <2>3. Len(s) + o \in Nat
      BY <1>1
    <2> QED BY <2>2, <2>3 DEF Holds
  <1> QED BY <1>3, <1>4

\* Joined parts are still within the whole.
LEMMA JoinedText ==
    ASSUME NEW s \in Seq(Nat), NEW t \in Seq(Nat)
    PROVE  /\ Chunks!Joined(s, t) \in Seq(Nat)
           /\ \A u \in Seq(Nat) : Holds(u, s) \/ Holds(u, t) => Holds(u, Chunks!Joined(s, t))
           /\ HasWord(s) => HasWord(Chunks!Joined(s, t))
  <1> DEFINE nl == <<0, 0>>
             v == s \o nl
             w == v \o t
  <1>1. nl \in Seq(Nat)
    OBVIOUS
  <1>2. Chunks!Joined(s, t) = w
    BY DEF Chunks!Joined
  <1> HIDE DEF nl
  <1>3. v \in Seq(Nat) /\ \A u \in Seq(Nat) : Holds(u, s) => Holds(u, v)
    BY <1>1, HoldsInConcat, ConcatProperties
  <1>4. HasWord(s) => HasWord(w)
    <2> SUFFICES ASSUME HasWord(s) PROVE HasWord(w)
      OBVIOUS
    <2>1. PICK i \in 1 .. Len(s) : s[i] # 0
      BY DEF HasWord
    <2>2. Len(s) \in Nat /\ Len(nl) \in Nat /\ Len(t) \in Nat
      BY <1>1, LenProperties
    <2>3. Len(v) = Len(s) + Len(nl) /\ v[i] = s[i]
      <3>1. /\ Len(v) = Len(s) + Len(nl)
            /\ \A k \in 1 .. Len(s) + Len(nl) : v[k] = IF k <= Len(s) THEN s[k] ELSE nl[k - Len(s)]
        BY <1>1, ConcatProperties
      <3> QED BY <2>2, <3>1
    <2> HIDE DEF v
    <2>4. Len(w) = Len(v) + Len(t) /\ w[i] = v[i]
      <3>1. /\ Len(w) = Len(v) + Len(t)
            /\ \A k \in 1 .. Len(v) + Len(t) : w[k] = IF k <= Len(v) THEN v[k] ELSE t[k - Len(v)]
        BY <1>3, ConcatProperties
      <3> QED BY <2>2, <2>3, <3>1
    <2>5. i \in 1 .. Len(w) /\ w[i] # 0
      BY <2>1, <2>2, <2>3, <2>4
    <2> HIDE DEF w
    <2> QED BY <2>5 DEF HasWord
  <1> HIDE DEF v
  <1>5. w \in Seq(Nat) /\ \A u \in Seq(Nat) : Holds(u, v) \/ Holds(u, t) => Holds(u, w)
    BY <1>3, HoldsInConcat, ConcatProperties
  <1> HIDE DEF w
  <1> QED BY <1>2, <1>3, <1>4, <1>5

\* strip() takes no part of a word.
LEMMA StrippedText ==
    ASSUME NEW s \in Seq(Nat)
    PROVE  /\ Chunks!Strip(s) \in Seq(Nat)
           /\ \A u \in Word : Holds(u, s) => Holds(u, Chunks!Strip(s))
           /\ Chunks!Strip(s) # <<>> => HasWord(Chunks!Strip(s))
           /\ HasWord(s) => Chunks!Strip(s) # <<>>
  <1> DEFINE solid == {i \in DOMAIN s : s[i] # 0}
             a == Min(solid)
             b == Max(solid)
             t == SubSeq(s, a, b)
  <1>1. Len(s) \in Nat /\ DOMAIN s = 1 .. Len(s) /\ \A i \in 1 .. Len(s) : s[i] \in Nat
    BY LenProperties
  <1>2. Chunks!Strip(s) = IF solid = {} THEN <<>> ELSE t
    BY DEF Chunks!Strip, Chunks!Min, Chunks!Max, Min, Max
  <1>3. CASE solid = {}
    <2>1. Chunks!Strip(s) = <<>> /\ <<>> \in Seq(Nat)
      BY <1>2, <1>3
    <2>2. ~HasWord(s)
      BY <1>1, <1>3 DEF HasWord
    <2>3. ASSUME NEW u \in Word, Holds(u, s) PROVE FALSE
      <3>1. PICK o \in Nat : Occurs(u, s, o)
        BY <2>3 DEF Holds
      <3>2. Len(u) \in Nat
        BY LenProperties DEF Word
      <3>3. o + 1 \in 1 .. Len(s) /\ s[o + 1] = u[1] /\ u[1] # 0
        BY <1>1, <3>1, <3>2 DEF Occurs, Word
      <3> QED BY <2>2, <3>3 DEF HasWord
    <2> QED BY <2>1, <2>2, <2>3
  <1>4. CASE solid # {}
    <2>1. /\ a \in solid /\ \A k \in solid : a <= k
          /\ b \in solid /\ \A k \in solid : k <= b
      <3>1. solid \subseteq Nat /\ \A k \in solid : k <= Len(s)
        BY <1>1
      <3> HIDE DEF solid
      <3> QED BY <1>1, <1>4, <3>1, LeastOf, GreatestOf
    <2>2. a \in 1 .. Len(s) /\ b \in 1 .. Len(s) /\ a <= b /\ s[a] # 0
      BY <1>1, <2>1
    <2>3. \A k \in 1 .. Len(s) : s[k] # 0 => a <= k /\ k <= b
      BY <1>1, <2>1
    <2>s. Chunks!Strip(s) = t
      BY <1>2, <1>4
    <2> HIDE DEF a, b, solid
    <2>4. t \in Seq(Nat) /\ Len(t) = b - a + 1 /\ \A k \in 1 .. b - a + 1 : t[k] = s[a + k - 1]
      <3>1. a \in Int /\ b \in Int /\ \A k \in a .. b : s[k] \in Nat
        BY <1>1, <2>2
      <3>2. /\ t \in Seq(Nat) /\ Len(t) = IF a <= b THEN b - a + 1 ELSE 0
            /\ \A k \in 1 .. b - a + 1 : t[k] = s[a + k - 1]
        BY <3>1, SubSeqProperties
      <3> QED BY <2>2, <3>2
    <2> HIDE DEF t
    <2>5. HasWord(t) /\ t # <<>>
      <3>1. 1 \in 1 .. Len(t) /\ t[1] = s[a]
        BY <1>1, <2>2, <2>4
      <3> QED BY <2>2, <3>1 DEF HasWord
    <2>6. ASSUME NEW u \in Word, Holds(u, s) PROVE Holds(u, t)
      <3>1. PICK o \in Nat : Occurs(u, s, o)
        BY <2>6 DEF Holds
      <3>2. Len(u) \in Nat /\ Len(u) >= 1 /\ \A i \in 1 .. Len(u) : u[i] # 0
        BY LenProperties DEF Word
      <3>3. o + Len(u) <= Len(s) /\ \A i \in 1 .. Len(u) : s[o + i] = u[i]
        BY <3>1 DEF Occurs
      <3>4. a <= o + 1 /\ o + Len(u) <= b
        <4>1. 1 \in 1 .. Len(u) /\ Len(u) \in 1 .. Len(u)
          BY <3>2
        <4>2. s[o + 1] # 0 /\ s[o + Len(u)] # 0
          BY <3>2, <3>3, <4>1
        <4>3. o + 1 \in 1 .. Len(s) /\ o + Len(u) \in 1 .. Len(s)
          BY <1>1, <3>2, <3>3
        <4> QED BY <2>3, <4>2, <4>3
      <3> DEFINE q == o + 1 - a
      <3>5. q \in Nat /\ q + Len(u) <= b - a + 1
        BY <1>1, <2>2, <3>2, <3>4
      <3>6. \A i \in 1 .. Len(u) : q + i \in 1 .. b - a + 1 /\ a + (q + i) - 1 = o + i
        BY <1>1, <2>2, <3>2, <3>5
      <3>7. \A i \in 1 .. Len(u) : t[q + i] = u[i]
        BY <2>4, <3>3, <3>6
      <3> HIDE DEF q
      <3>8. Occurs(u, t, q)
        BY <2>4, <3>5, <3>7 DEF Occurs
      <3> QED BY <3>5, <3>8 DEF Holds
    <2> QED BY <2>s, <2>4, <2>5, <2>6
  <1> QED BY <1>3, <1>4

\* _assemble_chunks and _tag_chunks as loops: what each turn does to the state
\* that the one before it left.
LEMMA AssemblingSteps ==
    ASSUME NEW ps, Len(ps) \in Nat
    PROVE  /\ Chunks!Assembling(ps)[0] = Chunks!NothingYet
           /\ \A n \in 0 .. Len(ps) - 1 :
                 Chunks!Assembling(ps)[n + 1] = Chunks!Assemble(Chunks!Assembling(ps)[n], ps[n + 1])
  <1> DEFINE Unfolded(f, n) == IF n = 0 THEN Chunks!NothingYet ELSE Chunks!Assemble(f[n - 1], ps[n])
             Solves(g, N) == g = [n \in 0 .. N |-> Unfolded(g, n)]
             S == {N \in Nat : \E g : Solves(g, N)}
  <1>1. 0 \in S
    <2> DEFINE h == [n \in 0 .. 0 |-> Chunks!NothingYet]
    <2>1. Solves(h, 0)
      OBVIOUS
    <2> HIDE DEF h, Solves
    <2> QED BY <2>1
  <1>2. ASSUME NEW N \in Nat, N \in S PROVE N + 1 \in S
    <2>1. PICK g : Solves(g, N)
      BY <1>2
    <2> DEFINE h == [n \in 0 .. N + 1 |-> Unfolded(g, n)]
    <2>2. ASSUME NEW n \in 0 .. N + 1
          PROVE  Unfolded(h, n) = Unfolded(g, n)
      <3>1. CASE n = 0
        BY <3>1
      <3>2. CASE n # 0
        <4>1. n - 1 \in 0 .. N /\ n - 1 \in 0 .. N + 1
          BY <3>2
        <4>2. h[n - 1] = g[n - 1]
          BY <2>1, <4>1
        <4> HIDE DEF h
        <4> QED BY <3>2, <4>2
      <3> QED BY <3>1, <3>2
    <2>3. Solves(h, N + 1) /\ N + 1 \in Nat
      BY <2>2
    <2> HIDE DEF h, Solves
    <2> QED BY <2>3
  <1>3. \E g : Solves(g, Len(ps))
    <2> HIDE DEF S
    <2>1. Len(ps) \in S
      BY <1>1, <1>2, Induction
    <2> QED BY <2>1 DEF S
  <1>4. Chunks!Assembling(ps) = CHOOSE g : Solves(g, Len(ps))
    BY DEF Chunks!Assembling
  <1> HIDE DEF Solves
  <1>5. Solves(Chunks!Assembling(ps), Len(ps))
    BY <1>3, <1>4
  <1>6. \A n \in 0 .. Len(ps) : Chunks!Assembling(ps)[n] = Unfolded(Chunks!Assembling(ps), n)
    BY <1>5 DEF Solves
  <1>7. 0 \in 0 .. Len(ps)
    OBVIOUS
  <1>8. \A n \in 0 .. Len(ps) - 1 : n + 1 \in 0 .. Len(ps) /\ n + 1 # 0 /\ (n + 1) - 1 = n
    OBVIOUS
  <1> QED BY <1>6, <1>7, <1>8

\* The recursion that tags the chunks goes on chunk by chunk.
LEMMA TaggingSteps ==
    ASSUME NEW raw, Len(raw) \in Nat
    PROVE  /\ Chunks!Tagging(raw)[0] = <<>>
           /\ \A n \in 0 .. Len(raw) - 1 :
                 Chunks!Tagging(raw)[n + 1] = Chunks!Tag(Chunks!Tagging(raw)[n], raw[n + 1])
  <1> DEFINE Unfolded(f, n) == IF n = 0 THEN <<>> ELSE Chunks!Tag(f[n - 1], raw[n])
             Solves(g, N) == g = [n \in 0 .. N |-> Unfolded(g, n)]
             S == {N \in Nat : \E g : Solves(g, N)}
  <1>1. 0 \in S
    <2> DEFINE h == [n \in 0 .. 0 |-> <<>>]
    <2>1. Solves(h, 0)
      OBVIOUS
    <2> HIDE DEF h, Solves
    <2> QED BY <2>1
  <1>2. ASSUME NEW N \in Nat, N \in S PROVE N + 1 \in S
    <2>1. PICK g : Solves(g, N)
      BY <1>2
    <2> DEFINE h == [n \in 0 .. N + 1 |-> Unfolded(g, n)]
    <2>2. ASSUME NEW n \in 0 .. N + 1
          PROVE  Unfolded(h, n) = Unfolded(g, n)
      <3>1. CASE n = 0
        BY <3>1
      <3>2. CASE n # 0
        <4>1. n - 1 \in 0 .. N /\ n - 1 \in 0 .. N + 1
          BY <3>2
        <4>2. h[n - 1] = g[n - 1]
          BY <2>1, <4>1
        <4> HIDE DEF h
        <4> QED BY <3>2, <4>2
      <3> QED BY <3>1, <3>2
    <2>3. Solves(h, N + 1) /\ N + 1 \in Nat
      BY <2>2
    <2> HIDE DEF h, Solves
    <2> QED BY <2>3
  <1>3. \E g : Solves(g, Len(raw))
    <2> HIDE DEF S
    <2>1. Len(raw) \in S
      BY <1>1, <1>2, Induction
    <2> QED BY <2>1 DEF S
  <1>4. Chunks!Tagging(raw) = CHOOSE g : Solves(g, Len(raw))
    BY DEF Chunks!Tagging
  <1> HIDE DEF Solves
  <1>5. Solves(Chunks!Tagging(raw), Len(raw))
    BY <1>3, <1>4
  <1>6. \A n \in 0 .. Len(raw) : Chunks!Tagging(raw)[n] = Unfolded(Chunks!Tagging(raw), n)
    BY <1>5 DEF Solves
  <1>7. 0 \in 0 .. Len(raw)
    OBVIOUS
  <1>8. \A n \in 0 .. Len(raw) - 1 : n + 1 \in 0 .. Len(raw) /\ n + 1 # 0 /\ (n + 1) - 1 = n
    OBVIOUS
  <1> QED BY <1>6, <1>7, <1>8

-----------------------------------------------------------------------------
Para == [word : Nat \ {0}, len : Nat \ {0}, level : Nat]

\* A paragraph's words are a text.
LEMMA WholeIsWord ==
    ASSUME NEW p \in Para
    PROVE  Chunks!Whole(p) \in Word
  <1> DEFINE w == [i \in 1 .. p.len |-> p.word]
  <1>1. p.len \in Nat /\ p.len >= 1 /\ p.word \in Nat /\ p.word # 0
    BY DEF Para
  <1>2. w \in [1 .. p.len -> Nat]
    BY <1>1
  <1>3. \A n \in Nat : \A g \in [1 .. n -> Nat] : g \in Seq(Nat) /\ Len(g) = n
    BY SeqDef
  <1>4. w \in Seq(Nat) /\ Len(w) = p.len
    BY <1>1, <1>2, <1>3
  <1>5. \A i \in 1 .. p.len : w[i] # 0
    BY <1>1
  <1> HIDE DEF w
  <1>6. w \in Word
    BY <1>1, <1>4, <1>5 DEF Word
  <1> QED BY <1>6 DEF w, Chunks!Whole

\* The overlap is text.
LEMMA OverlapIsText ==
    ASSUME NEW s \in Seq(Nat)
    PROVE  Chunks!Overlap(s) \in Seq(Nat)
  <1> DEFINE x == Len(s) - overlap_tokens * CharsPerToken + 1
             m == Chunks!Max({1, x})
  <1>1. Len(s) \in Nat /\ \A i \in 1 .. Len(s) : s[i] \in Nat
    BY LenProperties
  <1>2. x \in Int
    BY <1>1, TextsAreParagraphs
  <1> HIDE DEF x
  <1>3. m \in {1, x} /\ \A y \in {1, x} : m >= y
    <2>1. \E z \in {1, x} : \A y \in {1, x} : z >= y
      BY <1>2
    <2> QED BY <2>1 DEF Chunks!Max
  <1> HIDE DEF m
  <1>4. m \in Int /\ m >= 1
    BY <1>2, <1>3
  <1>5. Chunks!Overlap(s) = SubSeq(s, m, Len(s))
    BY DEF Chunks!Overlap, m, x
  <1>6. \A i \in m .. Len(s) : s[i] \in Nat
    BY <1>1, <1>4
  <1> QED BY <1>1, <1>4, <1>5, <1>6, SubSeqProperties

\* Nothing stands in an empty text.
LEMMA NothingInNothing ==
    ASSUME NEW u \in Word
    PROVE  ~Holds(u, <<>>)
  <1>1. Len(u) \in Nat /\ Len(u) >= 1
    BY LenProperties DEF Word
  <1>2. \A o \in Nat : ~(o + Len(u) <= 0)
    BY <1>1
  <1> QED BY <1>2 DEF Holds, Occurs

\* Every chunk of out, and what is gathered for the next one.
Raw(out) == IsSeq(out) /\ \A j \in 1 .. Len(out) : out[j].content \in Seq(Nat)
Found(u, out) == \E j \in 1 .. Len(out) : Holds(u, out[j].content)

\* _flush loses no text.
LEMMA FlushedText ==
    ASSUME NEW acc, Raw(acc.out), acc.parts \in Seq(Nat)
    PROVE  /\ Raw(Chunks!Flushed(acc))
           /\ \A u \in Word : Found(u, acc.out) \/ Holds(u, acc.parts) => Found(u, Chunks!Flushed(acc))
  <1> DEFINE e == [section |-> acc.section, content |-> acc.parts]
             f == Append(acc.out, e)
  <1>1. Chunks!Flushed(acc) = f
    BY DEF Chunks!Flushed
  <1>2. e.content = acc.parts
    OBVIOUS
  <1> HIDE DEF e
  <1>3. /\ IsSeq(f) /\ Len(f) = Len(acc.out) + 1 /\ Len(acc.out) \in Nat
        /\ \A i \in 1 .. Len(acc.out) : f[i] = acc.out[i]
        /\ f[Len(acc.out) + 1] = e
    BY Appended DEF Raw, IsSeq
  <1> HIDE DEF f
  <1>4. Raw(f)
    <2>1. ASSUME NEW j \in 1 .. Len(f) PROVE f[j].content \in Seq(Nat)
      <3>1. CASE j = Len(acc.out) + 1
        BY <1>2, <1>3, <3>1
      <3>2. CASE j # Len(acc.out) + 1
        <4>1. j \in 1 .. Len(acc.out)
          BY <1>3, <3>2
        <4> QED BY <1>3, <4>1 DEF Raw
      <3> QED BY <3>1, <3>2
    <2> QED BY <1>3, <2>1 DEF Raw
  <1>5. ASSUME NEW u \in Word, Found(u, acc.out) PROVE Found(u, f)
    <2>1. PICK j \in 1 .. Len(acc.out) : Holds(u, acc.out[j].content)
      BY <1>5 DEF Found
    <2>2. j \in 1 .. Len(f) /\ f[j] = acc.out[j]
      BY <1>3
    <2> QED BY <2>1, <2>2 DEF Found
  <1>6. ASSUME NEW u \in Word, Holds(u, acc.parts) PROVE Found(u, f)
    <2>1. Len(acc.out) + 1 \in 1 .. Len(f)
      BY <1>3
    <2> QED BY <1>2, <1>3, <1>6, <2>1 DEF Found
  <1> QED BY <1>1, <1>4, <1>5, <1>6

Gathered(acc, ws) ==
    /\ Raw(acc.out) /\ acc.parts \in Seq(Nat)
    /\ \A u \in ws : Found(u, acc.out) \/ Holds(u, acc.parts)

\* One paragraph more, whether or not it ends a chunk.
LEMMA AssembleStep ==
    ASSUME NEW acc, NEW ws \in SUBSET Word, Gathered(acc, ws), NEW p, p.para \in Para
    PROVE  Gathered(Chunks!Assemble(acc, p), ws \cup {Chunks!Whole(p.para)})
  <1> DEFINE full == acc.parts # <<>> /\ acc.size + p.para.len + 1 > max_tokens * CharsPerToken
             rest == IF overlap_tokens = 0 THEN <<>> ELSE Chunks!Overlap(acc.parts)
             kept == IF ~full THEN acc.parts ELSE IF Chunks!Strip(rest) = <<>> THEN <<>> ELSE rest
             w == Chunks!Whole(p.para)
             new == Chunks!Assemble(acc, p)
             out == IF full THEN Chunks!Flushed(acc) ELSE acc.out
             text1 == IF kept = <<>> THEN w ELSE Chunks!Joined(kept, w)
  <1>1. new.out = out /\ new.parts = text1
    BY DEF Chunks!Assemble
  <1>2. w \in Word /\ w \in Seq(Nat)
    BY WholeIsWord DEF Word
  <1>3. acc.parts \in Seq(Nat) /\ Raw(acc.out)
    BY DEF Gathered
  <1>4. rest \in Seq(Nat)
    BY <1>3, OverlapIsText
  <1> HIDE DEF rest, w
  <1>5. kept \in Seq(Nat) /\ (~full => kept = acc.parts)
    BY <1>3, <1>4
  <1> HIDE DEF full, kept
  <1>6. text1 \in Seq(Nat) /\ Holds(w, text1) /\ \A u \in Word : Holds(u, kept) => Holds(u, text1)
    <2>1. CASE kept = <<>>
      BY <1>2, <2>1, HoldsItself, NothingInNothing
    <2>2. CASE kept # <<>>
      <3>1. \A u \in Word : u \in Seq(Nat)
        BY DEF Word
      <3>2. Holds(w, w)
        BY <1>2, HoldsItself
      <3>3. /\ Chunks!Joined(kept, w) \in Seq(Nat)
            /\ \A u \in Seq(Nat) : Holds(u, kept) \/ Holds(u, w) => Holds(u, Chunks!Joined(kept, w))
        BY <1>2, <1>5, JoinedText
      <3> QED BY <1>2, <2>2, <3>1, <3>2, <3>3
    <2> QED BY <2>1, <2>2
  <1> HIDE DEF text1
  <1>7. Raw(out) /\ \A u \in ws : Found(u, out) \/ Holds(u, text1)
    <2>1. CASE full
      BY <1>3, <2>1, FlushedText DEF Gathered
    <2>2. CASE ~full
      BY <1>3, <1>5, <1>6, <2>2 DEF Gathered
    <2> QED BY <2>1, <2>2
  <1> HIDE DEF out, new
  <1>8. Gathered(new, ws \cup {w})
    BY <1>1, <1>6, <1>7 DEF Gathered
  <1> QED BY <1>8 DEF new, w

\* Every paragraph is whole in one of the chunks that are assembled.
LEMMA AssembledText ==
    ASSUME NEW ps, Len(ps) \in Nat, \A k \in 1 .. Len(ps) : ps[k].para \in Para
    PROVE  /\ Raw(Chunks!Assembled(ps))
           /\ \A k \in 1 .. Len(ps) : Found(Chunks!Whole(ps[k].para), Chunks!Assembled(ps))
  <1> DEFINE L == Len(ps)
             A(n) == Chunks!Assembling(ps)[n]
             W(n) == {Chunks!Whole(ps[k].para) : k \in 1 .. n}
             S == {n \in Nat : n <= L => Gathered(A(n), W(n))}
  <1>1. 0 \in S
    <2>1. A(0) = Chunks!NothingYet /\ W(0) = {}
      BY AssemblingSteps
    <2>2. Gathered(Chunks!NothingYet, {})
      <3>1. Chunks!NothingYet.out = <<>> /\ Chunks!NothingYet.parts = <<>>
        BY DEF Chunks!NothingYet
      <3>2. <<>> \in Seq(Nat) /\ IsSeq(<<>>) /\ Len(<<>>) = 0
        <4>1. <<>> \in Seq(Nat) /\ Len(<<>>) = 0
          BY EmptySeq
        <4>2. IsSeq(<<>>)
          BY <4>1, AnySeq
        <4> QED BY <4>1, <4>2
      <3> QED BY <3>1, <3>2 DEF Gathered, Raw
    <2> HIDE DEF A, W
    <2> QED BY <2>1, <2>2
  <1>2. ASSUME NEW n \in Nat, n \in S PROVE n + 1 \in S
    <2> SUFFICES ASSUME n + 1 <= L PROVE Gathered(A(n + 1), W(n + 1))
      OBVIOUS
    <2>1. Gathered(A(n), W(n)) /\ n \in 0 .. L - 1 /\ n + 1 \in 1 .. L
      BY <1>2
    <2>2. A(n + 1) = Chunks!Assemble(A(n), ps[n + 1])
      BY <2>1, AssemblingSteps
    <2>3. W(n) \in SUBSET Word
      BY <2>1, WholeIsWord
    <2>4. W(n + 1) = W(n) \cup {Chunks!Whole(ps[n + 1].para)}
      <3>1. 1 .. n + 1 = (1 .. n) \cup {n + 1}
        OBVIOUS
      <3> QED BY <3>1
    <2>5. ps[n + 1].para \in Para
      BY <2>1
    <2> HIDE DEF A, W
    <2>6. Gathered(Chunks!Assemble(A(n), ps[n + 1]), W(n) \cup {Chunks!Whole(ps[n + 1].para)})
      BY <2>1, <2>3, <2>5, AssembleStep
    <2> QED BY <2>2, <2>4, <2>6
  <1>3. Gathered(A(L), W(L))
    <2> HIDE DEF S
    <2>1. L \in S
      BY <1>1, <1>2, Induction
    <2> QED BY <2>1 DEF S
  <1> DEFINE end == A(L)
  <1>4. Chunks!Assembled(ps) = IF end.parts = <<>> THEN end.out ELSE Chunks!Flushed(end)
    BY DEF Chunks!Assembled
  <1>5. \A u \in W(L) : u \in Word
    BY WholeIsWord
  <1>6. \A k \in 1 .. L : Chunks!Whole(ps[k].para) \in W(L)
    OBVIOUS
  <1> HIDE DEF end, W
  <1>7. Raw(end.out) /\ end.parts \in Seq(Nat) /\ \A u \in W(L) : Found(u, end.out) \/ Holds(u, end.parts)
    BY <1>3 DEF Gathered, end
  <1>8. Raw(Chunks!Assembled(ps)) /\ \A u \in W(L) : Found(u, Chunks!Assembled(ps))
    <2>1. CASE end.parts = <<>>
      BY <1>4, <1>5, <1>7, <2>1, NothingInNothing
    <2>2. CASE end.parts # <<>>
      BY <1>4, <1>5, <1>7, <2>2, FlushedText
    <2> QED BY <2>1, <2>2
  <1> QED BY <1>6, <1>8

\* What _tag_chunks keeps: chunks that are not blank.
Tags(cs) == /\ IsSeq(cs)
            /\ \A i \in 1 .. Len(cs) : /\ "content" \in DOMAIN cs[i]
                                       /\ cs[i].content \in Seq(Nat) /\ HasWord(cs[i].content)

\* One chunk is tagged or merged, and no text is lost.
LEMMA TagStep ==
    ASSUME NEW tagged, Tags(tagged), NEW c, c.content \in Seq(Nat)
    PROVE  /\ Tags(Chunks!Tag(tagged, c))
           /\ \A u \in Word : Found(u, tagged) \/ Holds(u, c.content) => Found(u, Chunks!Tag(tagged, c))
  <1> DEFINE s == Chunks!Strip(c.content)
             new == Chunks!Tag(tagged, c)
             L == Len(tagged)
             small == Chunks!Tokens(s) < min_tokens
  <1>1. /\ s \in Seq(Nat)
        /\ \A u \in Word : Holds(u, c.content) => Holds(u, s)
        /\ s # <<>> => HasWord(s)
    BY StrippedText
  <1>2. L \in Nat /\ tagged = [i \in 1 .. L |-> tagged[i]] /\ IsSeq(tagged)
    BY DEF Tags, IsSeq
  <1>3. /\ s = <<>> => new = tagged
        /\ s # <<>> /\ small /\ tagged # <<>> => new = [tagged EXCEPT ![L] = Chunks!Merged(@, s)]
        /\ s # <<>> /\ ~(small /\ tagged # <<>>)
              => new = Append(tagged, [section |-> c.section, content |-> s])
    BY DEF Chunks!Tag
  <1> HIDE DEF s, new, small
  <1>4. CASE s = <<>>
    <2>1. new = tagged
      BY <1>3, <1>4
    <2>2. \A u \in Word : ~Holds(u, c.content)
      BY <1>1, <1>4, NothingInNothing
    <2> QED BY <2>1, <2>2 DEF new
  <1>5. CASE s # <<>> /\ small /\ tagged # <<>>
    <2>1. L >= 1
      <3>1. PICK T : tagged \in Seq(T)
        BY <1>2, SeqOfAny
      <3>2. L # 0
        BY <1>5, <3>1, EmptySeq
      <3> QED BY <1>2, <3>2
    <2>2. new = [tagged EXCEPT ![L] = Chunks!Merged(tagged[L], s)]
      BY <1>3, <1>5
    <2>3. DOMAIN tagged = 1 .. L
      BY <1>2
    <2>4. /\ new = [i \in 1 .. L |-> new[i]]
          /\ new[L] = Chunks!Merged(tagged[L], s)
          /\ \A i \in 1 .. L : i # L => new[i] = tagged[i]
      <3>1. L \in 1 .. L
        BY <1>2, <2>1
      <3> QED BY <2>2, <2>3, <3>1
    <2>5. IsSeq(new) /\ Len(new) = L
      BY <1>2, <2>4, FunctionIsSeq
    <2> DEFINE last == tagged[L].content
               w == Chunks!Joined(last, s)
    <2>6. "content" \in DOMAIN tagged[L] /\ last \in Seq(Nat) /\ HasWord(last)
      <3>1. L \in 1 .. L
        BY <1>2, <2>1
      <3> QED BY <3>1 DEF Tags
    <2>7. "content" \in DOMAIN new[L] /\ new[L].content = w
      BY <2>4, <2>6 DEF Chunks!Merged
    <2>8. /\ w \in Seq(Nat) /\ HasWord(w)
          /\ \A u \in Seq(Nat) : Holds(u, last) \/ Holds(u, s) => Holds(u, w)
      BY <1>1, <2>6, JoinedText
    <2> HIDE DEF last, w
    <2>9. Tags(new)
      <3>1. ASSUME NEW i \in 1 .. L
            PROVE  /\ "content" \in DOMAIN new[i]
                   /\ new[i].content \in Seq(Nat) /\ HasWord(new[i].content)
        <4>1. CASE i = L
          BY <2>7, <2>8, <4>1
        <4>2. CASE i # L
          <5>1. new[i] = tagged[i]
            BY <2>4, <4>2
          <5> QED BY <5>1 DEF Tags
        <4> QED BY <4>1, <4>2
      <3> QED BY <2>5, <3>1 DEF Tags
    <2>10. ASSUME NEW u \in Word, Found(u, tagged) \/ Holds(u, c.content) PROVE Found(u, new)
      <3>1. u \in Seq(Nat) /\ L \in 1 .. L
        BY <1>2, <2>1 DEF Word
      <3>2. CASE Holds(u, c.content)
        <4>1. Holds(u, new[L].content)
          BY <1>1, <2>7, <2>8, <3>1, <3>2
        <4> QED BY <2>5, <3>1, <4>1 DEF Found
      <3>3. CASE Found(u, tagged)
        <4>1. PICK i \in 1 .. L : Holds(u, tagged[i].content)
          BY <3>3 DEF Found
        <4>2. CASE i = L
          <5>1. Holds(u, new[L].content)
            BY <2>7, <2>8, <3>1, <4>1, <4>2 DEF last
          <5> QED BY <2>5, <3>1, <5>1 DEF Found
        <4>3. CASE i # L
          <5>1. new[i] = tagged[i]
            BY <2>4, <4>3
          <5> QED BY <2>5, <4>1, <5>1 DEF Found
        <4> QED BY <4>2, <4>3
      <3> QED BY <2>10, <3>2, <3>3
    <2> QED BY <2>9, <2>10 DEF new
  <1>6. CASE s # <<>> /\ ~(small /\ tagged # <<>>)
    <2> DEFINE e == [section |-> c.section, content |-> s]
    <2>1. new = Append(tagged, e)
      BY <1>3, <1>6
    <2>2. "content" \in DOMAIN e /\ e.content = s
      OBVIOUS
    <2> HIDE DEF e
    <2>3. /\ IsSeq(new) /\ Len(new) = L + 1
          /\ \A i \in 1 .. L : new[i] = tagged[i]
          /\ new[L + 1] = e
      BY <1>2, <2>1, Appended
    <2>4. Tags(new)
      <3>1. ASSUME NEW i \in 1 .. L + 1
            PROVE  /\ "content" \in DOMAIN new[i]
                   /\ new[i].content \in Seq(Nat) /\ HasWord(new[i].content)
        <4>1. CASE i = L + 1
          BY <1>1, <1>6, <2>2, <2>3, <4>1
        <4>2. CASE i # L + 1
          <5>1. i \in 1 .. L
            BY <1>2, <4>2
          <5>2. new[i] = tagged[i]
            BY <2>3, <5>1
          <5> QED BY <5>1, <5>2 DEF Tags
        <4> QED BY <4>1, <4>2
      <3> QED BY <2>3, <3>1 DEF Tags
    <2>5. ASSUME NEW u \in Word, Found(u, tagged) \/ Holds(u, c.content) PROVE Found(u, new)
      <3>1. CASE Holds(u, c.content)
        <4>1. L + 1 \in 1 .. Len(new) /\ Holds(u, new[L + 1].content)
          BY <1>1, <1>2, <2>2, <2>3, <3>1
        <4> QED BY <4>1 DEF Found
      <3>2. CASE Found(u, tagged)
        <4>1. PICK i \in 1 .. L : Holds(u, tagged[i].content)
          BY <3>2 DEF Found
        <4>2. i \in 1 .. Len(new) /\ new[i] = tagged[i]
          BY <1>2, <2>3
        <4> QED BY <4>1, <4>2 DEF Found
      <3> QED BY <2>5, <3>1, <3>2
    <2> QED BY <2>4, <2>5 DEF new
  <1> QED BY <1>4, <1>5, <1>6

\* The small-chunk merge and the numbering lose no text.
LEMMA TaggedText ==
    ASSUME NEW raw, Raw(raw)
    PROVE  /\ Tags(Chunks!Tagged(raw))
           /\ \A i \in 1 .. Len(Chunks!Tagged(raw)) : Chunks!Tagged(raw)[i].index = i - 1
           /\ \A u \in Word : Found(u, raw) => Found(u, Chunks!Tagged(raw))
  <1> DEFINE L == Len(raw)
             T(n) == Chunks!Tagging(raw)[n]
             Covers(t, n) == \A u \in Word : \A j \in 1 .. n : Holds(u, raw[j].content) => Found(u, t)
             S == {n \in Nat : n <= L => Tags(T(n)) /\ Covers(T(n), n)}
  <1>0. L \in Nat /\ \A j \in 1 .. L : raw[j].content \in Seq(Nat)
    BY DEF Raw, IsSeq
  <1>1. 0 \in S
    <2>1. T(0) = <<>>
      BY <1>0, TaggingSteps
    <2>2. <<>> \in Seq(Nat) /\ Len(<<>>) = 0
      BY EmptySeq
    <2>3. Tags(<<>>)
      <3>1. IsSeq(<<>>)
        BY <2>2, AnySeq
      <3> QED BY <2>2, <3>1 DEF Tags
    <2> HIDE DEF T
    <2> QED BY <2>1, <2>3
  <1>2. ASSUME NEW n \in Nat, n \in S PROVE n + 1 \in S
    <2> SUFFICES ASSUME n + 1 <= L PROVE Tags(T(n + 1)) /\ Covers(T(n + 1), n + 1)
      OBVIOUS
    <2>1. Tags(T(n)) /\ Covers(T(n), n) /\ n \in 0 .. L - 1 /\ n + 1 \in 1 .. L
      BY <1>0, <1>2
    <2>2. T(n + 1) = Chunks!Tag(T(n), raw[n + 1])
      BY <1>0, <2>1, TaggingSteps
    <2>3. raw[n + 1].content \in Seq(Nat)
      BY <1>0, <2>1
    <2> HIDE DEF T
    <2>4. /\ Tags(T(n + 1))
          /\ \A u \in Word : Found(u, T(n)) \/ Holds(u, raw[n + 1].content) => Found(u, T(n + 1))
      BY <2>1, <2>2, <2>3, TagStep
    <2>5. ASSUME NEW u \in Word, NEW j \in 1 .. n + 1, Holds(u, raw[j].content)
          PROVE  Found(u, T(n + 1))
      <3>1. CASE j = n + 1
        BY <2>4, <2>5, <3>1
      <3>2. CASE j # n + 1
        <4>1. j \in 1 .. n
          BY <3>2
        <4> QED BY <2>1, <2>4, <2>5, <4>1
      <3> QED BY <3>1, <3>2
    <2> QED BY <2>4, <2>5
  <1>3. Tags(T(L)) /\ Covers(T(L), L)
    <2> HIDE DEF S
    <2>1. L \in S
      BY <1>0, <1>1, <1>2, Induction
    <2> QED BY <1>0, <2>1 DEF S
  <1> DEFINE kept == T(L)
             N == Len(kept)
             cs == Chunks!Tagged(raw)
  <1>4. N \in Nat /\ DOMAIN kept = 1 .. N
    <2>1. IsSeq(kept)
      BY <1>3 DEF Tags
    <2> HIDE DEF T
    <2> QED BY <2>1 DEF IsSeq
  <1>5. cs = [i \in 1 .. N |-> [index |-> i - 1, section |-> kept[i].section, content |-> kept[i].content]]
    BY <1>4 DEF Chunks!Tagged
  <1> HIDE DEF cs, T, kept
  <1>6. \A i \in 1 .. N : /\ cs[i].index = i - 1 /\ cs[i].content = kept[i].content
                          /\ "content" \in DOMAIN cs[i]
    BY <1>5
  <1>7. IsSeq(cs) /\ Len(cs) = N
    <2>1. cs = [i \in 1 .. N |-> cs[i]]
      BY <1>5
    <2> QED BY <1>4, <2>1, FunctionIsSeq
  <1>8. Tags(cs)
    BY <1>3, <1>6, <1>7 DEF Tags, kept
  <1>9. ASSUME NEW u \in Word, Found(u, raw) PROVE Found(u, cs)
    <2>1. PICK j \in 1 .. L : Holds(u, raw[j].content)
      BY <1>9 DEF Found
    <2>2. Found(u, kept)
      BY <1>3, <2>1 DEF kept
    <2>3. PICK i \in 1 .. N : Holds(u, kept[i].content)
      BY <2>2 DEF Found
    <2>4. i \in 1 .. Len(cs) /\ Holds(u, cs[i].content)
      BY <1>6, <1>7, <2>3
    <2> QED BY <2>4 DEF Found
  <1> QED BY <1>6, <1>7, <1>8, <1>9 DEF cs

-----------------------------------------------------------------------------
\* What NoTextIsLost says of the chunks of a text.
Complete(t, cs) ==
    /\ IsSeq(cs)
    /\ \A p \in Chunks!ToSet(t) : \E c \in Chunks!ToSet(cs) : Chunks!Within(Chunks!Whole(p), c.content)
    /\ \A i \in DOMAIN cs : cs[i].index = i - 1 /\ Chunks!Strip(cs[i].content) # <<>>

\* chunk(): a document's text is in its chunks.
LEMMA ChunkedText ==
    ASSUME NEW t \in Texts
    PROVE  Complete(t, Chunks!Tagged(Chunks!Assembled(Chunks!Sections(t))))
  <1> DEFINE ps == Chunks!Sections(t)
             raw == Chunks!Assembled(ps)
             cs == Chunks!Tagged(raw)
  <1>1. t \in Seq(Para)
    BY TextsAreParagraphs DEF Para
  <1>2. Len(t) \in Nat /\ DOMAIN t = 1 .. Len(t) /\ \A k \in 1 .. Len(t) : t[k] \in Para
    BY <1>1, LenProperties
  <1>3. \E path : ps = [k \in 1 .. Len(t) |-> [para |-> t[k], section |-> path[k]]]
    BY <1>2 DEF Chunks!Sections
  <1> HIDE DEF ps
  <1>4. /\ ps = [k \in 1 .. Len(t) |-> ps[k]]
        /\ \A k \in 1 .. Len(t) : ps[k].para = t[k]
    BY <1>3
  <1>5. Len(ps) = Len(t)
    BY <1>2, <1>4, FunctionIsSeq
  <1>6. Raw(raw) /\ \A k \in 1 .. Len(t) : Found(Chunks!Whole(t[k]), raw)
    BY <1>2, <1>4, <1>5, AssembledText
  <1> HIDE DEF raw
  <1>7. /\ Tags(cs)
        /\ \A i \in 1 .. Len(cs) : cs[i].index = i - 1
        /\ \A u \in Word : Found(u, raw) => Found(u, cs)
    BY <1>6, TaggedText
  <1> HIDE DEF cs
  <1>8. IsSeq(cs) /\ Len(cs) \in Nat /\ DOMAIN cs = 1 .. Len(cs)
    <2>1. IsSeq(cs)
      BY <1>7 DEF Tags
    <2> QED BY <2>1 DEF IsSeq
  <1>9. ASSUME NEW p \in Chunks!ToSet(t)
        PROVE  \E c \in Chunks!ToSet(cs) : Chunks!Within(Chunks!Whole(p), c.content)
    <2>1. PICK k \in 1 .. Len(t) : p = t[k]
      BY <1>2 DEF Chunks!ToSet
    <2>2. Chunks!Whole(p) \in Word /\ Chunks!Whole(p) \in Seq(Nat)
      BY <1>2, <2>1, WholeIsWord DEF Word
    <2>3. PICK i \in 1 .. Len(cs) : Holds(Chunks!Whole(p), cs[i].content)
      BY <1>6, <1>7, <2>1, <2>2 DEF Found
    <2>4. cs[i].content \in Seq(Nat)
      BY <1>7 DEF Tags
    <2>5. Chunks!Within(Chunks!Whole(p), cs[i].content)
      BY <2>2, <2>3, <2>4, HoldsIsWithin
    <2>6. cs[i] \in Chunks!ToSet(cs)
      BY <1>8 DEF Chunks!ToSet
    <2> QED BY <2>5, <2>6
  <1>10. \A i \in DOMAIN cs : cs[i].index = i - 1 /\ Chunks!Strip(cs[i].content) # <<>>
    BY <1>7, <1>8, StrippedText DEF Tags
  <1> QED BY <1>8, <1>9, <1>10 DEF Complete, cs, raw, ps

\* deduplicated_chunks drops what is stored and repeats, and nothing else.
LEMMA NovelText ==
    ASSUME NEW cs, IsSeq(cs), NEW st, st \in {{}} \cup {{c.content} : c \in Chunks!ToSet(cs)}
    PROVE  LET new == Chunks!Novel(cs, st) IN
           /\ {c.content : c \in Chunks!ToSet(cs)} = {c.content : c \in Chunks!ToSet(new)} \cup st
           /\ \A i, j \in DOMAIN new : new[i].content = new[j].content => i = j
  <1> DEFINE L == Len(cs)
             C(i) == cs[i].content
             ks == {i \in 1 .. L : C(i) \notin st \cup {C(j) : j \in 1 .. i - 1}}
             new == Chunks!Novel(cs, st)
             N == Cardinality(ks)
  <1>1. L \in Nat /\ DOMAIN cs = 1 .. L
    BY DEF IsSeq
  <1>2. new = At(cs, ks)
    BY <1>1 DEF Chunks!Novel, Chunks!At, At, Chunks!Cardinality, Cardinality
  <1>3. PICK f : N \in Nat /\ Places(f, cs, ks)
    <2>1. L \in Nat /\ ks \subseteq 1 .. L
      BY <1>1
    <2> HIDE DEF L, ks
    <2> QED BY <2>1, Subsequence
  <1>4. /\ f \in [1 .. N -> ks] /\ new = [n \in 1 .. N |-> cs[f[n]]]
        /\ \A n, m \in 1 .. N : n < m => f[n] < f[m]
        /\ \A k \in ks : \E n \in 1 .. N : f[n] = k
    BY <1>2, <1>3 DEF Places
  <1> HIDE DEF new, N
  <1>5. ASSUME NEW i \in 1 .. L
        PROVE  C(i) \in {c.content : c \in Chunks!ToSet(new)} \cup st
    <2> DEFINE I == {j \in 1 .. L : C(j) = C(i)}
    <2>1. I \subseteq Nat /\ I # {}
      BY <1>1
    <2> HIDE DEF I
    <2>2. Min(I) \in I /\ \A k \in I : Min(I) <= k
      BY <2>1, LeastOf
    <2>3. PICK k \in 1 .. L : C(k) = C(i) /\ \A j \in 1 .. L : C(j) = C(i) => k <= j
      BY <2>2 DEF I
    <2>4. CASE C(i) \in st
      BY <2>4
    <2>5. CASE C(i) \notin st
      <3>1. \A j \in 1 .. k - 1 : C(j) # C(i)
        <4>1. \A j \in 1 .. k - 1 : j \in 1 .. L /\ ~(k <= j)
          BY <1>1
        <4> HIDE DEF C
        <4> QED BY <2>3, <4>1
      <3>2. k \in ks
        BY <2>3, <2>5, <3>1
      <3>3. PICK n \in 1 .. N : f[n] = k
        BY <1>4, <3>2
      <3>4. new[n] = cs[k] /\ n \in DOMAIN new
        BY <1>4, <3>3
      <3>5. cs[k] \in Chunks!ToSet(new)
        BY <3>4 DEF Chunks!ToSet
      <3> QED BY <2>3, <3>5
    <2> QED BY <2>4, <2>5
  <1>6. \A c \in Chunks!ToSet(new) : c \in Chunks!ToSet(cs)
    <2>1. \A n \in 1 .. N : f[n] \in 1 .. L
      BY <1>4
    <2> QED BY <1>1, <1>4, <2>1 DEF Chunks!ToSet
  <1>7. \A x \in st : \E c \in Chunks!ToSet(cs) : x = c.content
    OBVIOUS
  <1>8. {c.content : c \in Chunks!ToSet(cs)} = {c.content : c \in Chunks!ToSet(new)} \cup st
    <2>1. \A c \in Chunks!ToSet(cs) : \E i \in 1 .. L : c = cs[i]
      BY <1>1 DEF Chunks!ToSet
    <2>2. \A c \in Chunks!ToSet(cs) : c.content \in {d.content : d \in Chunks!ToSet(new)} \cup st
      BY <1>5, <2>1
    <2> QED BY <1>6, <1>7, <2>2
  <1>9. ASSUME NEW i \in DOMAIN new, NEW j \in DOMAIN new, new[i].content = new[j].content
        PROVE  i = j
    <2>1. i \in 1 .. N /\ j \in 1 .. N /\ new[i] = cs[f[i]] /\ new[j] = cs[f[j]]
      BY <1>4
    <2>2. ASSUME NEW n \in 1 .. N, NEW m \in 1 .. N, n < m PROVE C(f[n]) # C(f[m])
      <3>1. f[n] < f[m] /\ f[m] \in ks /\ f[n] \in ks
        BY <1>4, <2>2
      <3>2. f[n] \in 1 .. f[m] - 1
        BY <1>1, <3>1
      <3> QED BY <3>1, <3>2
    <2>3. i < j \/ j < i \/ i = j
      BY <1>3, <2>1
    <2> QED BY <1>9, <2>1, <2>2, <2>3
  <1> QED BY <1>8, <1>9 DEF new

\* A step moves one part, or nothing.
LEMMA PacksMove ==
    ASSUME [MCNext]_allVars
    PROVE  /\ part' = part
           /\ (part = "pack" /\ Pack!Next) \/ UNCHANGED packVars
           /\ (part = "chunks" /\ Chunks!Next) \/ UNCHANGED chunkVars
  <1>1. CASE UNCHANGED allVars
    BY <1>1 DEF allVars
  <1>2. CASE MCNext
    BY <1>2 DEF MCNext, Rest
  <1> QED BY <1>1, <1>2

\* The text of a document is in its chunks, and its chunks are stored or kept.
ChunkInv ==
    /\ IF part = "chunks" THEN text \in Texts ELSE chunks = <<>>
    /\ chunks = <<>> \/ Complete(text, chunks)
    /\ chunks = <<>> => novel = <<>>
    /\ novel # <<>> =>
          /\ {c.content : c \in Chunks!ToSet(chunks)} = {c.content : c \in Chunks!ToSet(novel)} \cup stored
          /\ \A i, j \in DOMAIN novel : novel[i].content = novel[j].content => i = j

\* The other parts do not touch the broker.
LEMMA PackStays ==
    ASSUME PackInv, part' = part, UNCHANGED packVars
    PROVE  PackInv'
  <1>1. UNCHANGED <<request, stage, items, aborted, pack>>
    BY DEF packVars
  <1>2. Pack!contract' = Pack!contract
    BY <1>1 DEF Pack!contract
  <1>3. Pack!Tokens(items)' = Pack!Tokens(items)
    BY <1>1 DEF Pack!Tokens, Pack!Cost
  <1>4. Pack!PackIsSound' <=> Pack!PackIsSound
    <2>1. \A class : Pack!tier_for(class)' = Pack!tier_for(class)
      BY <1>2 DEF Pack!tier_for
    <2> QED BY <1>1, <1>2, <2>1 DEF Pack!PackIsSound, Pack!Tokens, Pack!Cost, Pack!Classes
  <1> QED BY <1>1, <1>2, <1>3, <1>4 DEF PackInv, RightRequest, IsEntity

\* Chunking and deduplication keep the invariant.
LEMMA ChunkStep ==
    ASSUME ChunkInv, part = "chunks", part' = part, Chunks!Next
    PROVE  ChunkInv'
  <1>1. CASE Chunks!chunk
    <2>1. /\ text' = text /\ novel' = novel /\ stored' = stored /\ chunks = <<>>
          /\ chunks' = Chunks!Tagged(Chunks!Assembled(Chunks!Sections(text)))
      BY <1>1 DEF Chunks!chunk
    <2>2. text \in Texts /\ novel = <<>>
      BY <2>1 DEF ChunkInv
    <2>3. Complete(text, chunks')
      BY <2>1, <2>2, ChunkedText
    <2>4. Complete(text, chunks)'
      BY <2>1, <2>3 DEF Complete
    <2> QED BY <2>1, <2>2, <2>4 DEF ChunkInv
  <1>2. CASE Chunks!deduplicated_chunks
    <2>1. /\ text' = text /\ chunks' = chunks /\ chunks # <<>>
          /\ stored' \in {{}} \cup {{c.content} : c \in Chunks!ToSet(chunks)}
          /\ novel' = Chunks!Novel(chunks, stored')
      BY <1>2 DEF Chunks!deduplicated_chunks
    <2>2. text \in Texts /\ Complete(text, chunks)
      BY <2>1 DEF ChunkInv
    <2>3. IsSeq(chunks)
      BY <2>2 DEF Complete
    <2>4. /\ {c.content : c \in Chunks!ToSet(chunks)} = {c.content : c \in Chunks!ToSet(novel')} \cup stored'
          /\ \A i, j \in DOMAIN novel' : novel'[i].content = novel'[j].content => i = j
      BY <2>1, <2>3, NovelText
    <2>5. Complete(text, chunks)'
      BY <2>1, <2>2 DEF Complete
    <2>6. \A s : Chunks!ToSet(s) = {s[i] : i \in DOMAIN s}
      BY DEF Chunks!ToSet
    <2> QED BY <2>1, <2>2, <2>4, <2>5 DEF ChunkInv
  <1> QED BY <1>1, <1>2 DEF Chunks!Next

\* The chunker's invariant holds all the time.
LEMMA ChunkInvHolds ==
    ASSUME ChunkInv
    PROVE  Chunks!NoTextIsLost
  <1>1. /\ chunks # <<>> => Complete(text, chunks)
        /\ novel # <<>> =>
          /\ {c.content : c \in Chunks!ToSet(chunks)} = {c.content : c \in Chunks!ToSet(novel)} \cup stored
          /\ \A i, j \in DOMAIN novel : novel[i].content = novel[j].content => i = j
    BY DEF ChunkInv
  <1>2. \A i \in DOMAIN chunks : chunks[i].index = i - 1 /\ Chunks!Strip(chunks[i].content) # <<>>
    <2>1. CASE chunks = <<>>
      BY <2>1
    <2>2. CASE chunks # <<>>
      BY <1>1, <2>2 DEF Complete
    <2> QED BY <2>1, <2>2
  <1> QED BY <1>1, <1>2 DEF Complete, Chunks!NoTextIsLost

\* Retrieval: a pack that is persisted is an audit's or a reconciliation's, is
\* complete, ordered, within its budget and short of nothing that was collected,
\* and no text is lost on its way into the index, whatever the queries return, however the documents are cut and wherever the limits are set.
THEOREM PacksAreAlwaysSound == MCSpec => []PackIsSound
  <1>1. MCInit => PackInv /\ ChunkInv
    <2> SUFFICES ASSUME MCInit PROVE PackInv /\ ChunkInv
      OBVIOUS
    <2>1. CASE part = "chunks"
      <3>1. Chunks!Init
        BY <2>1 DEF MCInit
      <3> QED BY <2>1, <3>1, PackInvInit DEF ChunkInv, Chunks!Init
    <2>2. CASE part # "chunks"
      <3>1. chunks = <<>> /\ novel = <<>>
        BY <2>2 DEF MCInit
      <3> QED BY <2>2, <3>1, PackInvInit DEF ChunkInv
    <2> QED BY <2>1, <2>2
  <1>2. PackInv /\ ChunkInv /\ [MCNext]_allVars => (PackInv /\ ChunkInv)'
    <2> SUFFICES ASSUME PackInv, ChunkInv, [MCNext]_allVars
                 PROVE  PackInv' /\ ChunkInv'
      OBVIOUS
    <2>1. part' = part
      BY PacksMove
    <2>2. PackInv'
      <3>1. CASE part = "pack" /\ Pack!Next
        BY <2>1, <3>1, PackInvNext
      <3>2. CASE UNCHANGED packVars
        BY <2>1, <3>2, PackStays
      <3> QED BY <3>1, <3>2, PacksMove
    <2>3. ChunkInv'
      <3>1. CASE part = "chunks" /\ Chunks!Next
        BY <2>1, <3>1, ChunkStep
      <3>2. CASE UNCHANGED chunkVars
        <4>1. UNCHANGED <<text, chunks, stored, novel>>
          BY <3>2 DEF chunkVars
        <4>2. Complete(text, chunks)' <=> Complete(text, chunks)
          BY <4>1 DEF Complete
        <4> QED BY <2>1, <4>1, <4>2 DEF ChunkInv
      <3> QED BY <3>1, <3>2, PacksMove
    <2> QED BY <2>2, <2>3
  <1>3. PackInv /\ ChunkInv => PackIsSound
    BY ChunkInvHolds DEF PackIsSound, PackInv
  <1> QED BY <1>1, <1>2, <1>3, PTL DEF MCSpec

-----------------------------------------------------------------------------
(* Migrations: statements one after another.                                 *)
\* The recursion over the statements has a solution.
LEMMA RunningSteps ==
    ASSUME NEW d, NEW os, Len(os) \in Nat
    PROVE  /\ Alembic!Running(d, os)[0] = d
           /\ \A n \in 0 .. Len(os) - 1 :
                 Alembic!Running(d, os)[n + 1] = Alembic!Exec(Alembic!Running(d, os)[n], os[n + 1])
           /\ Alembic!ExecAll(d, os) = Alembic!Running(d, os)[Len(os)]
  <1> DEFINE Unfolded(f, n) == IF n = 0 THEN d ELSE Alembic!Exec(f[n - 1], os[n])
             Solves(g, N) == g = [n \in 0 .. N |-> Unfolded(g, n)]
             S == {N \in Nat : \E g : Solves(g, N)}
  <1>1. 0 \in S
    <2> DEFINE h == [n \in 0 .. 0 |-> d]
    <2>1. Solves(h, 0)
      OBVIOUS
    <2> HIDE DEF h, Solves
    <2> QED BY <2>1
  <1>2. ASSUME NEW N \in Nat, N \in S PROVE N + 1 \in S
    <2>1. PICK g : Solves(g, N)
      BY <1>2
    <2> DEFINE h == [n \in 0 .. N + 1 |-> Unfolded(g, n)]
    <2>2. ASSUME NEW n \in 0 .. N + 1
          PROVE  Unfolded(h, n) = Unfolded(g, n)
      <3>1. CASE n = 0
        BY <3>1
      <3>2. CASE n # 0
        <4>1. n - 1 \in 0 .. N /\ n - 1 \in 0 .. N + 1
          BY <3>2
        <4>2. h[n - 1] = g[n - 1]
          BY <2>1, <4>1
        <4> HIDE DEF h
        <4> QED BY <3>2, <4>2
      <3> QED BY <3>1, <3>2
    <2>3. Solves(h, N + 1) /\ N + 1 \in Nat
      BY <2>2
    <2> HIDE DEF h, Solves
    <2> QED BY <2>3
  <1>3. \E g : Solves(g, Len(os))
    <2> HIDE DEF S
    <2>1. Len(os) \in S
      BY <1>1, <1>2, Induction
    <2> QED BY <2>1 DEF S
  <1>4. Alembic!Running(d, os) = CHOOSE g : Solves(g, Len(os))
    BY DEF Alembic!Running
  <1> HIDE DEF Solves
  <1>5. Solves(Alembic!Running(d, os), Len(os))
    BY <1>3, <1>4
  <1>6. \A n \in 0 .. Len(os) : Alembic!Running(d, os)[n] = Unfolded(Alembic!Running(d, os), n)
    BY <1>5 DEF Solves
  <1>7. 0 \in 0 .. Len(os)
    OBVIOUS
  <1>8. \A n \in 0 .. Len(os) - 1 : n + 1 \in 0 .. Len(os) /\ n + 1 # 0 /\ (n + 1) - 1 = n
    OBVIOUS
  <1>9. Alembic!ExecAll(d, os) = Alembic!Running(d, os)[Len(os)]
    BY DEF Alembic!ExecAll
  <1> QED BY <1>6, <1>7, <1>8, <1>9

-----------------------------------------------------------------------------
(* What one statement does to the schema.                                    *)
IsDb(d) ==
    /\ d = [schemas |-> d.schemas, rels |-> d.rels, fks |-> d.fks, atts |-> d.atts,
            extension |-> d.extension, embedding |-> d.embedding, hnsw |-> d.hnsw,
            ver |-> d.ver, ok |-> d.ok]
    /\ d.ok \in BOOLEAN

Grows   == {"schema", "create", "view", "fk", "add", "addmissing"}
Vectors == {"extension", "embedding", "hnsw", "drophnsw"}
Drops   == {"drop", "droppresent", "cascade"}
SchemaDrops == {"rmschema", "rmschemacascade"}

NewSchemas(o) == IF o.do = "schema" THEN {o.on} ELSE {}
NewRels(o) == IF o.do \in {"create", "view"}
              THEN {[n |-> o.on, s |-> o.in, k |-> IF o.do = "view" THEN "view" ELSE "table"]} ELSE {}
NewFks(o)  == IF o.do \in {"create", "view", "fk"} THEN {[of |-> o.on, to |-> t] : t \in o.refs} ELSE {}
NewAtts(o) == IF o.do \in {"add", "addmissing"} THEN {[of |-> o.on, a |-> a] : a \in o.refs} ELSE {}

\* Statements that add.
LEMMA GrowEffect ==
    ASSUME NEW d, IsDb(d), NEW o, o.do \in Grows
    PROVE  LET e == Alembic!Effect(d, o) IN
           /\ IsDb(e) /\ e.ok = d.ok /\ e.ver = d.ver
           /\ e.schemas = d.schemas \cup NewSchemas(o) /\ e.rels = d.rels \cup NewRels(o)
           /\ e.fks = d.fks \cup NewFks(o) /\ e.atts = d.atts \cup NewAtts(o)
  <1>1. CASE o.do = "schema"
    BY <1>1 DEF Alembic!Effect, IsDb, NewSchemas, NewRels, NewFks, NewAtts
  <1>2. CASE o.do \in {"create", "view"}
    BY <1>2 DEF Alembic!Effect, IsDb, NewSchemas, NewRels, NewFks, NewAtts
  <1>3. CASE o.do = "fk"
    BY <1>3 DEF Alembic!Effect, IsDb, NewSchemas, NewRels, NewFks, NewAtts
  <1>4. CASE o.do \in {"add", "addmissing"}
    BY <1>4 DEF Alembic!Effect, IsDb, NewSchemas, NewRels, NewFks, NewAtts
  <1> QED BY <1>1, <1>2, <1>3, <1>4 DEF Grows

\* Statements about the extension and the embedding.
LEMMA VectorEffect ==
    ASSUME NEW d, IsDb(d), NEW o, o.do \in Vectors
    PROVE  LET e == Alembic!Effect(d, o) IN
           /\ IsDb(e) /\ e.ok = d.ok /\ e.ver = d.ver
           /\ e.schemas = d.schemas /\ e.rels = d.rels /\ e.fks = d.fks /\ e.atts = d.atts
  BY DEF Alembic!Effect, IsDb, Vectors

\* What DROP of the relations ns takes away: the views over them too.
Dropped(d, ns) == ns \cup {r.n : r \in {x \in d.rels : x.k = "view"
                                    /\ \E f \in d.fks : f.of = x.n /\ f.to \in ns}}

\* DROP ... CASCADE of some relations.
LEMMA WithoutIs ==
    ASSUME NEW d, IsDb(d), NEW ns
    PROVE  LET e == Alembic!Without(d, ns) gone == Dropped(d, ns) IN
           /\ IsDb(e) /\ e.ok = d.ok /\ e.ver = d.ver /\ e.schemas = d.schemas
           /\ e.rels = {r \in d.rels : r.n \notin gone}
           /\ e.fks = {f \in d.fks : f.of \notin gone /\ f.to \notin gone}
           /\ e.atts = {a \in d.atts : a.of \notin gone}
  <1> DEFINE g == Dropped(d, ns)
  <1>1. Alembic!Without(d, ns) = [d EXCEPT !.rels = {r \in @ : r.n \notin g},
                                           !.fks  = {f \in @ : f.of \notin g /\ f.to \notin g},
                                           !.atts = {a \in @ : a.of \notin g}]
    BY DEF Alembic!Without, Dropped
  <1> HIDE DEF g
  <1>2. /\ IsDb(Alembic!Without(d, ns))
        /\ Alembic!Without(d, ns).ok = d.ok /\ Alembic!Without(d, ns).ver = d.ver
        /\ Alembic!Without(d, ns).schemas = d.schemas
        /\ Alembic!Without(d, ns).rels = {r \in d.rels : r.n \notin g}
        /\ Alembic!Without(d, ns).fks = {f \in d.fks : f.of \notin g /\ f.to \notin g}
        /\ Alembic!Without(d, ns).atts = {a \in d.atts : a.of \notin g}
    BY <1>1 DEF IsDb
  <1> QED BY <1>2 DEF g

\* DROP TABLE or VIEW.
LEMMA DropEffect ==
    ASSUME NEW d, IsDb(d), NEW o, o.do \in Drops
    PROVE  LET e == Alembic!Effect(d, o) gone == Dropped(d, {o.on}) IN
           /\ IsDb(e) /\ e.ok = d.ok /\ e.ver = d.ver /\ e.schemas = d.schemas
           /\ e.rels = {r \in d.rels : r.n \notin gone}
           /\ e.fks = {f \in d.fks : f.of \notin gone /\ f.to \notin gone}
           /\ e.atts = {a \in d.atts : a.of \notin gone}
  <1> DEFINE x == Alembic!Without(d, {o.on})
  <1>1. Alembic!Effect(d, o) = [x EXCEPT !.hnsw = @ /\ o.on # "chunk_embedding"]
    BY DEF Alembic!Effect, Drops
  <1>2. /\ IsDb(x) /\ x.ok = d.ok /\ x.ver = d.ver /\ x.schemas = d.schemas
        /\ x.rels = {r \in d.rels : r.n \notin Dropped(d, {o.on})}
        /\ x.fks = {f \in d.fks : f.of \notin Dropped(d, {o.on}) /\ f.to \notin Dropped(d, {o.on})}
        /\ x.atts = {a \in d.atts : a.of \notin Dropped(d, {o.on})}
    BY WithoutIs
  <1> HIDE DEF x
  <1>3. /\ IsDb(Alembic!Effect(d, o)) /\ Alembic!Effect(d, o).ok = x.ok /\ Alembic!Effect(d, o).ver = x.ver
        /\ Alembic!Effect(d, o).schemas = x.schemas /\ Alembic!Effect(d, o).rels = x.rels
        /\ Alembic!Effect(d, o).fks = x.fks /\ Alembic!Effect(d, o).atts = x.atts
    BY <1>1, <1>2 DEF IsDb
  <1> QED BY <1>2, <1>3

\* DROP SCHEMA.
LEMMA SchemaDropEffect ==
    ASSUME NEW d, IsDb(d), NEW o, o.do \in SchemaDrops
    PROVE  LET e == Alembic!Effect(d, o)
               gone == Dropped(d, {r.n : r \in {x \in d.rels : x.s = o.on}}) IN
           /\ IsDb(e) /\ e.ok = d.ok /\ e.ver = d.ver /\ e.schemas = d.schemas \ {o.on}
           /\ e.rels = {r \in d.rels : r.n \notin gone}
           /\ e.fks = {f \in d.fks : f.of \notin gone /\ f.to \notin gone}
           /\ e.atts = {a \in d.atts : a.of \notin gone}
  <1> DEFINE ns == {r.n : r \in {x \in d.rels : x.s = o.on}}
             g == Dropped(d, ns)
             x == Alembic!Without(d, ns)
  <1>1. Alembic!Effect(d, o) = [x EXCEPT !.schemas = @ \ {o.on}, !.hnsw = @ /\ o.on # "retrieval"]
    BY DEF Alembic!Effect, SchemaDrops
  <1>2. /\ IsDb(x) /\ x.ok = d.ok /\ x.ver = d.ver /\ x.schemas = d.schemas
        /\ x.rels = {r \in d.rels : r.n \notin g}
        /\ x.fks = {f \in d.fks : f.of \notin g /\ f.to \notin g}
        /\ x.atts = {a \in d.atts : a.of \notin g}
    BY WithoutIs
  <1> HIDE DEF x
  <1>3. /\ IsDb(Alembic!Effect(d, o)) /\ Alembic!Effect(d, o).ok = x.ok /\ Alembic!Effect(d, o).ver = x.ver
        /\ Alembic!Effect(d, o).schemas = x.schemas \ {o.on} /\ Alembic!Effect(d, o).rels = x.rels
        /\ Alembic!Effect(d, o).fks = x.fks /\ Alembic!Effect(d, o).atts = x.atts
    BY <1>1, <1>2 DEF IsDb
  <1> HIDE DEF g
  <1>4. /\ Alembic!Effect(d, o).rels = {r \in d.rels : r.n \notin g}
        /\ Alembic!Effect(d, o).fks = {f \in d.fks : f.of \notin g /\ f.to \notin g}
        /\ Alembic!Effect(d, o).atts = {a \in d.atts : a.of \notin g}
    BY <1>2, <1>3
  <1> QED BY <1>2, <1>3, <1>4 DEF g

\* Columns, constraints and indexes that are dropped.
LEMMA DelEffect ==
    ASSUME NEW d, IsDb(d), NEW o, o.do \in {"del", "delpresent"}
    PROVE  LET e == Alembic!Effect(d, o) IN
           /\ IsDb(e) /\ e.ok = d.ok /\ e.ver = d.ver /\ e.schemas = d.schemas /\ e.rels = d.rels
           /\ e.fks = d.fks /\ e.atts = d.atts \ {[of |-> o.on, a |-> a] : a \in o.refs}
  BY DEF Alembic!Effect, IsDb

\* A trigger or constraint that is dropped.
LEMMA UnlinkEffect ==
    ASSUME NEW d, IsDb(d), NEW o, o.do = "unlink"
    PROVE  LET e == Alembic!Effect(d, o) IN
           /\ IsDb(e) /\ e.ok = d.ok /\ e.ver = d.ver /\ e.schemas = d.schemas /\ e.rels = d.rels
           /\ e.fks = d.fks \ {[of |-> o.on, to |-> t] : t \in o.refs} /\ e.atts = d.atts
  BY DEF Alembic!Effect, IsDb

\* A statement succeeds, or leaves a doomed transaction as it was.
LEMMA ExecIs ==
    ASSUME NEW d, IsDb(d), NEW o
    PROVE  LET e == Alembic!Exec(d, o) IN
           /\ d.ok /\ Alembic!Legal(d, o) => e = Alembic!Effect(d, o)
           /\ ~(d.ok /\ Alembic!Legal(d, o)) => IsDb(e) /\ ~e.ok /\ e.ver = d.ver
  BY DEF Alembic!Exec, IsDb

\* Any statement of the chain leaves a database, at the same version.
Kinds == Grows \cup Vectors \cup Drops \cup SchemaDrops \cup {"del", "delpresent", "unlink"}
AllKnown(os) == Len(os) \in Nat /\ \A k \in 1 .. Len(os) : os[k].do \in Kinds

\* One statement.
LEMMA KnownStep ==
    ASSUME NEW x, IsDb(x), NEW o, o.do \in Kinds
    PROVE  IsDb(Alembic!Exec(x, o)) /\ Alembic!Exec(x, o).ver = x.ver
  <1> DEFINE y == Alembic!Exec(x, o)
  <1>1. CASE ~(x.ok /\ Alembic!Legal(x, o))
    BY <1>1, ExecIs
  <1>2. CASE x.ok /\ Alembic!Legal(x, o)
    <2>1. y = Alembic!Effect(x, o)
      BY <1>2, ExecIs
    <2> HIDE DEF y
    <2>2. CASE o.do \in Grows
      <3>1. IsDb(y) /\ y.ver = x.ver
        BY <2>1, <2>2, GrowEffect
      <3> QED BY <3>1 DEF y
    <2>3. CASE o.do \in Vectors
      <3>1. IsDb(y) /\ y.ver = x.ver
        BY <2>1, <2>3, VectorEffect
      <3> QED BY <3>1 DEF y
    <2>4. CASE o.do \in Drops
      <3>1. IsDb(y) /\ y.ver = x.ver
        BY <2>1, <2>4, DropEffect
      <3> QED BY <3>1 DEF y
    <2>5. CASE o.do \in SchemaDrops
      <3>1. IsDb(y) /\ y.ver = x.ver
        BY <2>1, <2>5, SchemaDropEffect
      <3> QED BY <3>1 DEF y
    <2>6. CASE o.do \in {"del", "delpresent"}
      <3>1. IsDb(y) /\ y.ver = x.ver
        BY <2>1, <2>6, DelEffect
      <3> QED BY <3>1 DEF y
    <2>7. CASE o.do = "unlink"
      <3>1. IsDb(y) /\ y.ver = x.ver
        BY <2>1, <2>7, UnlinkEffect
      <3> QED BY <3>1 DEF y
    <2> QED BY <2>2, <2>3, <2>4, <2>5, <2>6, <2>7 DEF Kinds
  <1> QED BY <1>1, <1>2

\* A revision.
LEMMA KnownRun ==
    ASSUME NEW w, IsDb(w), NEW os, AllKnown(os)
    PROVE  IsDb(Alembic!ExecAll(w, os)) /\ Alembic!ExecAll(w, os).ver = w.ver
  <1> DEFINE L == Len(os)
             X(n) == Alembic!Running(w, os)[n]
             S == {n \in Nat : n <= L => IsDb(X(n)) /\ X(n).ver = w.ver}
  <1>0. L \in Nat
    BY DEF AllKnown
  <1>1. 0 \in S
    <2>1. X(0) = w
      BY <1>0, RunningSteps
    <2> HIDE DEF X
    <2> QED BY <2>1
  <1>2. ASSUME NEW n \in Nat, n \in S PROVE n + 1 \in S
    <2> SUFFICES ASSUME n + 1 <= L PROVE IsDb(X(n + 1)) /\ X(n + 1).ver = w.ver
      OBVIOUS
    <2>1. IsDb(X(n)) /\ X(n).ver = w.ver /\ n \in 0 .. L - 1 /\ n + 1 \in 1 .. L
      BY <1>0, <1>2
    <2>2. X(n + 1) = Alembic!Exec(X(n), os[n + 1])
      BY <1>0, <2>1, RunningSteps
    <2>3. os[n + 1].do \in Kinds
      BY <2>1 DEF AllKnown
    <2> HIDE DEF X
    <2> QED BY <2>1, <2>2, <2>3, KnownStep
  <1> HIDE DEF S
  <1>3. L \in S
    BY <1>0, <1>1, <1>2, Induction
  <1>4. X(L) = Alembic!ExecAll(w, os)
    BY <1>0, RunningSteps
  <1> HIDE DEF X
  <1> QED BY <1>0, <1>3, <1>4 DEF S

VersionName == "alembic_version"

\* The database of a command and one that only upgrades have made differ in the
\* table of the version row alone.
Same(w, d) ==
    /\ w.schemas = d.schemas /\ w.fks = d.fks /\ w.atts = d.atts
    /\ Alembic!VersionTable \in w.rels /\ w.rels \ {Alembic!VersionTable} = d.rels

\* A statement of an upgrade that the extension has no part in.
Plain(o) == o.do \in Grows /\ o.on # VersionName /\ VersionName \notin o.refs
AllPlain(os) == Len(os) \in Nat /\ \A k \in 1 .. Len(os) : Plain(os[k])

\* The version table is the only relation more.
LEMMA SameNames ==
    ASSUME NEW w, NEW d, Same(w, d)
    PROVE  Alembic!Names(w) = Alembic!Names(d) \cup {VersionName}
  <1>1. Alembic!VersionTable.n = VersionName
    BY DEF Alembic!VersionTable, VersionName
  <1>2. \A r \in w.rels : r \in d.rels \/ r = Alembic!VersionTable
    BY DEF Same
  <1>3. \A r \in d.rels : r \in w.rels
    BY DEF Same
  <1>4. Alembic!VersionTable \in w.rels
    BY DEF Same
  <1> QED BY <1>1, <1>2, <1>3, <1>4 DEF Alembic!Names

\* A plain statement is legal in both or in neither.
LEMMA SameLegal ==
    ASSUME NEW w, NEW d, Same(w, d), NEW o, Plain(o)
    PROVE  Alembic!Legal(w, o) <=> Alembic!Legal(d, o)
  <1>1. Alembic!Names(w) = Alembic!Names(d) \cup {VersionName} /\ w.schemas = d.schemas /\ w.atts = d.atts
    BY SameNames DEF Same
  <1>2. o.on # VersionName /\ VersionName \notin o.refs
    BY DEF Plain
  <1>3. CASE o.do = "schema"
    BY <1>3 DEF Alembic!Legal
  <1>4. CASE o.do \in {"create", "view"}
    BY <1>1, <1>2, <1>4 DEF Alembic!Legal
  <1>5. CASE o.do = "fk"
    BY <1>1, <1>2, <1>5 DEF Alembic!Legal
  <1>6. CASE o.do = "add"
    BY <1>1, <1>2, <1>6 DEF Alembic!Legal
  <1>7. CASE o.do = "addmissing"
    BY <1>1, <1>2, <1>7 DEF Alembic!Legal
  <1> QED BY <1>3, <1>4, <1>5, <1>6, <1>7 DEF Plain, Grows

\* A plain statement leaves them alike.
LEMMA SameStep ==
    ASSUME NEW w, IsDb(w), NEW d, IsDb(d), w.ok = d.ok, d.ok => Same(w, d), NEW o, Plain(o)
    PROVE  LET x == Alembic!Exec(w, o) y == Alembic!Exec(d, o) IN
           /\ IsDb(x) /\ IsDb(y) /\ x.ok = y.ok /\ x.ver = w.ver /\ y.ver = d.ver
           /\ y.ok => Same(x, y)
  <1> DEFINE x == Alembic!Exec(w, o)
             y == Alembic!Exec(d, o)
  <1>1. CASE d.ok /\ Alembic!Legal(d, o)
    <2>1. w.ok /\ Alembic!Legal(w, o) /\ Same(w, d)
      BY <1>1, SameLegal
    <2>2. x = Alembic!Effect(w, o) /\ y = Alembic!Effect(d, o)
      BY <1>1, <2>1, ExecIs
    <2> HIDE DEF x, y
    <2>3. o.do \in Grows
      BY DEF Plain
    <2>4. /\ IsDb(x) /\ x.ok = w.ok /\ x.ver = w.ver
          /\ x.schemas = w.schemas \cup NewSchemas(o) /\ x.rels = w.rels \cup NewRels(o)
          /\ x.fks = w.fks \cup NewFks(o) /\ x.atts = w.atts \cup NewAtts(o)
      BY <2>2, <2>3, GrowEffect
    <2>5. /\ IsDb(y) /\ y.ok = d.ok /\ y.ver = d.ver
          /\ y.schemas = d.schemas \cup NewSchemas(o) /\ y.rels = d.rels \cup NewRels(o)
          /\ y.fks = d.fks \cup NewFks(o) /\ y.atts = d.atts \cup NewAtts(o)
      BY <2>2, <2>3, GrowEffect
    <2>6. Alembic!VersionTable \notin NewRels(o)
      BY DEF NewRels, Plain, Alembic!VersionTable, VersionName
    <2>7. Same(x, y)
      BY <2>1, <2>4, <2>5, <2>6 DEF Same
    <2> QED BY <2>4, <2>5, <2>7 DEF x, y
  <1>2. CASE ~(d.ok /\ Alembic!Legal(d, o))
    <2>1. ~(w.ok /\ Alembic!Legal(w, o))
      BY <1>2, SameLegal
    <2>2. IsDb(x) /\ ~x.ok /\ x.ver = w.ver /\ IsDb(y) /\ ~y.ok /\ y.ver = d.ver
      BY <1>2, <2>1, ExecIs
    <2>3. x.ok = y.ok
      BY <2>2 DEF IsDb
    <2> QED BY <2>2, <2>3
  <1> QED BY <1>1, <1>2

\* A revision of plain statements leaves them alike.
LEMMA SameRun ==
    ASSUME NEW w, IsDb(w), NEW d, IsDb(d), w.ok = d.ok, d.ok => Same(w, d), NEW os, AllPlain(os)
    PROVE  LET x == Alembic!ExecAll(w, os) y == Alembic!ExecAll(d, os) IN
           /\ IsDb(x) /\ IsDb(y) /\ x.ok = y.ok /\ x.ver = w.ver /\ y.ver = d.ver
           /\ y.ok => Same(x, y)
  <1> DEFINE L == Len(os)
             X(n) == Alembic!Running(w, os)[n]
             Y(n) == Alembic!Running(d, os)[n]
             Alike(x, y) == /\ IsDb(x) /\ IsDb(y) /\ x.ok = y.ok /\ x.ver = w.ver /\ y.ver = d.ver
                            /\ y.ok => Same(x, y)
             S == {n \in Nat : n <= L => Alike(X(n), Y(n))}
  <1>0. L \in Nat
    BY DEF AllPlain
  <1>1. 0 \in S
    <2>1. X(0) = w /\ Y(0) = d
      BY <1>0, RunningSteps
    <2>2. Alike(w, d)
      OBVIOUS
    <2> HIDE DEF Alike, X, Y
    <2> QED BY <2>1, <2>2
  <1>2. ASSUME NEW n \in Nat, n \in S PROVE n + 1 \in S
    <2> SUFFICES ASSUME n + 1 <= L PROVE Alike(X(n + 1), Y(n + 1))
      OBVIOUS
    <2>1. Alike(X(n), Y(n)) /\ n \in 0 .. L - 1 /\ n + 1 \in 1 .. L
      BY <1>0, <1>2
    <2>2. X(n + 1) = Alembic!Exec(X(n), os[n + 1]) /\ Y(n + 1) = Alembic!Exec(Y(n), os[n + 1])
      BY <1>0, <2>1, RunningSteps
    <2>3. Plain(os[n + 1])
      BY <2>1 DEF AllPlain
    <2> HIDE DEF X, Y
    <2> QED BY <2>1, <2>2, <2>3, SameStep
  <1>3. Alike(X(L), Y(L))
    <2> HIDE DEF S
    <2>1. L \in S
      BY <1>0, <1>1, <1>2, Induction
    <2> QED BY <1>0, <2>1 DEF S
  <1>4. X(L) = Alembic!ExecAll(w, os) /\ Y(L) = Alembic!ExecAll(d, os)
    BY <1>0, RunningSteps
  <1> HIDE DEF X, Y
  <1> QED BY <1>3, <1>4

-----------------------------------------------------------------------------
(* What an upgrade adds.                                                     *)
Closed(d) ==
    /\ \A f \in d.fks : {f.of, f.to} \subseteq Alembic!Names(d)
    /\ \A a \in d.atts : a.of \in Alembic!Names(d)
    /\ \A r \in d.rels : r.s \in d.schemas

Schemas(os, k) == UNION {NewSchemas(os[i]) : i \in 1 .. k}
Rels(os, k) == UNION {NewRels(os[i]) : i \in 1 .. k}
Fks(os, k)  == UNION {NewFks(os[i]) : i \in 1 .. k}
Atts(os, k) == UNION {NewAtts(os[i]) : i \in 1 .. k}

\* An accepted statement adds what it names.
LEMMA GrowStep ==
    ASSUME NEW d, IsDb(d), d.ok, Closed(d), NEW o, Plain(o), Alembic!Legal(d, o)
    PROVE  LET e == Alembic!Exec(d, o) IN
           /\ IsDb(e) /\ e.ok /\ e.ver = d.ver /\ Closed(e)
           /\ e.schemas = d.schemas \cup NewSchemas(o) /\ e.rels = d.rels \cup NewRels(o)
           /\ e.fks = d.fks \cup NewFks(o) /\ e.atts = d.atts \cup NewAtts(o)
           /\ \A r \in NewRels(o) : r.n = o.on /\ o.on \notin Alembic!Names(d)
  <1> DEFINE e == Alembic!Exec(d, o)
  <1>1. o.do \in Grows
    BY DEF Plain
  <1>2. e = Alembic!Effect(d, o)
    BY ExecIs
  <1> HIDE DEF e
  <1>3. /\ IsDb(e) /\ e.ok /\ e.ver = d.ver
        /\ e.schemas = d.schemas \cup NewSchemas(o) /\ e.rels = d.rels \cup NewRels(o)
        /\ e.fks = d.fks \cup NewFks(o) /\ e.atts = d.atts \cup NewAtts(o)
    BY <1>1, <1>2, GrowEffect
  <1>4. \A r \in NewRels(o) : r.n = o.on /\ o.on \notin Alembic!Names(d)
    BY DEF NewRels, Alembic!Legal
  <1>5. Alembic!Names(e) = Alembic!Names(d) \cup {r.n : r \in NewRels(o)}
    BY <1>3 DEF Alembic!Names
  <1>6. Closed(e)
    <2>1. \A f \in NewFks(o) : {f.of, f.to} \subseteq Alembic!Names(e)
      <3>1. ASSUME o.do \in {"create", "view"} PROVE {o.on} \cup o.refs \subseteq Alembic!Names(e)
        <4>1. \E r \in NewRels(o) : r.n = o.on
          BY <3>1 DEF NewRels
        <4>2. o.refs \subseteq Alembic!Names(d) \cup {o.on}
          BY <3>1 DEF Alembic!Legal
        <4> QED BY <1>5, <4>1, <4>2
      <3>2. ASSUME o.do = "fk" PROVE {o.on} \cup o.refs \subseteq Alembic!Names(e)
        BY <1>5, <3>2 DEF Alembic!Legal
      <3> QED BY <3>1, <3>2 DEF NewFks
    <2>2. \A a \in NewAtts(o) : a.of \in Alembic!Names(e)
      <3>1. ASSUME o.do \in {"add", "addmissing"} PROVE o.on \in Alembic!Names(e)
        BY <1>5, <3>1 DEF Alembic!Legal
      <3> QED BY <3>1 DEF NewAtts
    <2>3. \A r \in NewRels(o) : r.s \in d.schemas
      BY DEF NewRels, Alembic!Legal
    <2>4. \A f \in d.fks : {f.of, f.to} \subseteq Alembic!Names(e)
      BY <1>5 DEF Closed
    <2>5. (\A a \in d.atts : a.of \in Alembic!Names(e)) /\ \A r \in d.rels : r.s \in d.schemas
      BY <1>5 DEF Closed
    <2> QED BY <1>3, <2>1, <2>2, <2>3, <2>4, <2>5 DEF Closed
  <1> QED BY <1>3, <1>4, <1>6 DEF e

Grown(d, e, os, k) ==
    /\ Closed(e)
    /\ e.schemas = d.schemas \cup Schemas(os, k) /\ e.rels = d.rels \cup Rels(os, k)
    /\ e.fks = d.fks \cup Fks(os, k) /\ e.atts = d.atts \cup Atts(os, k)
    /\ \A i \in 1 .. k : os[i].do \in {"create", "view"} => os[i].on \notin Alembic!Names(d)

\* One more statement has added what it names.
LEMMA GrownStep ==
    ASSUME NEW d, NEW e, IsDb(e), e.ok, NEW os, NEW k \in Nat, Grown(d, e, os, k),
           Plain(os[k + 1]), Alembic!Legal(e, os[k + 1])
    PROVE  LET f == Alembic!Exec(e, os[k + 1]) IN IsDb(f) /\ f.ok /\ f.ver = e.ver /\ Grown(d, f, os, k + 1)
  <1> DEFINE o == os[k + 1]
             f == Alembic!Exec(e, o)
  <1>0. Closed(e)
    BY DEF Grown
  <1>1. /\ IsDb(f) /\ f.ok /\ f.ver = e.ver /\ Closed(f)
        /\ f.schemas = e.schemas \cup NewSchemas(o) /\ f.rels = e.rels \cup NewRels(o)
        /\ f.fks = e.fks \cup NewFks(o) /\ f.atts = e.atts \cup NewAtts(o)
        /\ \A r \in NewRels(o) : r.n = o.on /\ o.on \notin Alembic!Names(e)
    BY <1>0, GrowStep
  <1> HIDE DEF f
  <1>2. 1 .. k + 1 = (1 .. k) \cup {k + 1}
    OBVIOUS
  <1>3. /\ Schemas(os, k + 1) = Schemas(os, k) \cup NewSchemas(o)
        /\ Rels(os, k + 1) = Rels(os, k) \cup NewRels(o)
        /\ Fks(os, k + 1) = Fks(os, k) \cup NewFks(o)
        /\ Atts(os, k + 1) = Atts(os, k) \cup NewAtts(o)
    BY <1>2 DEF Schemas, Rels, Fks, Atts
  <1>4. \A i \in 1 .. k + 1 : os[i].do \in {"create", "view"} => os[i].on \notin Alembic!Names(d)
    <2>1. ASSUME o.do \in {"create", "view"} PROVE o.on \notin Alembic!Names(d)
      <3>1. \E r \in NewRels(o) : r.n = o.on
        BY <2>1 DEF NewRels
      <3>2. o.on \notin Alembic!Names(e)
        BY <1>1, <3>1
      <3>3. d.rels \subseteq e.rels
        BY DEF Grown
      <3> QED BY <3>2, <3>3 DEF Alembic!Names
    <2> QED BY <1>2, <2>1 DEF Grown
  <1>5. Grown(d, f, os, k + 1)
    BY <1>1, <1>3, <1>4 DEF Grown
  <1> QED BY <1>1, <1>5 DEF f

\* A run that succeeded has added what its statements say, and created nothing
\* that was there.
LEMMA GrownRun ==
    ASSUME NEW d, IsDb(d), Closed(d), NEW os, AllPlain(os)
    PROVE  LET e == Alembic!ExecAll(d, os) IN
           /\ IsDb(e) /\ e.ver = d.ver
           /\ e.ok => d.ok /\ Grown(d, e, os, Len(os))
  <1> DEFINE L == Len(os)
             Y(n) == Alembic!Running(d, os)[n]
             Good(e, n) == /\ IsDb(e) /\ e.ver = d.ver
                           /\ e.ok => d.ok /\ Grown(d, e, os, n)
             S == {n \in Nat : n <= L => Good(Y(n), n)}
  <1>0. L \in Nat
    BY DEF AllPlain
  <1>1. 0 \in S
    <2>1. Y(0) = d
      BY <1>0, RunningSteps
    <2>2. Good(d, 0)
      BY DEF Grown, Schemas, Rels, Fks, Atts
    <2> HIDE DEF Good, Y
    <2> QED BY <2>1, <2>2
  <1>2. ASSUME NEW n \in Nat, n \in S PROVE n + 1 \in S
    <2> SUFFICES ASSUME n + 1 <= L PROVE Good(Y(n + 1), n + 1)
      OBVIOUS
    <2>1. Good(Y(n), n) /\ n \in 0 .. L - 1 /\ n + 1 \in 1 .. L
      BY <1>0, <1>2
    <2>2. Y(n + 1) = Alembic!Exec(Y(n), os[n + 1])
      BY <1>0, <2>1, RunningSteps
    <2>3. Plain(os[n + 1])
      BY <2>1 DEF AllPlain
    <2> HIDE DEF Y
    <2>4. CASE Y(n).ok /\ Alembic!Legal(Y(n), os[n + 1])
      BY <2>1, <2>2, <2>3, <2>4, GrownStep
    <2>5. CASE ~(Y(n).ok /\ Alembic!Legal(Y(n), os[n + 1]))
      BY <2>1, <2>2, <2>5, ExecIs
    <2> QED BY <2>4, <2>5
  <1>3. Good(Y(L), L)
    <2> HIDE DEF S
    <2>1. L \in S
      BY <1>0, <1>1, <1>2, Induction
    <2> QED BY <1>0, <2>1 DEF S
  <1>4. Y(L) = Alembic!ExecAll(d, os)
    BY <1>0, RunningSteps
  <1> HIDE DEF Y
  <1> QED BY <1>3, <1>4

-----------------------------------------------------------------------------
(* What a downgrade takes back.                                              *)
Fresh(d, e) == Alembic!Names(e) \ Alembic!Names(d)

\* Between the schema e that an upgrade of d has left and d itself.
Between(x, d, e) ==
    /\ d.schemas \subseteq x.schemas /\ x.schemas \subseteq e.schemas
    /\ d.rels \subseteq x.rels /\ Alembic!VersionTable \in x.rels
    /\ \A r \in x.rels : r \in d.rels \/ r = Alembic!VersionTable \/ r.n \in Fresh(d, e)
    /\ d.fks \subseteq x.fks /\ \A f \in x.fks : f \in d.fks \/ f.of \in Fresh(d, e)
    /\ d.atts \subseteq x.atts /\ x.atts \subseteq e.atts

\* The statement takes away what the upgrade has brought, and nothing else.
Undoes(o, d, e) ==
    \/ o.do \in Drops /\ o.on \in Fresh(d, e)
    \/ o.do \in SchemaDrops /\ o.on \notin d.schemas \cup {"governance"}
    \/ o.do \in {"del", "delpresent"} /\ \A a \in o.refs : [of |-> o.on, a |-> a] \notin d.atts
    \/ o.do \in Vectors

\* It is gone.
Undone(x, o) ==
    /\ o.do \in Drops => /\ o.on \notin Alembic!Names(x)
                         /\ \A f \in x.fks : f.of # o.on
                         /\ \A a \in x.atts : a.of # o.on
    /\ o.do \in SchemaDrops => o.on \notin x.schemas
    /\ o.do \in {"del", "delpresent"} => \A a \in o.refs : [of |-> o.on, a |-> a] \notin x.atts

Shrinks(x, y) == /\ y.schemas \subseteq x.schemas /\ y.rels \subseteq x.rels
                 /\ y.fks \subseteq x.fks /\ y.atts \subseteq x.atts

\* The version table is no relation of the chain.
New(d, e) == /\ IsDb(d) /\ Closed(d)
             /\ VersionName \notin Alembic!Names(d) /\ VersionName \notin Alembic!Names(e)

\* The drop of new relations takes new ones only.
LEMMA DroppedIsNew ==
    ASSUME NEW d, NEW e, New(d, e), NEW x, Between(x, d, e), NEW ns, ns \subseteq Fresh(d, e)
    PROVE  Dropped(x, ns) \subseteq Fresh(d, e)
  <1> SUFFICES ASSUME NEW r \in x.rels, NEW f \in x.fks, f.of = r.n, f.to \in ns
               PROVE  r.n \in Fresh(d, e)
    BY DEF Dropped
  <1>1. f.to \notin Alembic!Names(d)
    BY DEF Fresh
  <1>2. f \notin d.fks
    BY <1>1 DEF New, Closed
  <1> QED BY <1>2 DEF Between

\* What the drop of new relations leaves is between the two still.
LEMMA DroppedLeaves ==
    ASSUME NEW d, NEW e, New(d, e), NEW x, Between(x, d, e), NEW g, g \subseteq Fresh(d, e),
           NEW y, y.schemas \subseteq x.schemas, d.schemas \subseteq y.schemas,
           y.rels = {r \in x.rels : r.n \notin g},
           y.fks = {f \in x.fks : f.of \notin g /\ f.to \notin g},
           y.atts = {a \in x.atts : a.of \notin g}
    PROVE  Between(y, d, e) /\ Shrinks(x, y)
  <1>1. \A n \in g : n \notin Alembic!Names(d) /\ n # VersionName
    BY DEF New, Fresh
  <1>2. \A r \in d.rels : r.n \in Alembic!Names(d)
    BY DEF Alembic!Names
  <1>3. d.rels \subseteq y.rels
    BY <1>1, <1>2 DEF Between
  <1>4. Alembic!VersionTable \in y.rels
    BY <1>1 DEF Between, Alembic!VersionTable, VersionName
  <1>5. d.fks \subseteq y.fks
    BY <1>1 DEF Between, New, Closed
  <1>6. d.atts \subseteq y.atts
    BY <1>1 DEF Between, New, Closed
  <1>7. Shrinks(x, y)
    BY DEF Shrinks
  <1> QED BY <1>3, <1>4, <1>5, <1>6, <1>7 DEF Between, Shrinks

\* One statement of a downgrade takes nothing old, and what it names is gone.
LEMMA UndoStep ==
    ASSUME NEW d, NEW e, New(d, e), NEW x, IsDb(x), Between(x, d, e), NEW o, Undoes(o, d, e),
           x.ok, Alembic!Legal(x, o)
    PROVE  LET y == Alembic!Exec(x, o) IN
           IsDb(y) /\ y.ver = x.ver /\ Between(y, d, e) /\ Shrinks(x, y) /\ Undone(y, o)
  <1> DEFINE y == Alembic!Exec(x, o)
  <1>1. y = Alembic!Effect(x, o)
    BY ExecIs
  <1> HIDE DEF y
  <1>2. CASE o.do \in Drops /\ o.on \in Fresh(d, e)
    <2> DEFINE g == Dropped(x, {o.on})
    <2>1. /\ IsDb(y) /\ y.ver = x.ver /\ y.schemas = x.schemas
          /\ y.rels = {r \in x.rels : r.n \notin g}
          /\ y.fks = {f \in x.fks : f.of \notin g /\ f.to \notin g}
          /\ y.atts = {a \in x.atts : a.of \notin g}
      BY <1>1, <1>2, DropEffect
    <2>2. g \subseteq Fresh(d, e)
      <3>1. {o.on} \subseteq Fresh(d, e)
        BY <1>2
      <3> QED BY <3>1, DroppedIsNew
    <2>3. o.on \in g
      BY DEF Dropped
    <2> HIDE DEF g
    <2>4. d.schemas \subseteq y.schemas
      BY <2>1 DEF Between
    <2>5. Between(y, d, e) /\ Shrinks(x, y)
      BY <2>1, <2>2, <2>4, DroppedLeaves
    <2>6. Undone(y, o)
      BY <1>2, <2>1, <2>3 DEF Undone, Alembic!Names, Drops, SchemaDrops
    <2> QED BY <2>1, <2>5, <2>6 DEF y
  <1>3. CASE o.do \in SchemaDrops /\ o.on \notin d.schemas \cup {"governance"}
    <2> DEFINE ns == {r.n : r \in {q \in x.rels : q.s = o.on}}
               g == Dropped(x, ns)
    <2>1. /\ IsDb(y) /\ y.ver = x.ver /\ y.schemas = x.schemas \ {o.on}
          /\ y.rels = {r \in x.rels : r.n \notin g}
          /\ y.fks = {f \in x.fks : f.of \notin g /\ f.to \notin g}
          /\ y.atts = {a \in x.atts : a.of \notin g}
      BY <1>1, <1>3, SchemaDropEffect
    <2>2. ns \subseteq Fresh(d, e)
      <3>1. ASSUME NEW q \in x.rels, q.s = o.on PROVE q.n \in Fresh(d, e)
        <4>1. q \notin d.rels
          BY <1>3, <3>1 DEF New, Closed
        <4>2. q # Alembic!VersionTable
          BY <1>3, <3>1 DEF Alembic!VersionTable
        <4> QED BY <4>1, <4>2 DEF Between
      <3> QED BY <3>1
    <2>3. g \subseteq Fresh(d, e)
      BY <2>2, DroppedIsNew
    <2> HIDE DEF g
    <2>4. d.schemas \subseteq y.schemas /\ y.schemas \subseteq x.schemas
      BY <1>3, <2>1 DEF Between
    <2>5. Between(y, d, e) /\ Shrinks(x, y)
      BY <2>1, <2>3, <2>4, DroppedLeaves
    <2>6. Undone(y, o)
      BY <1>3, <2>1 DEF Undone, Drops, SchemaDrops
    <2> QED BY <2>1, <2>5, <2>6 DEF y
  <1>4. CASE o.do \in {"del", "delpresent"} /\ \A a \in o.refs : [of |-> o.on, a |-> a] \notin d.atts
    <2>1. /\ IsDb(y) /\ y.ver = x.ver /\ y.schemas = x.schemas /\ y.rels = x.rels /\ y.fks = x.fks
          /\ y.atts = x.atts \ {[of |-> o.on, a |-> a] : a \in o.refs}
      <3>1. o.do \in {"del", "delpresent"}
        BY <1>4
      <3> QED BY <1>1, <3>1, DelEffect
    <2>2. Shrinks(x, y)
      BY <2>1 DEF Shrinks
    <2>3. Between(y, d, e)
      BY <1>4, <2>1 DEF Between
    <2>4. Undone(y, o)
      BY <1>4, <2>1 DEF Undone, Drops, SchemaDrops
    <2> QED BY <2>1, <2>2, <2>3, <2>4 DEF y
  <1>5. CASE o.do \in Vectors
    <2>1. /\ IsDb(y) /\ y.ver = x.ver
          /\ y.schemas = x.schemas /\ y.rels = x.rels /\ y.fks = x.fks /\ y.atts = x.atts
      BY <1>1, <1>5, VectorEffect
    <2>2. Shrinks(x, y) /\ Between(y, d, e) /\ Undone(y, o)
      BY <1>5, <2>1 DEF Shrinks, Between, Undone, Drops, SchemaDrops, Vectors
    <2> QED BY <2>1, <2>2 DEF y
  <1> QED BY <1>2, <1>3, <1>4, <1>5 DEF Undoes

\* What is gone does not come back.
LEMMA UndoneStays ==
    ASSUME NEW x, NEW y, Shrinks(x, y), NEW o, Undone(x, o)
    PROVE  Undone(y, o)
  <1>1. Alembic!Names(y) \subseteq Alembic!Names(x)
    BY DEF Shrinks, Alembic!Names
  <1> QED BY <1>1 DEF Shrinks, Undone

\* The statements from place j on take everything back, if they all succeed.
LEMMA UndoRun ==
    ASSUME NEW d, NEW e, New(d, e), NEW w, NEW ds, Len(ds) \in Nat, NEW j \in 0 .. Len(ds),
           IsDb(Alembic!Running(w, ds)[j]), Between(Alembic!Running(w, ds)[j], d, e),
           \A k \in j + 1 .. Len(ds) : Undoes(ds[k], d, e),
           Alembic!ExecAll(w, ds).ok
    PROVE  LET x == Alembic!ExecAll(w, ds) IN
           /\ IsDb(x) /\ x.ver = Alembic!Running(w, ds)[j].ver /\ Between(x, d, e)
           /\ \A k \in j + 1 .. Len(ds) : Undone(x, ds[k])
  <1> DEFINE L == Len(ds)
             X(n) == Alembic!Running(w, ds)[n]
             Good(x, k) == IsDb(x) /\ x.ver = X(j).ver /\ Between(x, d, e) /\ \A i \in j + 1 .. k : Undone(x, ds[i])
             S == {n \in Nat : j + n <= L => IsDb(X(j + n)) /\ (X(j + n).ok => Good(X(j + n), j + n))}
  <1>1. \A n \in 0 .. L - 1 : X(n + 1) = Alembic!Exec(X(n), ds[n + 1])
    BY RunningSteps
  <1>2. X(L) = Alembic!ExecAll(w, ds)
    BY RunningSteps
  <1>3. 0 \in S
    <2>1. Good(X(j), j)
      <3>1. \A i \in j + 1 .. j : FALSE
        OBVIOUS
      <3> HIDE DEF X
      <3> QED BY <3>1 DEF X
    <2>2. j + 0 = j
      OBVIOUS
    <2>3. IsDb(X(j))
      OBVIOUS
    <2> HIDE DEF X, Good
    <2> QED BY <2>1, <2>2, <2>3
  <1>4. ASSUME NEW n \in Nat, n \in S PROVE n + 1 \in S
    <2> SUFFICES ASSUME j + (n + 1) <= L
                 PROVE  /\ IsDb(X(j + (n + 1)))
                        /\ X(j + (n + 1)).ok => Good(X(j + (n + 1)), j + (n + 1))
      OBVIOUS
    <2> DEFINE k == j + n
    <2>1. j + (n + 1) = k + 1 /\ k \in 0 .. L - 1 /\ k + 1 \in j + 1 .. L /\ k <= L /\ k \in Nat
      OBVIOUS
    <2>2. X(k + 1) = Alembic!Exec(X(k), ds[k + 1])
      BY <1>1, <2>1
    <2>3. IsDb(X(k)) /\ (X(k).ok => Good(X(k), k))
      BY <1>4, <2>1
    <2> HIDE DEF X, k
    <2>4. CASE ~(X(k).ok /\ Alembic!Legal(X(k), ds[k + 1]))
      BY <2>1, <2>2, <2>3, <2>4, ExecIs
    <2>5. CASE X(k).ok /\ Alembic!Legal(X(k), ds[k + 1])
      <3>1. Good(X(k), k)
        BY <2>3, <2>5
      <3>2. Undoes(ds[k + 1], d, e)
        BY <2>1
      <3>3. /\ IsDb(X(k + 1)) /\ X(k + 1).ver = X(k).ver /\ Between(X(k + 1), d, e)
            /\ Shrinks(X(k), X(k + 1)) /\ Undone(X(k + 1), ds[k + 1])
        BY <2>2, <2>5, <3>1, <3>2, UndoStep
      <3>4. ASSUME NEW i \in j + 1 .. k + 1 PROVE Undone(X(k + 1), ds[i])
        <4>1. CASE i = k + 1
          BY <3>3, <4>1
        <4>2. CASE i # k + 1
          <5>1. i \in j + 1 .. k
            BY <2>1, <4>2
          <5>2. Undone(X(k), ds[i])
            BY <3>1, <5>1
          <5> QED BY <3>3, <5>2, UndoneStays
        <4> QED BY <4>1, <4>2
      <3> QED BY <2>1, <3>1, <3>3, <3>4
    <2> QED BY <2>4, <2>5
  <1>5. L - j \in Nat /\ j + (L - j) = L
    OBVIOUS
  <1>6. X(L).ok => Good(X(L), L)
    <2> HIDE DEF S
    <2>1. L - j \in S
      BY <1>3, <1>4, <1>5, Induction
    <2> HIDE DEF Good, X
    <2> QED BY <1>5, <2>1 DEF S
  <1> HIDE DEF X
  <1> QED BY <1>2, <1>6 DEF X

\* Every new thing has its statement.
AllUndone(ds, j, d, e) ==
    /\ \A n \in Fresh(d, e) : \E k \in j + 1 .. Len(ds) : ds[k].do \in Drops /\ ds[k].on = n
    /\ \A s \in e.schemas :
           s \in d.schemas \/ \E k \in j + 1 .. Len(ds) : ds[k].do \in SchemaDrops /\ ds[k].on = s
    /\ \A a \in e.atts :
           \/ a \in d.atts \/ a.of \in Fresh(d, e)
           \/ \E k \in j + 1 .. Len(ds) : /\ ds[k].do \in {"del", "delpresent"} /\ ds[k].on = a.of
                                          /\ a = [of |-> a.of, a |-> a.a] /\ a.a \in ds[k].refs

\* When all that is new is gone, the old is left.
LEMMA UndoneIsSame ==
    ASSUME NEW d, NEW e, New(d, e), Alembic!VersionTable \notin d.rels,
           NEW x, Between(x, d, e), NEW ds, NEW j, AllUndone(ds, j, d, e),
           \A k \in j + 1 .. Len(ds) : Undone(x, ds[k])
    PROVE  Same(x, d)
  <1>1. ASSUME NEW n \in Fresh(d, e)
        PROVE  /\ n \notin Alembic!Names(x)
               /\ \A f \in x.fks : f.of # n
               /\ \A a \in x.atts : a.of # n
    BY DEF AllUndone, Undone
  <1>2. x.rels \ {Alembic!VersionTable} = d.rels
    <2>1. \A r \in x.rels : r.n \in Alembic!Names(x)
      BY DEF Alembic!Names
    <2> QED BY <1>1, <2>1 DEF Between
  <1>3. x.fks = d.fks
    BY <1>1 DEF Between
  <1>4. x.atts = d.atts
    <2>1. ASSUME NEW a \in x.atts, a \notin d.atts PROVE FALSE
      <3>1. a \in e.atts /\ a.of \notin Fresh(d, e)
        BY <1>1, <2>1 DEF Between
      <3>2. PICK k \in j + 1 .. Len(ds) : /\ ds[k].do \in {"del", "delpresent"} /\ ds[k].on = a.of
                                          /\ a = [of |-> a.of, a |-> a.a] /\ a.a \in ds[k].refs
        BY <2>1, <3>1 DEF AllUndone
      <3>3. [of |-> ds[k].on, a |-> a.a] \notin x.atts
        BY <3>2 DEF Undone
      <3> QED BY <3>2, <3>3
    <2> QED BY <2>1 DEF Between
  <1>5. x.schemas = d.schemas
    <2>1. ASSUME NEW s \in x.schemas, s \notin d.schemas PROVE FALSE
      <3>1. s \in e.schemas
        BY <2>1 DEF Between
      <3>2. PICK k \in j + 1 .. Len(ds) : ds[k].do \in SchemaDrops /\ ds[k].on = s
        BY <2>1, <3>1 DEF AllUndone
      <3> QED BY <3>2 DEF Undone
    <2> QED BY <2>1 DEF Between
  <1> QED BY <1>2, <1>3, <1>4, <1>5 DEF Same, Between

-----------------------------------------------------------------------------
(* Accepted statements.                                                      *)
Ready(d, ns, ss, at) ==
    /\ IsDb(d) /\ d.ok /\ d.ver = 0 /\ Closed(d)
    /\ Alembic!Names(d) = ns /\ VersionName \notin ns
    /\ d.schemas = ss /\ d.atts = at

\* An accepted statement keeps a database ready.
LEMMA ReadyStep ==
    ASSUME NEW d, NEW ns, NEW ss, NEW at, Ready(d, ns, ss, at), NEW o, Plain(o), Alembic!Legal(d, o)
    PROVE  Ready(Alembic!Exec(d, o), ns \cup {x.n : x \in NewRels(o)}, ss \cup NewSchemas(o), at \cup NewAtts(o))
  <1> DEFINE e == Alembic!Exec(d, o)
  <1>1. /\ IsDb(e) /\ e.ok /\ e.ver = d.ver /\ Closed(e)
        /\ e.schemas = d.schemas \cup NewSchemas(o) /\ e.rels = d.rels \cup NewRels(o)
        /\ e.atts = d.atts \cup NewAtts(o)
    BY GrowStep DEF Ready
  <1> HIDE DEF e
  <1>2. Alembic!Names(e) = Alembic!Names(d) \cup {x.n : x \in NewRels(o)}
    BY <1>1 DEF Alembic!Names
  <1>3. VersionName \notin {x.n : x \in NewRels(o)}
    BY DEF NewRels, Plain
  <1>4. Ready(e, ns \cup {x.n : x \in NewRels(o)}, ss \cup NewSchemas(o), at \cup NewAtts(o))
    BY <1>1, <1>2, <1>3 DEF Ready
  <1> QED BY <1>4 DEF e

\* What the first k statements create.
Makes(o) == o.do \in {"create", "view"}
Of(n, A) == {[of |-> n, a |-> a] : a \in A}
Made(os, k)   == {os[i].on : i \in {j \in 1 .. k : Makes(os[j])}}
Opened(os, k) == {os[i].on : i \in {j \in 1 .. k : os[j].do = "schema"}}
Marked(os, k) == UNION {Of(os[i].on, os[i].refs) : i \in {j \in 1 .. k : os[j].do \in {"add", "addmissing"}}}

\* A statement of an upgrade that a schema with these relations, schemas and
\* columns accepts.
Accepted(o, ns, ss, at) ==
    /\ Plain(o)
    /\ Makes(o) => o.in \in ss /\ o.on \notin ns /\ o.refs \subseteq ns \cup {o.on}
    /\ o.do \in {"fk", "add", "addmissing"} => o.on \in ns
    /\ o.do = "fk" => o.refs \subseteq ns
    /\ o.do = "add" => \A a \in at : a.of # o.on

Checked(os, n, ns, ss, at) ==
    /\ IsSeq(os) /\ Len(os) = n
    /\ \A k \in 1 .. n :
          Accepted(os[k], ns \cup Made(os, k - 1), ss \cup Opened(os, k - 1), at \cup Marked(os, k - 1))

Leads(os, d, ns, ss, at) == AllPlain(os) /\ IsSeq(os) /\ Ready(Alembic!ExecAll(d, os), ns, ss, at)

\* An accepted statement makes what it names.
LEMMA CheckedStep ==
    ASSUME NEW d, NEW ns, NEW ss, NEW at, Ready(d, ns, ss, at), NEW o, Accepted(o, ns, ss, at)
    PROVE  Ready(Alembic!Exec(d, o), ns \cup (IF Makes(o) THEN {o.on} ELSE {}),
                 ss \cup (IF o.do = "schema" THEN {o.on} ELSE {}),
                 at \cup (IF o.do \in {"add", "addmissing"} THEN Of(o.on, o.refs) ELSE {}))
  <1>1. Plain(o) /\ o.do \in Grows
    BY DEF Accepted, Plain
  <1>2. Alembic!Legal(d, o)
    BY <1>1 DEF Accepted, Makes, Grows, Ready, Alembic!Legal
  <1>3. Ready(Alembic!Exec(d, o), ns \cup {x.n : x \in NewRels(o)}, ss \cup NewSchemas(o), at \cup NewAtts(o))
    BY <1>1, <1>2, ReadyStep
  <1>4. {x.n : x \in NewRels(o)} = IF Makes(o) THEN {o.on} ELSE {}
    <2>1. CASE Makes(o)
      BY <2>1 DEF NewRels, Makes
    <2>2. CASE ~Makes(o)
      BY <2>2 DEF NewRels, Makes
    <2> QED BY <2>1, <2>2
  <1> QED BY <1>3, <1>4 DEF NewSchemas, NewAtts, Of

\* Statements that are accepted one after the other lead on.
LEMMA CheckedRun ==
    ASSUME NEW d, NEW ns, NEW ss, NEW at, Ready(d, ns, ss, at),
           NEW os, NEW n \in Nat, Checked(os, n, ns, ss, at)
    PROVE  Leads(os, d, ns \cup Made(os, n), ss \cup Opened(os, n), at \cup Marked(os, n))
  <1> DEFINE X(k) == Alembic!Running(d, os)[k]
             S == {k \in Nat : k <= n => Ready(X(k), ns \cup Made(os, k), ss \cup Opened(os, k), at \cup Marked(os, k))}
  <1>0. /\ X(0) = d /\ X(n) = Alembic!ExecAll(d, os)
        /\ \A k \in 0 .. n - 1 : X(k + 1) = Alembic!Exec(X(k), os[k + 1])
    BY RunningSteps DEF Checked
  <1> HIDE DEF X
  <1>1. 0 \in S
    <2>1. Made(os, 0) = {} /\ Opened(os, 0) = {} /\ Marked(os, 0) = {}
      BY DEF Made, Opened, Marked
    <2> QED BY <1>0, <2>1
  <1>2. ASSUME NEW k \in Nat, k \in S PROVE k + 1 \in S
    <2> SUFFICES ASSUME k + 1 <= n
                 PROVE  Ready(X(k + 1), ns \cup Made(os, k + 1), ss \cup Opened(os, k + 1), at \cup Marked(os, k + 1))
      OBVIOUS
    <2> DEFINE o == os[k + 1]
    <2>1. /\ X(k + 1) = Alembic!Exec(X(k), o) /\ k + 1 \in 1 .. n /\ (k + 1) - 1 = k
          /\ Ready(X(k), ns \cup Made(os, k), ss \cup Opened(os, k), at \cup Marked(os, k))
      BY <1>0, <1>2
    <2>2. Accepted(o, ns \cup Made(os, k), ss \cup Opened(os, k), at \cup Marked(os, k))
      BY <2>1 DEF Checked
    <2>3. 1 .. k + 1 = (1 .. k) \cup {k + 1}
      OBVIOUS
    <2>4. Made(os, k + 1) = Made(os, k) \cup (IF Makes(o) THEN {o.on} ELSE {})
      BY <2>3 DEF Made
    <2>5. Opened(os, k + 1) = Opened(os, k) \cup (IF o.do = "schema" THEN {o.on} ELSE {})
      BY <2>3 DEF Opened
    <2>6. Marked(os, k + 1) = Marked(os, k) \cup (IF o.do \in {"add", "addmissing"} THEN Of(o.on, o.refs) ELSE {})
      BY <2>3 DEF Marked
    <2> HIDE DEF o
    <2>7. Ready(X(k + 1), (ns \cup Made(os, k)) \cup (IF Makes(o) THEN {o.on} ELSE {}),
                (ss \cup Opened(os, k)) \cup (IF o.do = "schema" THEN {o.on} ELSE {}),
                (at \cup Marked(os, k)) \cup (IF o.do \in {"add", "addmissing"} THEN Of(o.on, o.refs) ELSE {}))
      BY <2>1, <2>2, CheckedStep
    <2>8. /\ (ns \cup Made(os, k)) \cup (IF Makes(o) THEN {o.on} ELSE {}) = ns \cup Made(os, k + 1)
          /\ (ss \cup Opened(os, k)) \cup (IF o.do = "schema" THEN {o.on} ELSE {}) = ss \cup Opened(os, k + 1)
          /\ (at \cup Marked(os, k)) \cup (IF o.do \in {"add", "addmissing"} THEN Of(o.on, o.refs) ELSE {})
             = at \cup Marked(os, k + 1)
      BY <2>4, <2>5, <2>6
    <2> QED BY <2>7, <2>8
  <1>3. n \in S
    <2> HIDE DEF S
    <2> QED BY <1>1, <1>2, Induction
  <1>4. AllPlain(os) /\ IsSeq(os)
    BY DEF Checked, Accepted, AllPlain
  <1> QED BY <1>0, <1>3, <1>4 DEF Leads

\* The n statements of os lead from one schema to the next.
Runs(os, n, ns, ss, at, n2, s2, at2) ==
    /\ n \in Nat /\ Checked(os, n, ns, ss, at)
    /\ n2 = ns \cup Made(os, n) /\ s2 = ss \cup Opened(os, n) /\ at2 = at \cup Marked(os, n)

\* Where the statements lead from a database that is ready.
LEMMA RunsLead ==
    ASSUME NEW d, NEW ns, NEW ss, NEW at, Ready(d, ns, ss, at),
           NEW os, NEW n, NEW n2, NEW s2, NEW at2, Runs(os, n, ns, ss, at, n2, s2, at2)
    PROVE  Leads(os, d, n2, s2, at2)
  BY CheckedRun DEF Runs

-----------------------------------------------------------------------------
(* Two runs in a row.                                                        *)
\* No statement adds a key to a relation it finds.
Keyless(os) == Len(os) \in Nat /\ \A k \in 1 .. Len(os) : os[k].do # "fk"

\* The elements of a concatenation.
LEMMA ConcatIs ==
    ASSUME NEW s, IsSeq(s), NEW t, IsSeq(t)
    PROVE  /\ IsSeq(s \o t) /\ Len(s \o t) = Len(s) + Len(t)
           /\ \A i \in 1 .. Len(s) : (s \o t)[i] = s[i]
           /\ \A i \in 1 .. Len(t) : (s \o t)[Len(s) + i] = t[i]
  <1>1. PICK T : s \in Seq(T)
    BY SeqOfAny
  <1>2. PICK U : t \in Seq(U)
    BY SeqOfAny
  <1>3. s \in Seq(T \cup U) /\ t \in Seq(T \cup U)
    BY <1>1, <1>2, SeqMonotonic
  <1>4. /\ s \o t \in Seq(T \cup U) /\ Len(s \o t) = Len(s) + Len(t)
        /\ \A i \in 1 .. Len(s) + Len(t) : (s \o t)[i] = IF i <= Len(s) THEN s[i] ELSE t[i - Len(s)]
    BY <1>3, ConcatProperties
  <1>5. IsSeq(s \o t)
    BY <1>4, AnySeq
  <1>6. Len(s) \in Nat /\ Len(t) \in Nat
    BY DEF IsSeq
  <1>7. \A i \in 1 .. Len(s) : i \in 1 .. Len(s) + Len(t) /\ i <= Len(s)
    BY <1>6
  <1>8. \A i \in 1 .. Len(t) : /\ Len(s) + i \in 1 .. Len(s) + Len(t)
                               /\ ~(Len(s) + i <= Len(s)) /\ (Len(s) + i) - Len(s) = i
    BY <1>6
  <1> QED BY <1>4, <1>5, <1>7, <1>8

\* Two revisions' worth of statements run one after the other.
LEMMA RunsOn ==
    ASSUME NEW d, NEW s, IsSeq(s), NEW t, IsSeq(t)
    PROVE  Alembic!ExecAll(d, s \o t) = Alembic!ExecAll(Alembic!ExecAll(d, s), t)
  <1> DEFINE L == Len(s)
             m == Alembic!ExecAll(d, s)
             X(n) == Alembic!Running(d, s \o t)[n]
             Y(n) == Alembic!Running(d, s)[n]
             Z(n) == Alembic!Running(m, t)[n]
             S == {n \in Nat : n <= L => X(n) = Y(n)}
             T == {n \in Nat : n <= Len(t) => X(L + n) = Z(n)}
  <1>0. /\ L \in Nat /\ Len(t) \in Nat /\ Len(s \o t) = L + Len(t)
        /\ \A i \in 1 .. L : (s \o t)[i] = s[i]
        /\ \A i \in 1 .. Len(t) : (s \o t)[L + i] = t[i]
    BY ConcatIs DEF IsSeq
  <1>1. /\ X(0) = d /\ Alembic!ExecAll(d, s \o t) = X(L + Len(t))
        /\ \A n \in 0 .. L + Len(t) - 1 : X(n + 1) = Alembic!Exec(X(n), (s \o t)[n + 1])
    <2>1. Len(s \o t) \in Nat /\ Len(s \o t) = L + Len(t)
      BY <1>0
    <2> DEFINE u == s \o t
    <2>2. /\ Alembic!Running(d, u)[0] = d /\ Alembic!ExecAll(d, u) = Alembic!Running(d, u)[Len(u)]
          /\ \A n \in 0 .. Len(u) - 1 :
                Alembic!Running(d, u)[n + 1] = Alembic!Exec(Alembic!Running(d, u)[n], u[n + 1])
      <3>1. Len(u) \in Nat
        BY <2>1
      <3> HIDE DEF u
      <3> QED BY <3>1, RunningSteps
    <2>3. \A n \in 0 .. L + Len(t) - 1 : n \in 0 .. Len(u) - 1
      BY <2>1
    <2>4. X(0) = d
      BY <2>2
    <2>5. Alembic!ExecAll(d, u) = X(L + Len(t))
      BY <2>1, <2>2
    <2>6. \A n \in 0 .. L + Len(t) - 1 : X(n + 1) = Alembic!Exec(X(n), u[n + 1])
      BY <2>2, <2>3
    <2> QED BY <2>4, <2>5, <2>6
  <1>2. /\ Y(0) = d /\ Alembic!ExecAll(d, s) = Y(L)
        /\ \A n \in 0 .. L - 1 : Y(n + 1) = Alembic!Exec(Y(n), s[n + 1])
    BY <1>0, RunningSteps
  <1>3. /\ Z(0) = m /\ Alembic!ExecAll(m, t) = Z(Len(t))
        /\ \A n \in 0 .. Len(t) - 1 : Z(n + 1) = Alembic!Exec(Z(n), t[n + 1])
    BY <1>0, RunningSteps
  <1> HIDE DEF X, Y, Z, L
  <1>4. X(L) = m
    <2>1. 0 \in S
      BY <1>1, <1>2
    <2>2. ASSUME NEW n \in Nat, n \in S PROVE n + 1 \in S
      <3> SUFFICES ASSUME n + 1 <= L PROVE X(n + 1) = Y(n + 1)
        OBVIOUS
      <3>1. n \in 0 .. L + Len(t) - 1 /\ n \in 0 .. L - 1 /\ n + 1 \in 1 .. L /\ n <= L
        BY <1>0
      <3>2. X(n) = Y(n)
        BY <2>2, <3>1
      <3> QED BY <1>0, <1>1, <1>2, <3>1, <3>2
    <2> HIDE DEF S
    <2>3. L \in S
      BY <1>0, <2>1, <2>2, Induction
    <2> QED BY <1>0, <1>2, <2>3 DEF S
  <1> HIDE DEF m
  <1>5. X(L + Len(t)) = Z(Len(t))
    <2>1. 0 \in T
      BY <1>0, <1>3, <1>4
    <2>2. ASSUME NEW n \in Nat, n \in T PROVE n + 1 \in T
      <3> SUFFICES ASSUME n + 1 <= Len(t) PROVE X(L + (n + 1)) = Z(n + 1)
        OBVIOUS
      <3>1. /\ L + n \in 0 .. L + Len(t) - 1 /\ n \in 0 .. Len(t) - 1 /\ n + 1 \in 1 .. Len(t)
            /\ n <= Len(t) /\ L + (n + 1) = (L + n) + 1
        BY <1>0
      <3>2. X(L + n) = Z(n)
        BY <2>2, <3>1
      <3>3. X((L + n) + 1) = Alembic!Exec(X(L + n), (s \o t)[(L + n) + 1])
        BY <1>1, <3>1
      <3>4. (s \o t)[L + (n + 1)] = t[n + 1]
        BY <1>0, <3>1
      <3>5. Z(n + 1) = Alembic!Exec(Z(n), t[n + 1])
        BY <1>3, <3>1
      <3> QED BY <3>1, <3>2, <3>3, <3>4, <3>5
    <2> HIDE DEF T
    <2>3. Len(t) \in T
      BY <1>0, <2>1, <2>2, Induction
    <2> QED BY <1>0, <2>3 DEF T
  <1> QED BY <1>1, <1>3, <1>5 DEF m

\* Plain statements in a row.
LEMMA PlainOn ==
    ASSUME NEW s, IsSeq(s), NEW t, IsSeq(t)
    PROVE  /\ AllPlain(s) /\ AllPlain(t) => AllPlain(s \o t)
           /\ Keyless(s) /\ Keyless(t) => Keyless(s \o t)
  <1>1. /\ Len(s) \in Nat /\ Len(t) \in Nat /\ Len(s \o t) = Len(s) + Len(t)
        /\ \A i \in 1 .. Len(s) : (s \o t)[i] = s[i]
        /\ \A i \in 1 .. Len(t) : (s \o t)[Len(s) + i] = t[i]
    BY ConcatIs DEF IsSeq
  <1>2. \A k \in 1 .. Len(s \o t) :
            k \in 1 .. Len(s) \/ (k - Len(s) \in 1 .. Len(t) /\ k = Len(s) + (k - Len(s)))
    BY <1>1
  <1>3. \A k \in 1 .. Len(s \o t) : (\E i \in 1 .. Len(s) : (s \o t)[k] = s[i]) \/ \E i \in 1 .. Len(t) : (s \o t)[k] = t[i]
    <2> TAKE k \in 1 .. Len(s \o t)
    <2>1. CASE k \in 1 .. Len(s)
      BY <1>1, <2>1
    <2>2. CASE k - Len(s) \in 1 .. Len(t) /\ k = Len(s) + (k - Len(s))
      BY <1>1, <2>2
    <2> QED BY <1>2, <2>1, <2>2
  <1>4. Len(s \o t) \in Nat
    BY <1>1
  <1> QED BY <1>3, <1>4 DEF AllPlain, Keyless

\* One piece leads to where the next begins.
LEMMA LeadsOn ==
    ASSUME NEW d, NEW s, NEW ns, NEW ss, NEW at, Leads(s, d, ns, ss, at),
           NEW t, NEW n2, NEW s2, NEW at2, Leads(t, Alembic!ExecAll(d, s), n2, s2, at2)
    PROVE  Leads(s \o t, d, n2, s2, at2)
  <1>1. IsSeq(s) /\ IsSeq(t) /\ AllPlain(s) /\ AllPlain(t)
    BY DEF Leads
  <1>2. IsSeq(s \o t)
    BY <1>1, ConcatIs
  <1>3. AllPlain(s \o t)
    BY <1>1, PlainOn
  <1>4. Alembic!ExecAll(d, s \o t) = Alembic!ExecAll(Alembic!ExecAll(d, s), t)
    BY <1>1, RunsOn
  <1> QED BY <1>2, <1>3, <1>4 DEF Leads

\* One more piece.
LEMMA LeadsFurther ==
    ASSUME NEW d, NEW s, NEW ns, NEW ss, NEW at, Leads(s, d, ns, ss, at),
           NEW t, NEW n, NEW n2, NEW s2, NEW at2, Runs(t, n, ns, ss, at, n2, s2, at2)
    PROVE  Leads(s \o t, d, n2, s2, at2)
  <1>1. Ready(Alembic!ExecAll(d, s), ns, ss, at)
    BY DEF Leads
  <1> QED BY <1>1, RunsLead, LeadsOn

-----------------------------------------------------------------------------
(* The relations and columns of every revision; 0001 piece after piece.      *)
TaxonomyNames == {"taxonomy_domain", "taxonomy_term"}
DocsNames == TaxonomyNames \cup {"document", "document_version", "document_entity_binding"}
CollectionNames == DocsNames \cup {"discovery_source", "collection_run", "observed_fact", "evidence_artifact"}
GovernanceNames == CollectionNames \cup {"reconciliation_result", "policy_record", "approval_record"}
HostsNames == GovernanceNames \cup {"cluster", "host"}
MembershipNames == HostsNames \cup {"host_role_assignment", "cluster_membership", "host_hardware_snapshot"}
NetworkNames == MembershipNames \cup {"gpu_device", "network_segment", "network_interface"}
AddressesNames == NetworkNames \cup {"ip_address_assignment", "route_entry", "dns_resolver_state", "storage_asset"}
ServicesNames == AddressesNames \cup {"shared_service", "service_instance"}
ExposureNames == ServicesNames \cup {"service_exposure", "service_dependency"}
OwnershipNames == ExposureNames \cup {"ownership_assignment", "document_chunk", "chunk_embedding", "evidence_pack"}
PacksNames == OwnershipNames \cup {"evidence_pack_item", "prompt_template_registry", "agent_run"}
Names1 == PacksNames \cup {"action_request", "agent_evidence", "change_log"}

Names3 == Names1 \cup {"job_history", "worker_schedule"}
Schemas3 == Alembic!Schemas1 \cup {"worker"}
Atts3 == Of("job_history", {"ix_task_status", "ix_created_at"})
Atts4 == Atts3 \cup Of("shared_service", {"is_active"})
Names5 == Names3 \cup {"collector_agent", "collector_snapshot", "snapshot_diff"}
Atts5 == Atts4 \cup Of("collector_agent", {"ix_host_code", "ix_status"})
         \cup Of("collector_snapshot", {"uq_agent_snapshot_version", "ix_agent_kind", "ix_payload_hash"})
         \cup Of("snapshot_diff", {"ix_snapshot"})
ReviewNames == Names5 \cup {"hitl_item", "hitl_feedback", "audit_event"}
ReviewAtts == Atts5 \cup Of("hitl_item", {"ix_status", "ix_risk_class", "ix_created_at"})
              \cup Of("hitl_feedback", {"ix_item"}) \cup Of("audit_event", {"ix_created", "ix_actor", "ix_correlation"})
Names7 == ReviewNames \cup {"metric_point", "metric_point_month", "llm_call_log"}
Schemas7 == Schemas3 \cup {"telemetry"}
Atts7 == ReviewAtts \cup Of("metric_point", {"ix_host", "ix_name"})
         \cup Of("llm_call_log", {"ix_called", "ix_model", "ix_correlation", "ix_status"})
InsightNames == Names7 \cup {"insight", "report"}
Schemas8 == Schemas7 \cup {"cognitive"}
InsightAtts == Atts7 \cup Of("metric_point", {"idx_collected_brin"}) \cup Of("hitl_item", {"idx_status_priority"})
               \cup Of("llm_call_log", {"idx_model_time"}) \cup Of("insight", {"idx_active"})
Names8 == InsightNames \cup {"mv_fleet_health_live", "mv_llm_accuracy_daily"}
Atts8 == InsightAtts \cup Of("mv_fleet_health_live", {"ux_host"}) \cup Of("mv_llm_accuracy_daily", {"ux_day"})
Names9 == Names8 \cup {"ci_relationship"}
Atts9 == Atts8 \cup Of("ci_relationship", {"idx_source", "idx_target", "idx_type", "idx_active", "ux_dedup"})
Names10 == Names9 \cup {"slo_definition", "slo_measurement", "slo_measurement_month"}
Atts10 == Atts9 \cup Of("slo_definition", {"idx_service", "idx_active"}) \cup Of("slo_measurement", {"idx_slo_id"})
Names11 == Names10 \cup {"fn_hitl_item_updated_at"}
Atts11 == Atts10 \cup Of("hitl_item", {"updated_at"}) \cup Of("hitl_item", {"ck_status", "ck_risk_class", "ck_priority"})
          \cup Of("policy_record", {"rules_jsonb"})

\* Every statement finds what it needs: the lists are read one by one.
USE DEF Runs, Checked, Accepted, Made, Opened, Marked, Makes, Plain, Grows, Of, VersionName, IsSeq,
        Alembic!Relation, Alembic!View, Alembic!ForeignKey, Alembic!Schema, Alembic!Add, Alembic!AddMissing,
        Alembic!Schemas1, TaxonomyNames, DocsNames, CollectionNames, GovernanceNames, HostsNames,
        MembershipNames, NetworkNames, AddressesNames, ServicesNames, ExposureNames, OwnershipNames,
        PacksNames, Names1, Names3, Names5, ReviewNames, Names7, InsightNames, Names8, Names9, Names10,
        Names11, Schemas3, Schemas7, Schemas8, Atts3, Atts4, Atts5, ReviewAtts, Atts7, InsightAtts,
        Atts8, Atts9, Atts10, Atts11

\* 0001, the schemas.
LEMMA Up1SchemasRuns == Runs(Alembic!Up1Schemas, 7, {}, Alembic!Schemas1, {}, {}, Alembic!Schemas1, {})
  BY DEF Alembic!Up1Schemas

\* 0001, taxonomy.
LEMMA Up1TaxonomyRuns == Runs(Alembic!Up1Taxonomy, 2, {}, Alembic!Schemas1, {}, TaxonomyNames, Alembic!Schemas1, {})
  BY DEF Alembic!Up1Taxonomy

\* 0001, documents.
LEMMA Up1DocsRuns == Runs(Alembic!Up1Docs, 4, TaxonomyNames, Alembic!Schemas1, {}, DocsNames, Alembic!Schemas1, {})
  BY DEF Alembic!Up1Docs

\* 0001, collection runs and facts.
LEMMA Up1CollectionRuns == Runs(Alembic!Up1Collection, 4, DocsNames, Alembic!Schemas1, {}, CollectionNames, Alembic!Schemas1, {})
  BY DEF Alembic!Up1Collection

\* 0001, reconciliation, policies and approvals.
LEMMA Up1GovernanceRuns == Runs(Alembic!Up1Governance, 3, CollectionNames, Alembic!Schemas1, {}, GovernanceNames, Alembic!Schemas1, {})
  BY DEF Alembic!Up1Governance

\* 0001, clusters and hosts.
LEMMA Up1HostsRuns == Runs(Alembic!Up1Hosts, 2, GovernanceNames, Alembic!Schemas1, {}, HostsNames, Alembic!Schemas1, {})
  BY DEF Alembic!Up1Hosts

\* 0001, roles and memberships.
LEMMA Up1MembershipRuns == Runs(Alembic!Up1Membership, 3, HostsNames, Alembic!Schemas1, {}, MembershipNames, Alembic!Schemas1, {})
  BY DEF Alembic!Up1Membership

\* 0001, devices and networks.
LEMMA Up1NetworkRuns == Runs(Alembic!Up1Network, 3, MembershipNames, Alembic!Schemas1, {}, NetworkNames, Alembic!Schemas1, {})
  BY DEF Alembic!Up1Network

\* 0001, addresses, routes and storage.
LEMMA Up1AddressesRuns == Runs(Alembic!Up1Addresses, 4, NetworkNames, Alembic!Schemas1, {}, AddressesNames, Alembic!Schemas1, {})
  BY DEF Alembic!Up1Addresses

\* 0001, services and instances.
LEMMA Up1ServicesRuns == Runs(Alembic!Up1Services, 2, AddressesNames, Alembic!Schemas1, {}, ServicesNames, Alembic!Schemas1, {})
  BY DEF Alembic!Up1Services

\* 0001, exposures and dependencies.
LEMMA Up1ExposureRuns == Runs(Alembic!Up1Exposure, 2, ServicesNames, Alembic!Schemas1, {}, ExposureNames, Alembic!Schemas1, {})
  BY DEF Alembic!Up1Exposure

\* 0001, ownership and chunks.
LEMMA Up1OwnershipRuns == Runs(Alembic!Up1Ownership, 5, ExposureNames, Alembic!Schemas1, {}, OwnershipNames, Alembic!Schemas1, {})
  BY DEF Alembic!Up1Ownership

\* 0001, evidence packs and runs.
LEMMA Up1PacksRuns == Runs(Alembic!Up1Packs, 3, OwnershipNames, Alembic!Schemas1, {}, PacksNames, Alembic!Schemas1, {})
  BY DEF Alembic!Up1Packs

\* 0001, actions and the change log.
LEMMA Up1ControlRuns == Runs(Alembic!Up1Control, 3, PacksNames, Alembic!Schemas1, {}, Names1, Alembic!Schemas1, {})
  BY DEF Alembic!Up1Control

\* 0003.
LEMMA Up3Runs ==
    Runs(Alembic!Up3, 4, Names1, Alembic!Schemas1, {}, Names3, Schemas3, Atts3) /\ Keyless(Alembic!Up3)
  BY DEF Alembic!Up3, Keyless

\* 0004.
LEMMA Up4Runs ==
    Runs(Alembic!Up4, 1, Names3, Schemas3, Atts3, Names3, Schemas3, Atts4) /\ Keyless(Alembic!Up4)
  BY DEF Alembic!Up4, Keyless

\* 0005.
LEMMA Up5Runs ==
    Runs(Alembic!Up5, 6, Names3, Schemas3, Atts4, Names5, Schemas3, Atts5) /\ Keyless(Alembic!Up5)
  BY DEF Alembic!Up5, Keyless

\* 0007, governance.
LEMMA Up7GovernanceRuns ==
    Runs(Alembic!Up7Governance, 7, Names5, Schemas3, Atts5, ReviewNames, Schemas3, ReviewAtts) /\ Keyless(Alembic!Up7Governance)
  BY DEF Alembic!Up7Governance, Keyless

\* 0007, telemetry.
LEMMA Up7TelemetryRuns ==
    Runs(Alembic!Up7Telemetry, 6, ReviewNames, Schemas3, ReviewAtts, Names7, Schemas7, Atts7) /\ Keyless(Alembic!Up7Telemetry)
  BY DEF Alembic!Up7Telemetry, Keyless

\* 0008, tables.
LEMMA Up8TablesRuns ==
    Runs(Alembic!Up8Tables, 7, Names7, Schemas7, Atts7, InsightNames, Schemas8, InsightAtts) /\ Keyless(Alembic!Up8Tables)
  BY DEF Alembic!Up8Tables, Keyless

\* 0008, views.
LEMMA Up8ViewsRuns ==
    Runs(Alembic!Up8Views, 4, InsightNames, Schemas8, InsightAtts, Names8, Schemas8, Atts8) /\ Keyless(Alembic!Up8Views)
  BY DEF Alembic!Up8Views, Keyless

\* 0009.
LEMMA Up9Runs ==
    Runs(Alembic!Up9, 2, Names8, Schemas8, Atts8, Names9, Schemas8, Atts9) /\ Keyless(Alembic!Up9)
  BY DEF Alembic!Up9, Keyless

\* 0010.
LEMMA Up10Runs ==
    Runs(Alembic!Up10, 6, Names9, Schemas8, Atts9, Names10, Schemas8, Atts10) /\ Keyless(Alembic!Up10)
  BY DEF Alembic!Up10, Keyless

\* 0011.
LEMMA Up11Runs ==
    Runs(Alembic!Up11, 5, Names10, Schemas8, Atts10, Names11, Schemas8, Atts11)
  BY DEF Alembic!Up11

HIDE DEF Runs, Checked, Accepted, Made, Opened, Marked, Makes, Plain, Grows, Of, VersionName, IsSeq,
         Alembic!Relation, Alembic!View, Alembic!ForeignKey, Alembic!Schema, Alembic!Add, Alembic!AddMissing,
         Alembic!Schemas1, TaxonomyNames, DocsNames, CollectionNames, GovernanceNames, HostsNames,
         MembershipNames, NetworkNames, AddressesNames, ServicesNames, ExposureNames, OwnershipNames,
         PacksNames, Names1, Names3, Names5, ReviewNames, Names7, InsightNames, Names8, Names9, Names10,
         Names11, Schemas3, Schemas7, Schemas8, Atts3, Atts4, Atts5, ReviewAtts, Atts7, InsightAtts,
         Atts8, Atts9, Atts10, Atts11

\* 0001 as a whole.
LEMMA Up1Runs ==
    ASSUME NEW d, Ready(d, {}, Alembic!Schemas1, {})
    PROVE  Leads(Alembic!Up1, d, Names1, Alembic!Schemas1, {})
  <1> DEFINE Reaches(os, ns) == Leads(os, d, ns, Alembic!Schemas1, {})
             P1 == Alembic!Up1Schemas
             P2 == P1 \o Alembic!Up1Taxonomy
             P3 == P2 \o Alembic!Up1Docs
             P4 == P3 \o Alembic!Up1Collection
             P5 == P4 \o Alembic!Up1Governance
             P6 == P5 \o Alembic!Up1Hosts
             P7 == P6 \o Alembic!Up1Membership
             P8 == P7 \o Alembic!Up1Network
             P9 == P8 \o Alembic!Up1Addresses
             P10 == P9 \o Alembic!Up1Services
             P11 == P10 \o Alembic!Up1Exposure
             P12 == P11 \o Alembic!Up1Ownership
             P13 == P12 \o Alembic!Up1Packs
             P14 == P13 \o Alembic!Up1Control
  <1>1. Reaches(P1, {})
    BY Up1SchemasRuns, RunsLead
  <1>2. Reaches(P2, TaxonomyNames)
    BY <1>1, Up1TaxonomyRuns, LeadsFurther
  <1>3. Reaches(P3, DocsNames)
    BY <1>2, Up1DocsRuns, LeadsFurther
  <1>4. Reaches(P4, CollectionNames)
    BY <1>3, Up1CollectionRuns, LeadsFurther
  <1>5. Reaches(P5, GovernanceNames)
    BY <1>4, Up1GovernanceRuns, LeadsFurther
  <1>6. Reaches(P6, HostsNames)
    BY <1>5, Up1HostsRuns, LeadsFurther
  <1>7. Reaches(P7, MembershipNames)
    BY <1>6, Up1MembershipRuns, LeadsFurther
  <1>8. Reaches(P8, NetworkNames)
    BY <1>7, Up1NetworkRuns, LeadsFurther
  <1>9. Reaches(P9, AddressesNames)
    BY <1>8, Up1AddressesRuns, LeadsFurther
  <1>10. Reaches(P10, ServicesNames)
    BY <1>9, Up1ServicesRuns, LeadsFurther
  <1>11. Reaches(P11, ExposureNames)
    BY <1>10, Up1ExposureRuns, LeadsFurther
  <1>12. Reaches(P12, OwnershipNames)
    BY <1>11, Up1OwnershipRuns, LeadsFurther
  <1>13. Reaches(P13, PacksNames)
    BY <1>12, Up1PacksRuns, LeadsFurther
  <1>14. Reaches(P14, Names1)
    BY <1>13, Up1ControlRuns, LeadsFurther
  <1> QED BY <1>14 DEF Alembic!Up1

-----------------------------------------------------------------------------
(* What every revision leaves.                                               *)
Revision(v) == Alembic!SchemaAt[v]

\* The recursion over the revisions has a solution.
LEMMA SchemaAtIs ==
    /\ Revision(0) = [Alembic!EmptyDb EXCEPT !.schemas = Alembic!Schemas1]
    /\ \A v \in 1 .. 11 : Revision(v) = Alembic!ExecAll(Revision(v - 1), Alembic!Upgrade(v, FALSE))
  <1> DEFINE d == [Alembic!EmptyDb EXCEPT !.schemas = Alembic!Schemas1]
             Unfolded(f, v) == IF v = 0 THEN d ELSE Alembic!ExecAll(f[v - 1], Alembic!Upgrade(v, FALSE))
             Solves(g, N) == g = [v \in 0 .. N |-> Unfolded(g, v)]
             S == {N \in Nat : \E g : Solves(g, N)}
  <1> HIDE DEF d
  <1>1. 0 \in S
    <2> DEFINE h == [v \in 0 .. 0 |-> d]
    <2>1. Solves(h, 0)
      OBVIOUS
    <2> HIDE DEF h, Solves
    <2> QED BY <2>1
  <1>2. ASSUME NEW N \in Nat, N \in S PROVE N + 1 \in S
    <2>1. PICK g : Solves(g, N)
      BY <1>2
    <2> DEFINE h == [v \in 0 .. N + 1 |-> Unfolded(g, v)]
    <2>2. ASSUME NEW v \in 0 .. N + 1
          PROVE  Unfolded(h, v) = Unfolded(g, v)
      <3>1. CASE v = 0
        BY <3>1
      <3>2. CASE v # 0
        <4>1. v - 1 \in 0 .. N /\ v - 1 \in 0 .. N + 1
          BY <3>2
        <4>2. h[v - 1] = g[v - 1]
          BY <2>1, <4>1
        <4> HIDE DEF h
        <4> QED BY <3>2, <4>2
      <3> QED BY <3>1, <3>2
    <2> HIDE DEF Unfolded
    <2>3. Solves(h, N + 1) /\ N + 1 \in Nat
      BY <2>2
    <2> HIDE DEF h, Solves
    <2> QED BY <2>3
  <1>3. \E g : Solves(g, 11)
    <2> HIDE DEF S
    <2>1. 11 \in S
      BY <1>1, <1>2, Induction
    <2> QED BY <2>1 DEF S
  <1>4. Alembic!SchemaAt = CHOOSE g : Solves(g, 11)
    BY DEF Alembic!SchemaAt, Alembic!HeadRevision, d
  <1> HIDE DEF Solves
  <1>5. Solves(Alembic!SchemaAt, 11)
    BY <1>3, <1>4
  <1>6. \A v \in 0 .. 11 : Revision(v) = Unfolded(Alembic!SchemaAt, v)
    BY <1>5 DEF Solves, Revision
  <1>7. Revision(0) = d
    BY <1>6
  <1>8. ASSUME NEW v \in 1 .. 11
        PROVE  Revision(v) = Alembic!ExecAll(Revision(v - 1), Alembic!Upgrade(v, FALSE))
    <2>1. v \in 0 .. 11 /\ v # 0
      OBVIOUS
    <2> QED BY <1>6, <2>1 DEF Revision
  <1> QED BY <1>7, <1>8 DEF d

\* Before the first upgrade there are the seven schemas.
LEMMA Revision0 == Ready(Revision(0), {}, Alembic!Schemas1, {})
  <1> DEFINE d == Revision(0)
  <1>1. /\ d = [schemas |-> Alembic!Schemas1, rels |-> {}, fks |-> {}, atts |-> {}, extension |-> FALSE,
                embedding |-> Alembic!Text, hnsw |-> FALSE, ver |-> 0, ok |-> TRUE]
    BY SchemaAtIs DEF Alembic!EmptyDb
  <1> HIDE DEF d
  <1>2. IsDb(d) /\ d.ok /\ d.ver = 0 /\ d.schemas = Alembic!Schemas1 /\ d.atts = {}
    BY <1>1 DEF IsDb
  <1>3. Closed(d)
    BY <1>1 DEF Closed
  <1>4. Alembic!Names(d) = {}
    BY <1>1 DEF Alembic!Names
  <1> QED BY <1>2, <1>3, <1>4 DEF Ready, d

Reached(v, u, ns, ss, at) ==
    /\ AllPlain(Alembic!Upgrade(v, FALSE)) /\ Ready(Revision(v), ns, ss, at)
    /\ Revision(v) = Alembic!ExecAll(Revision(u), Alembic!Upgrade(v, FALSE))

\* A revision that runs the statements of os.
LEMMA RevisionIs ==
    ASSUME NEW v \in 1 .. 11, NEW u, u = v - 1, NEW os, Alembic!Upgrade(v, FALSE) = os,
           NEW ns, NEW ss, NEW at, Leads(os, Revision(u), ns, ss, at)
    PROVE  Reached(v, u, ns, ss, at)
  BY SchemaAtIs DEF Leads, Reached

\* A revision without statements.
LEMMA NothingRuns ==
    ASSUME NEW d, NEW ns, NEW ss, NEW at, Ready(d, ns, ss, at)
    PROVE  Leads(<< >>, d, ns, ss, at) /\ Alembic!ExecAll(d, << >>) = d
  <1>1. Len(<< >>) = 0 /\ IsSeq(<< >>)
    BY DEF IsSeq
  <1> QED BY <1>1, RunningSteps DEF Leads, AllPlain

\* Revision 0001 is reached, and this is what it has.
LEMMA Revision1 == Reached(1, 0, Names1, Alembic!Schemas1, {})
  BY Revision0, Up1Runs, RevisionIs DEF Alembic!Upgrade

\* Revision 0002 is reached, and this is what it has.
LEMMA Revision2 == Reached(2, 1, Names1, Alembic!Schemas1, {})
  BY Revision1, NothingRuns, RevisionIs DEF Reached, Alembic!Upgrade, Alembic!Up2

\* Revision 0003 is reached, and this is what it has.
LEMMA Revision3 == Reached(3, 2, Names3, Schemas3, Atts3) /\ Keyless(Alembic!Upgrade(3, FALSE))
  BY Revision2, Up3Runs, RunsLead, RevisionIs DEF Reached, Alembic!Upgrade

\* Revision 0004 is reached, and this is what it has.
LEMMA Revision4 == Reached(4, 3, Names3, Schemas3, Atts4) /\ Keyless(Alembic!Upgrade(4, FALSE))
  BY Revision3, Up4Runs, RunsLead, RevisionIs DEF Reached, Alembic!Upgrade

\* Revision 0005 is reached, and this is what it has.
LEMMA Revision5 == Reached(5, 4, Names5, Schemas3, Atts5) /\ Keyless(Alembic!Upgrade(5, FALSE))
  BY Revision4, Up5Runs, RunsLead, RevisionIs DEF Reached, Alembic!Upgrade

\* Revision 0006 is reached, and this is what it has.
LEMMA Revision6 == Reached(6, 5, Names5, Schemas3, Atts5)
  BY Revision5, NothingRuns, RevisionIs DEF Reached, Alembic!Upgrade, Alembic!Up6

\* Revision 0007 is reached, and this is what it has.
LEMMA Revision7 == Reached(7, 6, Names7, Schemas7, Atts7) /\ Keyless(Alembic!Upgrade(7, FALSE))
  <1> DEFINE a == Alembic!Up7Governance
             b == Alembic!Up7Telemetry
             os == a \o b
  <1>1. Leads(a, Revision(6), ReviewNames, Schemas3, ReviewAtts)
    BY Revision6, Up7GovernanceRuns, RunsLead DEF Reached
  <1>2. Leads(os, Revision(6), Names7, Schemas7, Atts7)
    BY <1>1, Up7TelemetryRuns, LeadsFurther
  <1>3. Keyless(os)
    BY Up7GovernanceRuns, Up7TelemetryRuns, PlainOn DEF Runs, Checked
  <1>4. Alembic!Upgrade(7, FALSE) = os /\ 7 \in 1 .. 11 /\ 6 = 7 - 1
    BY DEF Alembic!Upgrade
  <1> HIDE DEF os
  <1> QED BY <1>2, <1>3, <1>4, RevisionIs

\* Revision 0008 is reached, and this is what it has.
LEMMA Revision8 == Reached(8, 7, Names8, Schemas8, Atts8) /\ Keyless(Alembic!Upgrade(8, FALSE))
  <1> DEFINE a == Alembic!Up8Tables
             b == Alembic!Up8Views
             os == a \o b
  <1>1. Leads(a, Revision(7), InsightNames, Schemas8, InsightAtts)
    BY Revision7, Up8TablesRuns, RunsLead DEF Reached
  <1>2. Leads(os, Revision(7), Names8, Schemas8, Atts8)
    BY <1>1, Up8ViewsRuns, LeadsFurther
  <1>3. Keyless(os)
    BY Up8TablesRuns, Up8ViewsRuns, PlainOn DEF Runs, Checked
  <1>4. Alembic!Upgrade(8, FALSE) = os /\ 8 \in 1 .. 11 /\ 7 = 8 - 1
    BY DEF Alembic!Upgrade
  <1> HIDE DEF os
  <1> QED BY <1>2, <1>3, <1>4, RevisionIs

\* Revision 0009 is reached, and this is what it has.
LEMMA Revision9 == Reached(9, 8, Names9, Schemas8, Atts9) /\ Keyless(Alembic!Upgrade(9, FALSE))
  BY Revision8, Up9Runs, RunsLead, RevisionIs DEF Reached, Alembic!Upgrade

\* Revision 0010 is reached, and this is what it has.
LEMMA Revision10 == Reached(10, 9, Names10, Schemas8, Atts10) /\ Keyless(Alembic!Upgrade(10, FALSE))
  BY Revision9, Up10Runs, RunsLead, RevisionIs DEF Reached, Alembic!Upgrade

\* Revision 0011 is reached, and this is what it has.
LEMMA Revision11 == Reached(11, 10, Names11, Schemas8, Atts11)
  BY Revision10, Up11Runs, RunsLead, RevisionIs DEF Reached, Alembic!Upgrade

-----------------------------------------------------------------------------
(* Downgrades.                                                               *)

\* What an upgrade has added belongs to its own relations, keys apart.
LEMMA BroughtIs ==
    ASSUME NEW d, IsDb(d), Closed(d), NEW os, AllPlain(os),
           NEW e, e = Alembic!ExecAll(d, os), e.ok
    PROVE  /\ d.schemas \subseteq e.schemas /\ d.rels \subseteq e.rels
           /\ d.fks \subseteq e.fks /\ d.atts \subseteq e.atts
           /\ \A r \in e.rels : r \in d.rels \/ r.n \in Fresh(d, e)
           /\ \A f \in e.fks : \/ f \in d.fks \/ f.of \in Fresh(d, e)
                               \/ \E i \in 1 .. Len(os) : os[i].do = "fk" /\ f \in NewFks(os[i])
  <1>1. Grown(d, e, os, Len(os))
    BY GrownRun
  <1>2. ASSUME NEW i \in 1 .. Len(os), os[i].do \in {"create", "view"}
        PROVE  os[i].on \in Fresh(d, e)
    <2>1. PICK r \in NewRels(os[i]) : r.n = os[i].on
      BY <1>2 DEF NewRels
    <2>2. r \in e.rels
      BY <1>1, <2>1 DEF Grown, Rels
    <2>3. os[i].on \notin Alembic!Names(d)
      BY <1>1, <1>2 DEF Grown
    <2> QED BY <2>1, <2>2, <2>3 DEF Fresh, Alembic!Names
  <1>3. ASSUME NEW r \in e.rels, r \notin d.rels PROVE r.n \in Fresh(d, e)
    <2>1. PICK i \in 1 .. Len(os) : r \in NewRels(os[i])
      BY <1>1, <1>3 DEF Grown, Rels
    <2>2. os[i].do \in {"create", "view"} /\ r.n = os[i].on
      BY <2>1 DEF NewRels
    <2> QED BY <1>2, <2>2
  <1>4. ASSUME NEW f \in e.fks, f \notin d.fks
        PROVE  f.of \in Fresh(d, e) \/ \E i \in 1 .. Len(os) : os[i].do = "fk" /\ f \in NewFks(os[i])
    <2>1. PICK i \in 1 .. Len(os) : f \in NewFks(os[i])
      BY <1>1, <1>4 DEF Grown, Fks
    <2>2. os[i].do \in {"create", "view", "fk"} /\ f.of = os[i].on
      BY <2>1 DEF NewFks
    <2> QED BY <1>2, <2>1, <2>2
  <1> QED BY <1>1, <1>3, <1>4 DEF Grown

\* The state of a command that has come to schema d.
Follows(x, d, v) == IsDb(x) /\ x.ver = v /\ (x.ok => Same(x, d))

\* A downgrade that undoes everything leads back.
LEMMA DownRun ==
    ASSUME NEW d, NEW ns, NEW ss, NEW at, Ready(d, ns, ss, at), NEW os, AllPlain(os), Keyless(os),
           NEW e, NEW n2, NEW s2, NEW at2, Ready(e, n2, s2, at2), e = Alembic!ExecAll(d, os),
           NEW w, IsDb(w), Same(w, e),
           NEW ds, Len(ds) \in Nat, \A k \in 1 .. Len(ds) : Undoes(ds[k], d, e),
           AllUndone(ds, 0, d, e)
    PROVE  Follows(Alembic!ExecAll(w, ds), d, w.ver)
  <1>1. \A i \in 1 .. Len(os) : os[i].do # "fk"
    BY DEF Keyless
  <1>2. New(d, e)
    BY DEF Ready, New
  <1>3. Alembic!VersionTable \notin d.rels
    BY DEF Ready, Alembic!Names, Alembic!VersionTable, VersionName
  <1>4. Between(w, d, e)
    <2>1. /\ d.schemas \subseteq e.schemas /\ d.rels \subseteq e.rels
          /\ d.fks \subseteq e.fks /\ d.atts \subseteq e.atts
          /\ \A r \in e.rels : r \in d.rels \/ r.n \in Fresh(d, e)
          /\ \A f \in e.fks : f \in d.fks \/ f.of \in Fresh(d, e)
      BY <1>1, BroughtIs DEF Ready
    <2> QED BY <2>1 DEF Same, Between
  <1>5. Alembic!Running(w, ds)[0] = w
    BY RunningSteps
  <1>6. 0 \in 0 .. Len(ds) /\ 0 + 1 = 1
    OBVIOUS
  <1> DEFINE x == Alembic!ExecAll(w, ds)
  <1>7. IsDb(x) /\ x.ver = w.ver
    <2>1. AllKnown(ds)
      BY DEF AllKnown, Undoes, Kinds
    <2> QED BY <2>1, KnownRun
  <1>8. ASSUME x.ok PROVE Same(x, d)
    <2>1. /\ Between(x, d, e)
          /\ \A k \in 0 + 1 .. Len(ds) : Undone(x, ds[k])
      BY <1>2, <1>4, <1>5, <1>6, <1>8, UndoRun
    <2> HIDE DEF x
    <2> QED BY <1>2, <1>3, <2>1, UndoneIsSame
  <1> HIDE DEF x
  <1>9. Follows(x, d, w.ver)
    BY <1>7, <1>8 DEF Follows
  <1> QED BY <1>9 DEF x

\* The statements of ds take back what leads from d to e.
TakesBack(ds, j, d, e) ==
    /\ Len(ds) \in Nat /\ \A k \in j + 1 .. Len(ds) : Undoes(ds[k], d, e)
    /\ AllUndone(ds, j, d, e)

\* The lists are read one by one again.
USE DEF Ready, Fresh, TakesBack, Undoes, AllUndone, Drops, SchemaDrops, Of, Alembic!Schemas1,
        Alembic!Drop, Alembic!DropPresent, Alembic!DropCascade, Alembic!Del, Alembic!DelPresent,
        Alembic!DropSchema, Alembic!DropSchemaCascade, Alembic!Drops, Alembic!Cascades,
        TaxonomyNames, DocsNames, CollectionNames, GovernanceNames, HostsNames,
        MembershipNames, NetworkNames, AddressesNames, ServicesNames, ExposureNames, OwnershipNames,
        PacksNames, Names1, Names3, Names5, ReviewNames, Names7, InsightNames, Names8, Names9, Names10,
        Names11, Schemas3, Schemas7, Schemas8, Atts3, Atts4, Atts5, ReviewAtts, Atts7, InsightAtts,
        Atts8, Atts9, Atts10, Atts11

\* 0003 down names all that 0003 brought, and nothing older.
LEMMA Down3TakesBack ==
    ASSUME NEW d, Ready(d, Names1, Alembic!Schemas1, {}), NEW e, Ready(e, Names3, Schemas3, Atts3)
    PROVE  TakesBack(Alembic!Down3, 0, d, e)
  BY DEF Alembic!Down3

\* 0004 down names all that 0004 brought, and nothing older.
LEMMA Down4TakesBack ==
    ASSUME NEW d, Ready(d, Names3, Schemas3, Atts3), NEW e, Ready(e, Names3, Schemas3, Atts4)
    PROVE  TakesBack(Alembic!Down4, 0, d, e)
  BY DEF Alembic!Down4

\* 0005 down names all that 0005 brought, and nothing older.
LEMMA Down5TakesBack ==
    ASSUME NEW d, Ready(d, Names3, Schemas3, Atts4), NEW e, Ready(e, Names5, Schemas3, Atts5)
    PROVE  TakesBack(Alembic!Down5, 0, d, e)
  BY DEF Alembic!Down5

\* 0008 down names all that 0008 brought, and nothing older.
LEMMA Down8TakesBack ==
    ASSUME NEW d, Ready(d, Names7, Schemas7, Atts7), NEW e, Ready(e, Names8, Schemas8, Atts8)
    PROVE  TakesBack(Alembic!Down8, 0, d, e)
  BY DEF Alembic!Down8

\* 0009 down names all that 0009 brought, and nothing older.
LEMMA Down9TakesBack ==
    ASSUME NEW d, Ready(d, Names8, Schemas8, Atts8), NEW e, Ready(e, Names9, Schemas8, Atts9)
    PROVE  TakesBack(Alembic!Down9, 0, d, e)
  BY DEF Alembic!Down9

\* 0010 down names all that 0010 brought, and nothing older.
LEMMA Down10TakesBack ==
    ASSUME NEW d, Ready(d, Names9, Schemas8, Atts9), NEW e, Ready(e, Names10, Schemas8, Atts10)
    PROVE  TakesBack(Alembic!Down10, 0, d, e)
  BY DEF Alembic!Down10

\* 0011 down names all that 0011 brought, and nothing older.
LEMMA Down11TakesBack ==
    ASSUME NEW d, Ready(d, Names10, Schemas8, Atts10), NEW e, Ready(e, Names11, Schemas8, Atts11)
    PROVE  TakesBack(Alembic!Down11, 1, d, e)
  <1> DEFINE ds == Alembic!Down11
  <1>1. /\ Len(ds) = 5 /\ \A k \in 1 + 1 .. 5 : k \in {2, 3, 4, 5} /\ {2, 3, 4, 5} \subseteq 1 + 1 .. 5
        /\ ds[2] = Alembic!DropPresent("fn_hitl_item_updated_at")
        /\ ds[3] = Alembic!DelPresent("hitl_item", {"ck_status", "ck_risk_class", "ck_priority"})
        /\ ds[4] = Alembic!DelPresent("hitl_item", {"updated_at"})
        /\ ds[5] = Alembic!DelPresent("policy_record", {"rules_jsonb"})
    BY DEF Alembic!Down11
  <1> HIDE DEF ds
  <1>2. Undoes(ds[2], d, e) /\ Undoes(ds[3], d, e) /\ Undoes(ds[4], d, e) /\ Undoes(ds[5], d, e)
    BY <1>1
  <1>3. AllUndone(ds, 1, d, e)
    BY <1>1
  <1>4. \A k \in 1 + 1 .. Len(ds) : Undoes(ds[k], d, e)
    <2> HIDE DEF Undoes
    <2> QED BY <1>1, <1>2
  <1> HIDE DEF Undoes, AllUndone
  <1>5. TakesBack(ds, 1, d, e)
    BY <1>1, <1>3, <1>4
  <1> QED BY <1>5 DEF ds

HIDE DEF Ready, Fresh, TakesBack, Undoes, AllUndone, Drops, SchemaDrops, Of, Alembic!Schemas1,
        Alembic!Drop, Alembic!DropPresent, Alembic!DropCascade, Alembic!Del, Alembic!DelPresent,
        Alembic!DropSchema, Alembic!DropSchemaCascade, Alembic!Drops, Alembic!Cascades,
        TaxonomyNames, DocsNames, CollectionNames, GovernanceNames, HostsNames,
        MembershipNames, NetworkNames, AddressesNames, ServicesNames, ExposureNames, OwnershipNames,
        PacksNames, Names1, Names3, Names5, ReviewNames, Names7, InsightNames, Names8, Names9, Names10,
        Names11, Schemas3, Schemas7, Schemas8, Atts3, Atts4, Atts5, ReviewAtts, Atts7, InsightAtts,
        Atts8, Atts9, Atts10, Atts11

\* A downgrade that takes back what leads from revision u to revision v.
Undoing(ds, v, u) ==
    \A w : IsDb(w) /\ Same(w, Revision(v)) => Follows(Alembic!ExecAll(w, ds), Revision(u), w.ver)

\* Statements that take back a revision without new keys lead to the one below.
LEMMA TakenBack ==
    ASSUME NEW v, NEW u, NEW ns, NEW ss, NEW at, Ready(Revision(u), ns, ss, at),
           NEW n2, NEW s2, NEW at2, Reached(v, u, n2, s2, at2), Keyless(Alembic!Upgrade(v, FALSE)),
           NEW ds, TakesBack(ds, 0, Revision(u), Revision(v))
    PROVE  Undoing(ds, v, u)
  <1> DEFINE d == Revision(u)
             e == Revision(v)
             os == Alembic!Upgrade(v, FALSE)
  <1>1. /\ Ready(d, ns, ss, at) /\ AllPlain(os) /\ Keyless(os)
        /\ Ready(e, n2, s2, at2) /\ e = Alembic!ExecAll(d, os)
    BY DEF Reached
  <1>2. Len(ds) \in Nat /\ (\A k \in 1 .. Len(ds) : Undoes(ds[k], d, e)) /\ AllUndone(ds, 0, d, e)
    BY DEF TakesBack
  <1> HIDE DEF d, e, os
  <1>3. ASSUME NEW w, IsDb(w), Same(w, e) PROVE Follows(Alembic!ExecAll(w, ds), d, w.ver)
    BY <1>1, <1>2, <1>3, DownRun
  <1> QED BY <1>3 DEF Undoing, d, e

\* 0003 down takes back what 0003 brought.
LEMMA Down3Undoes == Undoing(Alembic!Downgrade(3), 3, 2)
  BY Revision2, Revision3, Down3TakesBack, TakenBack DEF Reached, Alembic!Downgrade

\* 0004 down takes back what 0004 brought.
LEMMA Down4Undoes == Undoing(Alembic!Downgrade(4), 4, 3)
  BY Revision3, Revision4, Down4TakesBack, TakenBack DEF Reached, Alembic!Downgrade

\* 0005 down takes back what 0005 brought.
LEMMA Down5Undoes == Undoing(Alembic!Downgrade(5), 5, 4)
  BY Revision4, Revision5, Down5TakesBack, TakenBack DEF Reached, Alembic!Downgrade

\* 0008 down takes back what 0008 brought.
LEMMA Down8Undoes == Undoing(Alembic!Downgrade(8), 8, 7)
  BY Revision7, Revision8, Down8TakesBack, TakenBack DEF Reached, Alembic!Downgrade

\* 0009 down takes back what 0009 brought.
LEMMA Down9Undoes == Undoing(Alembic!Downgrade(9), 9, 8)
  BY Revision8, Revision9, Down9TakesBack, TakenBack DEF Reached, Alembic!Downgrade

\* 0010 down takes back what 0010 brought.
LEMMA Down10Undoes == Undoing(Alembic!Downgrade(10), 10, 9)
  BY Revision9, Revision10, Down10TakesBack, TakenBack DEF Reached, Alembic!Downgrade

\* 0011 has tied hitl_item to its function.
LEMMA Up11Keys ==
    /\ Len(Alembic!Up11) = 5
    /\ \A i \in 1 .. 5 : i # 4 => Alembic!Up11[i].do # "fk"
    /\ NewFks(Alembic!Up11[4]) = {[of |-> "hitl_item", to |-> t] : t \in {"fn_hitl_item_updated_at"}}
  BY DEF Alembic!Up11, Alembic!AddMissing, Alembic!Relation, Alembic!ForeignKey, NewFks

\* The downgrade unties it first.
LEMMA Down11Undoes ==
    ASSUME NEW w, IsDb(w), w.ok, Same(w, Revision(11))
    PROVE  Follows(Alembic!ExecAll(w, Alembic!Downgrade(11)), Revision(10), w.ver)
  <1> DEFINE d == Revision(10)
             e == Revision(11)
             os == Alembic!Up11
             ds == Alembic!Down11
             fn == "fn_hitl_item_updated_at"
             link == {[of |-> "hitl_item", to |-> t] : t \in {fn}}
             x1 == Alembic!Running(w, ds)[1]
  <1>1. /\ Ready(d, Names10, Schemas8, Atts10) /\ Ready(e, Names11, Schemas8, Atts11)
        /\ AllPlain(os) /\ e = Alembic!ExecAll(d, os)
    <2>1. Alembic!Upgrade(11, FALSE) = os
      BY DEF Alembic!Upgrade
    <2> QED BY <2>1, Revision10, Revision11 DEF Reached
  <1>2. Alembic!Downgrade(11) = ds
    BY DEF Alembic!Downgrade
  <1>3. Len(ds) = 5 /\ ds[1] = Alembic!Unlink("hitl_item", {fn})
    BY DEF Alembic!Down11
  <1>4. (\A k \in 1 + 1 .. Len(ds) : Undoes(ds[k], d, e)) /\ AllUndone(ds, 1, d, e)
    BY <1>1, Down11TakesBack DEF TakesBack
  <1>5. "hitl_item" \in Alembic!Names(w) /\ fn \notin Alembic!Names(d)
    <2>1. "hitl_item" \in Names11 /\ fn \notin Names10
      BY DEF Names11, Names10, Names9, Names8, InsightNames, Names7, ReviewNames, Names5, Names3, Names1,
             PacksNames, OwnershipNames, ExposureNames, ServicesNames, AddressesNames, NetworkNames,
             MembershipNames, HostsNames, GovernanceNames, CollectionNames, DocsNames, TaxonomyNames
    <2> QED BY <1>1, <2>1, SameNames DEF Ready
  <1>6. Same(w, e)
    OBVIOUS
  <1> HIDE DEF ds, d, e, os
  <1>7. x1 = Alembic!Exec(w, ds[1])
    <2>1. Len(ds) \in Nat /\ 0 \in 0 .. Len(ds) - 1 /\ 0 + 1 = 1
      BY <1>3
    <2>2. /\ Alembic!Running(w, ds)[0] = w
          /\ \A k \in 0 .. Len(ds) - 1 : Alembic!Running(w, ds)[k + 1] = Alembic!Exec(Alembic!Running(w, ds)[k], ds[k + 1])
      BY <2>1, RunningSteps
    <2> QED BY <2>1, <2>2
  <1> HIDE DEF x1
  <1>8. /\ IsDb(x1) /\ x1.ok /\ x1.ver = w.ver /\ x1.schemas = w.schemas /\ x1.rels = w.rels
        /\ x1.fks = w.fks \ link /\ x1.atts = w.atts
    <2> DEFINE o == Alembic!Unlink("hitl_item", {fn})
    <2>1. o.do = "unlink" /\ o.on = "hitl_item" /\ o.refs = {fn}
      BY DEF Alembic!Unlink
    <2>2. Alembic!Legal(w, o)
      BY <1>5, <2>1 DEF Alembic!Legal
    <2> HIDE DEF o
    <2>3. x1 = Alembic!Effect(w, o)
      BY <1>3, <1>7, <2>2, ExecIs DEF o
    <2>4. LET y == Alembic!Effect(w, o) IN
          /\ IsDb(y) /\ y.ok = w.ok /\ y.ver = w.ver /\ y.schemas = w.schemas /\ y.rels = w.rels
          /\ y.fks = w.fks \ {[of |-> o.on, to |-> t] : t \in o.refs} /\ y.atts = w.atts
      BY <2>1, UnlinkEffect
    <2> QED BY <2>1, <2>3, <2>4
  <1>9. New(d, e) /\ Alembic!VersionTable \notin d.rels
    BY <1>1 DEF Ready, New, Alembic!Names, Alembic!VersionTable, VersionName
  <1>10. Between(x1, d, e)
    <2>1. /\ d.schemas \subseteq e.schemas /\ d.rels \subseteq e.rels
          /\ d.fks \subseteq e.fks /\ d.atts \subseteq e.atts
          /\ \A r \in e.rels : r \in d.rels \/ r.n \in Fresh(d, e)
          /\ \A f \in e.fks : \/ f \in d.fks \/ f.of \in Fresh(d, e)
                              \/ \E i \in 1 .. Len(os) : os[i].do = "fk" /\ f \in NewFks(os[i])
      BY <1>1, BroughtIs DEF Ready
    <2>2. \A f \in e.fks : f \in d.fks \/ f.of \in Fresh(d, e) \/ f \in link
      BY <2>1, Up11Keys DEF os
    <2>3. d.fks \cap link = {}
      <3>1. \A f \in link : f.to = fn
        OBVIOUS
      <3>2. \A f \in d.fks : f.to \in Alembic!Names(d)
        BY <1>9 DEF New, Closed
      <3> QED BY <1>5, <3>1, <3>2 DEF d
    <2> QED BY <1>6, <1>8, <2>1, <2>2, <2>3 DEF Same, Between
  <1>11. Len(ds) \in Nat /\ 1 \in 0 .. Len(ds)
    BY <1>3
  <1> DEFINE x == Alembic!ExecAll(w, ds)
  <1>12. IsDb(x) /\ x.ver = w.ver
    <2>1. ds[1].do = "unlink" /\ \A k \in 1 .. Len(ds) : k = 1 \/ k \in 1 + 1 .. Len(ds)
      BY <1>3 DEF Alembic!Unlink
    <2>2. AllKnown(ds)
      BY <1>4, <1>11, <2>1 DEF AllKnown, Undoes, Kinds
    <2> QED BY <2>2, KnownRun
  <1>13. ASSUME x.ok PROVE Same(x, d)
    <2>1. IsDb(Alembic!Running(w, ds)[1]) /\ Between(Alembic!Running(w, ds)[1], d, e)
      BY <1>8, <1>10 DEF x1
    <2>2. Between(x, d, e) /\ \A k \in 1 + 1 .. Len(ds) : Undone(x, ds[k])
      BY <1>4, <1>9, <1>11, <1>13, <2>1, UndoRun
    <2> HIDE DEF x
    <2> QED BY <1>4, <1>9, <2>2, UndoneIsSame
  <1> HIDE DEF x
  <1>14. Follows(x, d, w.ver)
    BY <1>12, <1>13 DEF Follows
  <1> QED BY <1>2, <1>14 DEF x, d

-----------------------------------------------------------------------------
(* The statements about the embedding change no relation.                    *)
\* One of them.
LEMMA VectorStep ==
    ASSUME NEW x, NEW d, NEW v, Follows(x, d, v), NEW o, o.do \in Vectors
    PROVE  Follows(Alembic!Exec(x, o), d, v)
  <1> DEFINE y == Alembic!Exec(x, o)
  <1>1. CASE x.ok /\ Alembic!Legal(x, o)
    <2>1. y = Alembic!Effect(x, o)
      BY <1>1, ExecIs DEF Follows
    <2> HIDE DEF y
    <2>2. /\ IsDb(y) /\ y.ok = x.ok /\ y.ver = x.ver
          /\ y.schemas = x.schemas /\ y.rels = x.rels /\ y.fks = x.fks /\ y.atts = x.atts
      BY <2>1, VectorEffect DEF Follows
    <2>3. Follows(y, d, v)
      BY <1>1, <2>2 DEF Follows, Same
    <2> QED BY <2>3 DEF y
  <1>2. CASE ~(x.ok /\ Alembic!Legal(x, o))
    BY <1>2, ExecIs DEF Follows
  <1> QED BY <1>1, <1>2

\* Several of them.
LEMMA VectorRun ==
    ASSUME NEW x, NEW d, NEW v, Follows(x, d, v), NEW os, Len(os) \in Nat,
           \A k \in 1 .. Len(os) : os[k].do \in Vectors
    PROVE  /\ Follows(Alembic!ExecAll(x, os), d, v)
           /\ \A k \in 0 .. Len(os) : Follows(Alembic!Running(x, os)[k], d, v)
  <1> DEFINE n == Len(os)
             X(k) == Alembic!Running(x, os)[k]
             S == {k \in Nat : k <= n => Follows(X(k), d, v)}
  <1>0. /\ X(0) = x /\ X(n) = Alembic!ExecAll(x, os)
        /\ \A k \in 0 .. n - 1 : X(k + 1) = Alembic!Exec(X(k), os[k + 1])
        /\ n \in Nat /\ \A k \in 1 .. n : os[k].do \in Vectors
    BY RunningSteps
  <1> HIDE DEF X, n
  <1>1. 0 \in S
    BY <1>0
  <1>2. ASSUME NEW k \in Nat, k \in S PROVE k + 1 \in S
    <2> SUFFICES ASSUME k + 1 <= n PROVE Follows(X(k + 1), d, v)
      OBVIOUS
    <2>1. X(k + 1) = Alembic!Exec(X(k), os[k + 1]) /\ os[k + 1].do \in Vectors /\ Follows(X(k), d, v)
      BY <1>0, <1>2
    <2> QED BY <2>1, VectorStep
  <1> HIDE DEF S
  <1>3. \A k \in Nat : k \in S
    BY <1>1, <1>2, Induction
  <1> QED BY <1>0, <1>3 DEF S, X, n

\* 0002 and 0006 leave the relations as they are.
LEMMA VectorRevisions == Revision(2) = Revision(1) /\ Revision(6) = Revision(5)
  BY Revision1, Revision2, Revision5, Revision6, NothingRuns
     DEF Reached, Alembic!Upgrade, Alembic!Up2, Alembic!Up6

\* 0002 down: only the embedding changes.
LEMMA Down2Undoes == Undoing(Alembic!Downgrade(2), 2, 1)
  <1> DEFINE os == Alembic!Down2
  <1>1. Len(os) = 2 /\ \A k \in 1 .. Len(os) : os[k].do \in Vectors
    BY DEF Alembic!Down2, Vectors, Alembic!DropHnsw, Alembic!Embedding
  <1>2. Alembic!Downgrade(2) = os
    BY DEF Alembic!Downgrade
  <1> HIDE DEF os
  <1>3. ASSUME NEW w, IsDb(w), Same(w, Revision(2))
        PROVE  Follows(Alembic!ExecAll(w, os), Revision(1), w.ver)
    <2>1. Follows(w, Revision(1), w.ver)
      BY <1>3, VectorRevisions DEF Follows
    <2> QED BY <1>1, <2>1, VectorRun
  <1> QED BY <1>2, <1>3 DEF Undoing

\* 0006 down: only the embedding changes.
LEMMA Down6Undoes == Undoing(Alembic!Downgrade(6), 6, 5)
  <1> DEFINE os == Alembic!Down6
  <1>1. Len(os) = 3 /\ \A k \in 1 .. Len(os) : os[k].do \in Vectors
    BY DEF Alembic!Down6, Vectors, Alembic!DropHnsw, Alembic!Embedding, Alembic!Hnsw
  <1>2. Alembic!Downgrade(6) = os
    BY DEF Alembic!Downgrade
  <1> HIDE DEF os
  <1>3. ASSUME NEW w, IsDb(w), Same(w, Revision(6))
        PROVE  Follows(Alembic!ExecAll(w, os), Revision(5), w.ver)
    <2>1. Follows(w, Revision(5), w.ver)
      BY <1>3, VectorRevisions DEF Follows
    <2> QED BY <1>1, <2>1, VectorRun
  <1> QED BY <1>2, <1>3 DEF Undoing

\* 0006 with pgvector: it may fail, and changes no relation when it does not.
LEMMA Up6Follows ==
    ASSUME NEW w, IsDb(w), Same(w, Revision(5))
    PROVE  Follows(Alembic!ExecAll(w, Alembic!Upgrade(6, TRUE)), Revision(6), w.ver)
  <1> DEFINE os == Alembic!Up6(TRUE)
  <1>1. Len(os) = 3 /\ \A k \in 1 .. Len(os) : os[k].do \in Vectors
    BY DEF Alembic!Up6, Vectors, Alembic!DropHnsw, Alembic!Embedding, Alembic!Hnsw
  <1>2. Alembic!Upgrade(6, TRUE) = os
    BY DEF Alembic!Upgrade
  <1> HIDE DEF os
  <1>3. Follows(w, Revision(6), w.ver)
    BY VectorRevisions DEF Follows
  <1>4. Follows(Alembic!ExecAll(w, os), Revision(6), w.ver)
    BY <1>1, <1>3, VectorRun
  <1> QED BY <1>2, <1>4

\* 0002 with pgvector always succeeds: 1536 dimensions fit an HNSW index.
LEMMA Up2Follows ==
    ASSUME NEW w, IsDb(w), w.ok, Same(w, Revision(1))
    PROVE  LET x == Alembic!ExecAll(w, Alembic!Upgrade(2, TRUE)) IN
           x.ok /\ Follows(x, Revision(2), w.ver)
  <1> DEFINE os == Alembic!Up2(TRUE)
             X(k) == Alembic!Running(w, os)[k]
             x1 == X(1)
             x2 == X(2)
             x3 == X(3)
             x4 == X(4)
  <1>1. /\ Len(os) = 4 /\ os[1] = Alembic!Extension /\ os[2] = Alembic!DropHnsw
        /\ os[3] = Alembic!Embedding(1536) /\ os[4] = Alembic!Hnsw
    BY DEF Alembic!Up2
  <1>2. Alembic!Upgrade(2, TRUE) = os
    BY DEF Alembic!Upgrade
  <1> HIDE DEF os
  <1>3. /\ x1 = Alembic!Exec(w, os[1]) /\ x2 = Alembic!Exec(x1, os[2])
        /\ x3 = Alembic!Exec(x2, os[3]) /\ x4 = Alembic!Exec(x3, os[4])
        /\ Alembic!ExecAll(w, os) = x4
    <2>1. Len(os) \in Nat
      BY <1>1
    <2>2. /\ X(0) = w /\ X(Len(os)) = Alembic!ExecAll(w, os)
          /\ \A k \in 0 .. Len(os) - 1 : X(k + 1) = Alembic!Exec(X(k), os[k + 1])
      BY <2>1, RunningSteps
    <2> HIDE DEF X
    <2> QED BY <1>1, <2>2
  <1>4. /\ Follows(x1, Revision(2), w.ver) /\ Follows(x2, Revision(2), w.ver)
        /\ Follows(x3, Revision(2), w.ver) /\ Follows(x4, Revision(2), w.ver)
    <2>1. Follows(w, Revision(2), w.ver)
      BY VectorRevisions DEF Follows
    <2>2. \A k \in 1 .. Len(os) : os[k].do \in Vectors
      BY <1>1 DEF Vectors, Alembic!Extension, Alembic!Hnsw, Alembic!DropHnsw, Alembic!Embedding
    <2>3. Len(os) \in Nat
      BY <1>1
    <2>4. \A k \in 0 .. Len(os) : Follows(Alembic!Running(w, os)[k], Revision(2), w.ver)
      BY <2>1, <2>2, <2>3, VectorRun
    <2>5. \A k \in 0 .. Len(os) : Follows(X(k), Revision(2), w.ver)
      BY <2>4
    <2> HIDE DEF X
    <2> QED BY <1>1, <2>5
  <1> HIDE DEF X
  <1>8. x1.ok /\ x1.extension = TRUE
    <2>1. x1 = Alembic!Exec(w, Alembic!Extension)
      BY <1>1, <1>3
    <2>2. Alembic!Legal(w, Alembic!Extension)
      BY DEF Alembic!Legal, Alembic!Extension
    <2>3. x1 = Alembic!Effect(w, Alembic!Extension)
      BY <2>1, <2>2, ExecIs
    <2>4. x1 = [w EXCEPT !.extension = TRUE]
      BY <2>3 DEF Alembic!Effect, Alembic!Extension
    <2> HIDE DEF x1
    <2> QED BY <2>4 DEF IsDb
  <1> HIDE DEF x1
  <1>9. x2.ok /\ x2.extension = TRUE
    <2>1. x2 = Alembic!Exec(x1, Alembic!DropHnsw)
      BY <1>1, <1>3
    <2>2. Alembic!Legal(x1, Alembic!DropHnsw)
      BY DEF Alembic!Legal, Alembic!DropHnsw
    <2>3. x2 = Alembic!Effect(x1, Alembic!DropHnsw)
      BY <1>4, <1>8, <2>1, <2>2, ExecIs DEF Follows
    <2>4. x2 = [x1 EXCEPT !.hnsw = FALSE]
      BY <2>3 DEF Alembic!Effect, Alembic!DropHnsw
    <2> HIDE DEF x2
    <2> QED BY <1>4, <1>8, <2>4 DEF Follows, IsDb
  <1> HIDE DEF x2
  <1>10. x3.ok /\ x3.embedding = 1536
    <2> DEFINE o == Alembic!Embedding(1536)
    <2>1. x3 = Alembic!Exec(x2, o)
      BY <1>1, <1>3
    <2>2. o.do = "embedding" /\ o.on = "chunk_embedding" /\ o.refs = {1536}
      BY DEF Alembic!Embedding
    <2>3. "chunk_embedding" \in Alembic!Names(x2)
      <3>1. "chunk_embedding" \in Alembic!Names(Revision(2))
        BY Revision2 DEF Reached, Ready, Names1, PacksNames, OwnershipNames
      <3> QED BY <1>4, <1>9, <3>1, SameNames DEF Follows
    <2> HIDE DEF o
    <2>4. Alembic!Legal(x2, o)
      BY <1>9, <2>2, <2>3 DEF Alembic!Legal, Alembic!Text
    <2>5. x3 = Alembic!Effect(x2, o)
      BY <1>4, <1>9, <2>1, <2>4, ExecIs DEF Follows
    <2>6. x3 = [x2 EXCEPT !.embedding = CHOOSE n \in o.refs : TRUE]
      BY <2>2, <2>5 DEF Alembic!Effect
    <2>7. (CHOOSE n \in o.refs : TRUE) = 1536
      BY <2>2
    <2> HIDE DEF x3
    <2> QED BY <1>4, <1>9, <2>6, <2>7 DEF Follows, IsDb
  <1> HIDE DEF x3
  <1>11. x4.ok
    <2>1. x4 = Alembic!Exec(x3, Alembic!Hnsw)
      BY <1>1, <1>3
    <2>2. Alembic!Legal(x3, Alembic!Hnsw)
      BY <1>10, TargetsAreRevisions DEF Alembic!Legal, Alembic!Hnsw
    <2>3. x4 = Alembic!Effect(x3, Alembic!Hnsw)
      BY <1>4, <1>10, <2>1, <2>2, ExecIs DEF Follows
    <2>4. x4.ok = x3.ok
      BY <1>4, <2>3, VectorEffect DEF Follows, Vectors, Alembic!Hnsw
    <2> HIDE DEF x3, x4
    <2> QED BY <1>10, <2>4
  <1>12. x4.ok /\ Follows(x4, Revision(2), w.ver)
    BY <1>4, <1>11
  <1> HIDE DEF x4
  <1> QED BY <1>2, <1>3, <1>12, Zenon

-----------------------------------------------------------------------------
(* 0001 and 0007 drop the schema of the version row with everything in it.   *)
Dropping(o) == o.do \in Drops \cup SchemaDrops

\* A drop keeps the version, and a schema's drop leaves no relation in it.
LEMMA DroppingStep ==
    ASSUME NEW x, IsDb(x), NEW o, Dropping(o)
    PROVE  LET y == Alembic!Exec(x, o) IN
           /\ IsDb(y) /\ y.ver = x.ver
           /\ y.ok => x.ok /\ y.rels \subseteq x.rels
           /\ y.ok /\ o.do \in SchemaDrops => \A r \in y.rels : r.s # o.on
  <1> DEFINE y == Alembic!Exec(x, o)
  <1>1. CASE ~(x.ok /\ Alembic!Legal(x, o))
    BY <1>1, ExecIs
  <1>2. CASE x.ok /\ Alembic!Legal(x, o)
    <2>1. y = Alembic!Effect(x, o)
      BY <1>2, ExecIs
    <2> HIDE DEF y
    <2>2. CASE o.do \in Drops
      <3>1. IsDb(y) /\ y.ver = x.ver /\ y.rels \subseteq x.rels
        BY <2>1, <2>2, DropEffect
      <3>2. o.do \notin SchemaDrops
        BY <2>2 DEF Drops, SchemaDrops
      <3> QED BY <1>2, <3>1, <3>2 DEF y
    <2>3. CASE o.do \in SchemaDrops
      <3> DEFINE ns == {r.n : r \in {q \in x.rels : q.s = o.on}}
                 g == Dropped(x, ns)
      <3>1. IsDb(y) /\ y.ver = x.ver /\ y.rels = {r \in x.rels : r.n \notin g}
        BY <2>1, <2>3, SchemaDropEffect
      <3>2. \A r \in x.rels : r.s = o.on => r.n \in g
        BY DEF Dropped
      <3> HIDE DEF g
      <3> QED BY <1>2, <3>1, <3>2 DEF y
    <2> QED BY <2>2, <2>3 DEF Dropping
  <1> QED BY <1>1, <1>2

\* No version row is left to move.
Rowless(x, v) == IsDb(x) /\ x.ver = v /\ (x.ok => Alembic!VersionTable \notin x.rels)

\* A drop of schema governance among them takes the version row.
LEMMA RowlessRun ==
    ASSUME NEW w, IsDb(w), NEW os, Len(os) \in Nat, \A k \in 1 .. Len(os) : Dropping(os[k]),
           NEW g \in 1 .. Len(os), os[g].do \in SchemaDrops, os[g].on = "governance"
    PROVE  Rowless(Alembic!ExecAll(w, os), w.ver)
  <1> DEFINE n == Len(os)
             X(k) == Alembic!Running(w, os)[k]
             S == {k \in Nat : k <= n => /\ IsDb(X(k)) /\ X(k).ver = w.ver
                                         /\ k >= g => Rowless(X(k), w.ver)}
  <1>0. /\ X(0) = w /\ X(n) = Alembic!ExecAll(w, os)
        /\ \A k \in 0 .. n - 1 : X(k + 1) = Alembic!Exec(X(k), os[k + 1])
        /\ n \in Nat /\ g \in 1 .. n /\ \A k \in 1 .. n : Dropping(os[k])
    BY RunningSteps
  <1> HIDE DEF X, n
  <1>1. 0 \in S
    BY <1>0
  <1>2. ASSUME NEW k \in Nat, k \in S PROVE k + 1 \in S
    <2> DEFINE o == os[k + 1]
               y == X(k + 1)
    <2> SUFFICES ASSUME k + 1 <= n
                 PROVE  IsDb(y) /\ y.ver = w.ver /\ (k + 1 >= g => Rowless(y, w.ver))
      OBVIOUS
    <2>1. /\ y = Alembic!Exec(X(k), o) /\ Dropping(o) /\ IsDb(X(k)) /\ X(k).ver = w.ver
          /\ k >= g => Rowless(X(k), w.ver)
      BY <1>0, <1>2
    <2>2. k + 1 >= g => k >= g \/ (o.do \in SchemaDrops /\ o.on = "governance")
      BY <1>0
    <2> HIDE DEF o, y
    <2>3. /\ IsDb(y) /\ y.ver = w.ver /\ (y.ok => X(k).ok /\ y.rels \subseteq X(k).rels)
          /\ y.ok /\ o.do \in SchemaDrops => \A r \in y.rels : r.s # o.on
      BY <2>1, DroppingStep
    <2>4. Alembic!VersionTable.s = "governance"
      BY DEF Alembic!VersionTable
    <2> QED BY <2>1, <2>2, <2>3, <2>4 DEF Rowless
  <1> HIDE DEF S
  <1>3. n \in S
    BY <1>0, <1>1, <1>2, Induction
  <1> QED BY <1>0, <1>3 DEF S, n

\* 0007 down drops schema governance.
LEMMA Down7LosesTheRow ==
    ASSUME NEW w, IsDb(w)
    PROVE  Rowless(Alembic!ExecAll(w, Alembic!Downgrade(7)), w.ver)
  <1> DEFINE os == Alembic!Down7
  <1>1. /\ Len(os) = 8 /\ \A k \in 1 .. Len(os) : Dropping(os[k])
        /\ os[8].do \in SchemaDrops /\ os[8].on = "governance"
    BY DEF Alembic!Down7, Alembic!Cascades, Dropping, Drops, SchemaDrops,
           Alembic!DropCascade, Alembic!DropSchemaCascade
  <1>2. Alembic!Downgrade(7) = os
    BY DEF Alembic!Downgrade
  <1> HIDE DEF os
  <1>3. Rowless(Alembic!ExecAll(w, os), w.ver)
    <2>1. Len(os) \in Nat /\ 8 \in 1 .. Len(os)
      BY <1>1
    <2> QED BY <1>1, <2>1, RowlessRun
  <1> QED BY <1>2, <1>3

\* 0001 down drops all the schemas.
LEMMA Down1LosesTheRow ==
    ASSUME NEW w, IsDb(w)
    PROVE  Rowless(Alembic!ExecAll(w, Alembic!Downgrade(1)), w.ver)
  <1> DEFINE os == Alembic!Down1
  <1>1. /\ Len(os) = 45 /\ \A k \in 1 .. Len(os) : Dropping(os[k])
        /\ os[42].do \in SchemaDrops /\ os[42].on = "governance"
    BY DEF Alembic!Down1, Alembic!Drops, Dropping, Drops, SchemaDrops,
           Alembic!Drop, Alembic!DropSchemaCascade
  <1>2. Alembic!Downgrade(1) = os
    BY DEF Alembic!Downgrade
  <1> HIDE DEF os
  <1>3. Rowless(Alembic!ExecAll(w, os), w.ver)
    <2>1. Len(os) \in Nat /\ 42 \in 1 .. Len(os)
      BY <1>1
    <2> QED BY <1>1, <2>1, RowlessRun
  <1> QED BY <1>2, <1>3

-----------------------------------------------------------------------------
(* One revision, up or down, from a database that is at its revision.        *)
Up(w, v, vector)   == Alembic!ExecAll(w, Alembic!Upgrade(v, vector))
Down(w, v)         == Alembic!ExecAll(w, Alembic!Downgrade(v))
Brings(w, v, vector) ==
    Follows(Up(w, v, vector), Revision(v), w.ver) /\ (Up(w, v, vector).ok \/ (v = 6 /\ vector))
Returns(w, v, u) ==
    LET x == Down(w, v) IN
    /\ IsDb(x) /\ x.ver = w.ver
    /\ x.ok /\ Alembic!VersionTable \in x.rels => Same(x, Revision(u))
Known(v) == /\ IsDb(Revision(v)) /\ Revision(v).ok
            /\ Alembic!VersionTable \notin Revision(v).rels
            /\ Alembic!Schemas1 \subseteq Revision(v).schemas

\* A reached revision has the seven schemas and no version table.
LEMMA ReadyIsKnown ==
    ASSUME NEW v, NEW ns, NEW ss, NEW at, Ready(Revision(v), ns, ss, at),
           ss \in {Alembic!Schemas1, Schemas3, Schemas7, Schemas8}
    PROVE  Known(v)
  <1>1. Alembic!VersionTable \notin Revision(v).rels
    BY DEF Ready, Alembic!Names, Alembic!VersionTable, VersionName
  <1>2. Alembic!Schemas1 \subseteq ss
    BY DEF Schemas3, Schemas7, Schemas8
  <1> QED BY <1>1, <1>2 DEF Ready, Known

\* So has every revision.
LEMMA RevisionsAreKnown == \A v \in 0 .. 11 : Known(v)
  <1>1. ASSUME NEW v \in 0 .. 11 PROVE v \in {0, 1, 2, 3, 4, 5, 6, 7, 8, 9, 10, 11}
    OBVIOUS
  <1> QED BY <1>1, ReadyIsKnown, Revision0, Revision1, Revision2, Revision3, Revision4, Revision5, Revision6,
             Revision7, Revision8, Revision9, Revision10, Revision11 DEF Reached

\* Revision v is what its upgrade makes of revision u.
Linked(v, u) == \E ns, ss, at : Reached(v, u, ns, ss, at)

\* Each revision is made by its upgrade.
LEMMA RevisionsAreLinked == \A u \in 0 .. 10 : Linked(u + 1, u)
  <1>1. \A v, u, ns, ss, at : Reached(v, u, ns, ss, at) => Linked(v, u)
    BY DEF Linked
  <1>2. /\ Linked(1, 0) /\ Linked(2, 1) /\ Linked(3, 2) /\ Linked(4, 3) /\ Linked(5, 4) /\ Linked(6, 5)
        /\ Linked(7, 6) /\ Linked(8, 7) /\ Linked(9, 8) /\ Linked(10, 9) /\ Linked(11, 10)
    BY <1>1, Revision1, Revision2, Revision3, Revision4, Revision5, Revision6, Revision7, Revision8,
       Revision9, Revision10, Revision11
  <1>3. ASSUME NEW u \in 0 .. 10 PROVE \E v : v = u + 1 /\ Linked(v, u)
    <2>1. u \in {0, 1, 2, 3, 4, 5, 6, 7, 8, 9, 10}
      OBVIOUS
    <2> QED BY <1>2, <2>1
  <1> QED BY <1>3

\* Without pgvector an upgrade from revision u leads to revision v.
LEMMA PlainUpgrade ==
    ASSUME NEW w, IsDb(w), w.ok, NEW u, Known(u), Same(w, Revision(u)),
           NEW v, Known(v), Linked(v, u)
    PROVE  Brings(w, v, FALSE)
  <1> DEFINE d == Revision(u)
             os == Alembic!Upgrade(v, FALSE)
             x  == Alembic!ExecAll(w, os)
             y  == Alembic!ExecAll(d, os)
  <1>1. IsDb(d) /\ d.ok /\ Revision(v).ok
    BY DEF Known
  <1>2. AllPlain(os) /\ Revision(v) = y
    BY DEF Reached, Linked
  <1>3. w.ok = d.ok
    BY <1>1 DEF IsDb
  <1>4. d.ok => Same(w, d)
    OBVIOUS
  <1>5. ASSUME NEW e, IsDb(e), w.ok = e.ok, e.ok => Same(w, e), NEW s, AllPlain(s)
        PROVE  LET p == Alembic!ExecAll(w, s) q == Alembic!ExecAll(e, s) IN
               /\ IsDb(p) /\ IsDb(q) /\ p.ok = q.ok /\ p.ver = w.ver /\ q.ver = e.ver
               /\ q.ok => Same(p, q)
    BY <1>5, SameRun
  <1> HIDE DEF d, os
  <1>6. IsDb(x) /\ x.ok = y.ok /\ x.ver = w.ver /\ (y.ok => Same(x, y))
    BY <1>1, <1>2, <1>3, <1>4, <1>5
  <1>7. x = Up(w, v, FALSE)
    BY DEF os, Up
  <1> HIDE DEF x, y
  <1>8. Follows(x, Revision(v), w.ver) /\ x.ok
    BY <1>1, <1>2, <1>6 DEF Follows
  <1>9. ASSUME NEW b, x = Up(w, v, b)
        PROVE  Brings(w, v, b)
    <2>1. Follows(Up(w, v, b), Revision(v), w.ver) /\ Up(w, v, b).ok
      BY <1>8, <1>9
    <2> QED BY <2>1 DEF Brings
  <1> QED BY <1>7, <1>9, Zenon

\* Revisions that do not look at the extension.
LEMMA SameWithVector ==
    ASSUME NEW v \in {1, 3, 4, 5, 7, 8, 9, 10, 11}
    PROVE  Alembic!Upgrade(v, TRUE) = Alembic!Upgrade(v, FALSE)
  <1>1. CASE v = 1
    BY <1>1 DEF Alembic!Upgrade
  <1>3. CASE v = 3
    BY <1>3 DEF Alembic!Upgrade
  <1>4. CASE v = 4
    BY <1>4 DEF Alembic!Upgrade
  <1>5. CASE v = 5
    BY <1>5 DEF Alembic!Upgrade
  <1>7. CASE v = 7
    BY <1>7 DEF Alembic!Upgrade
  <1>8. CASE v = 8
    BY <1>8 DEF Alembic!Upgrade
  <1>9. CASE v = 9
    BY <1>9 DEF Alembic!Upgrade
  <1>10. CASE v = 10
    BY <1>10 DEF Alembic!Upgrade
  <1>11. CASE v = 11
    BY <1>11 DEF Alembic!Upgrade
  <1> QED BY <1>1, <1>3, <1>4, <1>5, <1>7, <1>8, <1>9, <1>10, <1>11

\* Every upgrade() leads to its revision, or it is 0006 with pgvector that fails.
LEMMA Upgrades ==
    ASSUME NEW w, IsDb(w), w.ok, NEW u \in 0 .. 10, Same(w, Revision(u)),
           NEW vector \in BOOLEAN
    PROVE  Brings(w, u + 1, vector)
  <1>1. Known(u) /\ Known(u + 1) /\ Linked(u + 1, u)
    BY RevisionsAreKnown, RevisionsAreLinked
  <1>2. Brings(w, u + 1, FALSE)
    BY <1>1, PlainUpgrade
  <1>3. Brings(w, u + 1, TRUE)
    <2>1. CASE u = 1
      <3>1. Up(w, 2, TRUE).ok /\ Follows(Up(w, 2, TRUE), Revision(2), w.ver)
        BY <2>1, Up2Follows DEF Up
      <3>2. u + 1 = 2
        BY <2>1
      <3> QED BY <3>1, <3>2, Zenon DEF Brings
    <2>2. CASE u = 5
      <3>1. Follows(Up(w, 6, TRUE), Revision(6), w.ver)
        BY <2>2, Up6Follows DEF Up
      <3>2. u + 1 = 6
        BY <2>2
      <3> QED BY <3>1, <3>2, Zenon DEF Brings
    <2>3. CASE u \notin {1, 5}
      <3>1. u + 1 \in {1, 3, 4, 5, 7, 8, 9, 10, 11}
        BY <2>3
      <3>2. PICK v : v = u + 1
        OBVIOUS
      <3>3. Up(w, v, TRUE) = Up(w, v, FALSE) /\ Brings(w, v, FALSE)
        BY <1>2, <3>1, <3>2, SameWithVector DEF Up
      <3>4. Brings(w, v, TRUE)
        BY <3>3, Zenon DEF Brings
      <3> QED BY <3>2, <3>4
    <2> QED BY <2>1, <2>2, <2>3
  <1>4. vector = TRUE \/ vector = FALSE
    OBVIOUS
  <1> QED BY <1>2, <1>3, <1>4

\* Every downgrade() that keeps the version row leads to the revision below.
LEMMA Downgrades ==
    ASSUME NEW w, IsDb(w), w.ok, NEW v \in 1 .. 11, Same(w, Revision(v))
    PROVE  Returns(w, v, v - 1)
  <1>1. v = 1 => Returns(w, 1, 0)
    BY Down1LosesTheRow DEF Returns, Down, Rowless
  <1>2. v = 2 => Returns(w, 2, 1)
    BY Down2Undoes DEF Returns, Down, Follows, Undoing
  <1>3. v = 3 => Returns(w, 3, 2)
    BY Down3Undoes DEF Returns, Down, Follows, Undoing
  <1>4. v = 4 => Returns(w, 4, 3)
    BY Down4Undoes DEF Returns, Down, Follows, Undoing
  <1>5. v = 5 => Returns(w, 5, 4)
    BY Down5Undoes DEF Returns, Down, Follows, Undoing
  <1>6. v = 6 => Returns(w, 6, 5)
    BY Down6Undoes DEF Returns, Down, Follows, Undoing
  <1>7. v = 7 => Returns(w, 7, 6)
    BY Down7LosesTheRow DEF Returns, Down, Rowless
  <1>8. v = 8 => Returns(w, 8, 7)
    BY Down8Undoes DEF Returns, Down, Follows, Undoing
  <1>9. v = 9 => Returns(w, 9, 8)
    BY Down9Undoes DEF Returns, Down, Follows, Undoing
  <1>10. v = 10 => Returns(w, 10, 9)
    BY Down10Undoes DEF Returns, Down, Follows, Undoing
  <1>11. v = 11 => Returns(w, 11, 10)
    BY Down11Undoes DEF Returns, Down, Follows
  <1>12. v \in {1, 2, 3, 4, 5, 6, 7, 8, 9, 10, 11}
    OBVIOUS
  <1> QED BY <1>1, <1>2, <1>3, <1>4, <1>5, <1>6, <1>7, <1>8, <1>9, <1>10, <1>11, <1>12

-----------------------------------------------------------------------------
(* The alembic processes.                                                    *)
\* A committed database is at its version; before the first command it has no
\* schema and no version row.
AtRevision(d) ==
    /\ IsDb(d) /\ d.ok /\ d.ver \in 0 .. 11
    /\ d.rels \ {Alembic!VersionTable} = Revision(d.ver).rels
    /\ d.fks = Revision(d.ver).fks /\ d.atts = Revision(d.ver).atts
    /\ d.schemas = Revision(d.ver).schemas \/ (d.ver = 0 /\ d.schemas = {})

\* A transaction that has had no error is at the revision it says, on its way
\* from its base to its target; an error of an upgrade is that of 0006.
IsSession(e) == e = [phase |-> e.phase, base |-> e.base, target |-> e.target, work |-> e.work]
OnTheWay(e) == e.work.ver \in e.base .. e.target \/ e.work.ver \in e.target .. e.base
OnCourse(e, vector) ==
    /\ e.base \in 0 .. 11 /\ e.target \in 0 .. 11 /\ e.work.ok \in BOOLEAN
    /\ e.work.ok => /\ IsDb(e.work) /\ e.work.ver \in 0 .. 11
                    /\ Same(e.work, Revision(e.work.ver)) /\ OnTheWay(e)
    /\ ~e.work.ok /\ e.target > e.base => e.work.ver = 5 /\ vector

SchemaInv ==
    /\ AtRevision(db) /\ pgvector \in BOOLEAN
    /\ session = [s \in Sessions |-> session[s]]
    /\ \A s \in Sessions : /\ IsSession(session[s])
                           /\ session[s].phase = "running" => OnCourse(session[s], pgvector)
    /\ Alembic!UpgradeFailsOnlyAtHnsw

\* An empty database before any command.
LEMMA SchemaInit == Alembic!Init => SchemaInv
  <1> SUFFICES ASSUME Alembic!Init PROVE SchemaInv
    OBVIOUS
  <1>1. AtRevision(db)
    <2>1. db = [schemas |-> {}, rels |-> {}, fks |-> {}, atts |-> {}, extension |-> FALSE,
                embedding |-> Alembic!Text, hnsw |-> FALSE, ver |-> 0, ok |-> TRUE]
      BY DEF Alembic!Init, Alembic!EmptyDb
    <2>2. Revision(0).rels = {} /\ Revision(0).fks = {} /\ Revision(0).atts = {}
      BY SchemaAtIs DEF Alembic!EmptyDb
    <2>3. /\ IsDb(db) /\ db.ok /\ db.ver = 0 /\ db.schemas = {}
          /\ db.rels = {} /\ db.fks = {} /\ db.atts = {}
      BY <2>1 DEF IsDb
    <2> QED BY <2>2, <2>3 DEF AtRevision
  <1>2. IsSession(Alembic!Idle) /\ Alembic!Idle.phase = "idle"
    BY DEF Alembic!Idle, IsSession
  <1>3. session = [s \in Sessions |-> Alembic!Idle]
    BY DEF Alembic!Init
  <1>4. Alembic!UpgradeFailsOnlyAtHnsw
    BY DEF Alembic!Init, Alembic!NoOutcome, Alembic!UpgradeFailsOnlyAtHnsw
  <1>5. pgvector \in BOOLEAN
    BY DEF Alembic!Init
  <1>6. \A s \in Sessions : session[s] = Alembic!Idle
    BY <1>3
  <1>7. session = [s \in Sessions |-> session[s]]
    BY <1>3
  <1> QED BY <1>1, <1>2, <1>4, <1>5, <1>6, <1>7 DEF SchemaInv

\* One process moves on.
LEMMA SessionMoves ==
    ASSUME SchemaInv, NEW s \in Sessions, NEW e, session' = [session EXCEPT ![s] = e],
           IsSession(e), e.phase = "running" => OnCourse(e, pgvector),
           pgvector' = pgvector, AtRevision(db'), Alembic!UpgradeFailsOnlyAtHnsw'
    PROVE  SchemaInv'
  <1>1. \A x \in Sessions : session'[x] = IF x = s THEN e ELSE session[x]
    BY DEF SchemaInv
  <1>2. session' = [x \in Sessions |-> session'[x]]
    BY DEF SchemaInv
  <1>3. \A x \in Sessions : /\ IsSession(session'[x])
                            /\ session'[x].phase = "running" => OnCourse(session'[x], pgvector')
    BY <1>1 DEF SchemaInv
  <1> QED BY <1>2, <1>3 DEF SchemaInv

\* env.py: schemas committed, transaction open, version row read.
LEMMA BeginStep ==
    ASSUME SchemaInv, NEW s \in Sessions, NEW t \in 0 .. Alembic!HeadRevision, Alembic!Begin(s, t)
    PROVE  SchemaInv'
  <1> DEFINE v == db.ver
             d == [db EXCEPT !.schemas = @ \cup Alembic!Schemas1]
             w == Alembic!EnsureVersionTable(d)
             e == [phase |-> "running", base |-> v, target |-> t, work |-> w]
  <1>1. /\ db' = d /\ session' = [session EXCEPT ![s] = e]
        /\ outcome' = Alembic!NoOutcome /\ pgvector' = pgvector
    BY DEF Alembic!Begin
  <1>2. AtRevision(db) /\ v \in 0 .. 11 /\ t \in 0 .. 11
    BY DEF SchemaInv, AtRevision, Alembic!HeadRevision
  <1>3. Known(v)
    BY <1>2, RevisionsAreKnown
  <1>4. db.schemas \cup Alembic!Schemas1 = Revision(v).schemas
    <2>1. CASE db.schemas = Revision(v).schemas
      BY <1>3, <2>1 DEF Known
    <2>2. CASE v = 0 /\ db.schemas = {}
      BY <2>2, Revision0 DEF Ready
    <2> QED BY <1>2, <2>1, <2>2 DEF AtRevision
  <1>a. IsDb(db) /\ d = [db EXCEPT !.schemas = db.schemas \cup Alembic!Schemas1]
    BY <1>2 DEF AtRevision
  <1> HIDE DEF d
  <1>b. /\ IsDb(d) /\ d.ok = db.ok /\ d.ver = db.ver /\ d.rels = db.rels /\ d.fks = db.fks
        /\ d.atts = db.atts /\ d.schemas = db.schemas \cup Alembic!Schemas1
    BY <1>a DEF IsDb
  <1>5. /\ IsDb(d) /\ d.ok = db.ok /\ d.ver = v /\ d.rels = db.rels /\ d.fks = db.fks
        /\ d.atts = db.atts /\ d.schemas = Revision(v).schemas
    BY <1>4, <1>b
  <1>6. w = [d EXCEPT !.rels = @ \cup {Alembic!VersionTable}]
    BY DEF Alembic!EnsureVersionTable
  <1> HIDE DEF w
  <1>7. /\ IsDb(w) /\ w.ok = d.ok /\ w.ver = v /\ w.fks = d.fks /\ w.atts = d.atts
        /\ w.schemas = d.schemas /\ w.rels = d.rels \cup {Alembic!VersionTable}
    BY <1>5, <1>6 DEF IsDb
  <1>8. AtRevision(d)
    BY <1>2, <1>5 DEF AtRevision
  <1>9. Same(w, Revision(v))
    BY <1>2, <1>5, <1>7 DEF Same, AtRevision
  <1>10. IsSession(e) /\ e.base = v /\ e.target = t /\ e.work = w
    BY DEF IsSession
  <1> HIDE DEF e, v
  <1>11. w.ok /\ IsDb(w)
    BY <1>2, <1>5, <1>7 DEF AtRevision
  <1>12. OnTheWay(e)
    BY <1>2, <1>7, <1>10 DEF OnTheWay
  <1>13. OnCourse(e, pgvector)
    BY <1>2, <1>7, <1>9, <1>10, <1>11, <1>12 DEF OnCourse
  <1>14. Alembic!UpgradeFailsOnlyAtHnsw'
    BY <1>1 DEF Alembic!NoOutcome, Alembic!UpgradeFailsOnlyAtHnsw
  <1> QED BY <1>1, <1>8, <1>10, <1>13, <1>14, SessionMoves

\* The version row moves, or the transaction is doomed.
LEMMA StampIs ==
    ASSUME NEW x, IsDb(x), NEW from, NEW to
    PROVE  LET y == Alembic!Stamp(x, from, to) IN
           /\ IsDb(y) /\ y.schemas = x.schemas /\ y.rels = x.rels /\ y.fks = x.fks /\ y.atts = x.atts
           /\ y.ok <=> x.ok /\ Alembic!VersionTable \in x.rels /\ x.ver = from
           /\ y.ver = IF y.ok THEN to ELSE x.ver
  <1> DEFINE y == Alembic!Stamp(x, from, to)
  <1>1. CASE x.ok /\ Alembic!VersionTable \in x.rels /\ x.ver = from
    <2>1. y = [x EXCEPT !.ver = to]
      BY <1>1 DEF Alembic!Stamp
    <2> HIDE DEF y
    <2>2. /\ IsDb(y) /\ y.schemas = x.schemas /\ y.rels = x.rels /\ y.fks = x.fks /\ y.atts = x.atts
          /\ y.ok /\ y.ver = to
      BY <1>1, <2>1 DEF IsDb
    <2> QED BY <1>1, <2>2 DEF y
  <1>2. CASE ~(x.ok /\ Alembic!VersionTable \in x.rels /\ x.ver = from)
    <2>1. y = [x EXCEPT !.ok = FALSE]
      BY <1>2 DEF Alembic!Stamp
    <2> HIDE DEF y
    <2>2. /\ IsDb(y) /\ y.schemas = x.schemas /\ y.rels = x.rels /\ y.fks = x.fks /\ y.atts = x.atts
          /\ ~y.ok /\ y.ver = x.ver
      BY <2>1 DEF IsDb
    <2> QED BY <1>2, <2>2 DEF y
  <1> QED BY <1>1, <1>2

\* context.run_migrations: one revision of the command.
LEMMA MigrateStep ==
    ASSUME SchemaInv, NEW s \in Sessions, Alembic!Migrate(s)
    PROVE  SchemaInv'
  <1> DEFINE c == session[s]
             w == c.work
             v == w.ver
             up == c.target > v
             os == IF up THEN Alembic!Upgrade(v + 1, pgvector) ELSE Alembic!Downgrade(v)
             made == Alembic!ExecAll(w, os)
             u == IF up THEN v + 1 ELSE v - 1
             y == Alembic!Stamp(made, v, u)
             e == [c EXCEPT !.work = y]
  <1>1. /\ c.phase = "running" /\ w.ok /\ v # c.target
        /\ session' = [session EXCEPT ![s].work = y]
        /\ UNCHANGED <<db, pgvector, outcome>>
    BY DEF Alembic!Migrate
  <1>2. OnCourse(c, pgvector) /\ IsSession(c) /\ AtRevision(db) /\ pgvector \in BOOLEAN
        /\ Alembic!UpgradeFailsOnlyAtHnsw
    BY <1>1 DEF SchemaInv
  <1>3. session' = [session EXCEPT ![s] = e]
    BY <1>1 DEF SchemaInv
  <1>4. e = [phase |-> c.phase, base |-> c.base, target |-> c.target, work |-> y]
    BY <1>2 DEF IsSession
  <1> HIDE DEF e
  <1>5. IsSession(e) /\ e.phase = c.phase /\ e.base = c.base /\ e.target = c.target /\ e.work = y
    BY <1>4 DEF IsSession
  <1>6. /\ IsDb(w) /\ v \in 0 .. 11 /\ Same(w, Revision(v))
        /\ c.base \in 0 .. 11 /\ c.target \in 0 .. 11
        /\ v \in c.base .. c.target \/ v \in c.target .. c.base
    BY <1>1, <1>2 DEF OnCourse, OnTheWay
  <1>m. AtRevision(db') /\ Alembic!UpgradeFailsOnlyAtHnsw' /\ pgvector' = pgvector
    BY <1>1, <1>2 DEF Alembic!UpgradeFailsOnlyAtHnsw
  <1>7. CASE up
    <2>1. v \in 0 .. 10 /\ u = v + 1 /\ u \in c.base .. c.target /\ u \in 0 .. 11 /\ made = Up(w, u, pgvector)
      BY <1>6, <1>7 DEF Up
    <2>2. Brings(w, v + 1, pgvector)
      BY <1>1, <1>2, <1>6, <2>1, Upgrades
    <2>3. Follows(made, Revision(u), v) /\ (made.ok \/ (v = 5 /\ pgvector))
      BY <2>1, <2>2 DEF Brings
    <2> HIDE DEF made, u
    <2>4. IsDb(made) /\ made.ver = v /\ (made.ok => Same(made, Revision(u)))
      BY <2>3 DEF Follows
    <2>5. /\ IsDb(y) /\ y.schemas = made.schemas /\ y.rels = made.rels /\ y.fks = made.fks /\ y.atts = made.atts
          /\ y.ok <=> made.ok /\ Alembic!VersionTable \in made.rels /\ made.ver = v
          /\ y.ver = IF y.ok THEN u ELSE made.ver
      BY <2>4, StampIs
    <2> HIDE DEF y
    <2>6. y.ok <=> made.ok
      BY <2>4, <2>5 DEF Same
    <2>7. y.ok => y.ver = u /\ Same(y, Revision(u))
      BY <2>4, <2>5, <2>6 DEF Same
    <2>8. ~y.ok => y.ver = 5 /\ pgvector
      BY <2>3, <2>4, <2>5, <2>6
    <2>9. OnCourse(e, pgvector)
      BY <1>5, <1>6, <2>1, <2>5, <2>7, <2>8 DEF OnCourse, OnTheWay, IsDb
    <2> QED BY <1>m, <1>3, <1>5, <2>9, SessionMoves
  <1>8. CASE ~up
    <2>1. /\ v \in 1 .. 11 /\ u = v - 1 /\ u \in c.target .. c.base /\ u \in 0 .. 11
          /\ made = Down(w, v) /\ ~(c.target > c.base)
      BY <1>1, <1>6, <1>8 DEF Down
    <2>2. Returns(w, v, v - 1)
      BY <1>1, <1>6, <2>1, Downgrades
    <2>3. /\ IsDb(made) /\ made.ver = v
          /\ made.ok /\ Alembic!VersionTable \in made.rels => Same(made, Revision(u))
      BY <2>1, <2>2 DEF Returns
    <2> HIDE DEF made, u
    <2>5. /\ IsDb(y) /\ y.schemas = made.schemas /\ y.rels = made.rels /\ y.fks = made.fks /\ y.atts = made.atts
          /\ y.ok <=> made.ok /\ Alembic!VersionTable \in made.rels /\ made.ver = v
          /\ y.ver = IF y.ok THEN u ELSE made.ver
      BY <2>3, StampIs
    <2> HIDE DEF y
    <2>6. y.ok => y.ver = u /\ Same(y, Revision(u))
      BY <2>3, <2>5 DEF Same
    <2>7. OnCourse(e, pgvector)
      BY <1>5, <1>6, <2>1, <2>5, <2>6 DEF OnCourse, OnTheWay, IsDb
    <2> QED BY <1>m, <1>3, <1>5, <2>7, SessionMoves
  <1> QED BY <1>7, <1>8

\* A process without a command.
LEMMA IdleIs == IsSession(Alembic!Idle) /\ Alembic!Idle.phase = "idle"
  BY DEF Alembic!Idle, IsSession

\* The command commits.
LEMMA CommitStep ==
    ASSUME SchemaInv, NEW s \in Sessions, Alembic!Commit(s)
    PROVE  SchemaInv'
  <1> DEFINE w == session[s].work
  <1>1. /\ session[s].phase = "running" /\ w.ok /\ db' = w
        /\ session' = [session EXCEPT ![s] = Alembic!Idle] /\ pgvector' = pgvector
        /\ outcome'.result = "ok"
    BY DEF Alembic!Commit, Alembic!Ended
  <1>2. OnCourse(session[s], pgvector)
    BY <1>1 DEF SchemaInv
  <1>3. IsDb(w) /\ w.ver \in 0 .. 11 /\ Same(w, Revision(w.ver))
    BY <1>1, <1>2 DEF OnCourse
  <1>4. AtRevision(w)
    BY <1>1, <1>3 DEF AtRevision, Same
  <1>5. Alembic!UpgradeFailsOnlyAtHnsw'
    BY <1>1 DEF Alembic!UpgradeFailsOnlyAtHnsw
  <1>6. AtRevision(db')
    BY <1>1, <1>4
  <1> HIDE DEF w
  <1> QED BY <1>1, <1>5, <1>6, IdleIs, SessionMoves

\* The command fails, or is killed.
LEMMA RollbackStep ==
    ASSUME SchemaInv, NEW s \in Sessions, Alembic!Rollback(s)
    PROVE  SchemaInv'
  <1> DEFINE w == session[s].work
             result == IF db.ver # session[s].base THEN "conflict"
                       ELSE IF w.ok THEN "killed" ELSE "failed"
  <1>1. /\ session[s].phase = "running" /\ session' = [session EXCEPT ![s] = Alembic!Idle]
        /\ db' = db /\ pgvector' = pgvector
        /\ outcome' = [result |-> result, from |-> session[s].base, at |-> w.ver,
                       to |-> session[s].target, vector |-> pgvector]
    BY DEF Alembic!Rollback, Alembic!Ended
  <1>2. OnCourse(session[s], pgvector) /\ AtRevision(db)
    BY <1>1 DEF SchemaInv
  <1>3. Alembic!UpgradeFailsOnlyAtHnsw'
    <2>1. SUFFICES ASSUME outcome'.result = "failed", outcome'.to > outcome'.from
                   PROVE  outcome'.at = 5 /\ outcome'.vector
      BY DEF Alembic!UpgradeFailsOnlyAtHnsw
    <2>2. ~w.ok /\ session[s].target > session[s].base
      BY <1>1, <2>1
    <2>3. w.ver = 5 /\ pgvector
      BY <1>2, <2>2 DEF OnCourse
    <2> QED BY <1>1, <2>3
  <1>4. AtRevision(db')
    BY <1>1, <1>2
  <1> QED BY <1>1, <1>3, <1>4, IdleIs, SessionMoves

\* Every step keeps the invariant.
LEMMA SchemaStep ==
    ASSUME SchemaInv, Alembic!Next
    PROVE  SchemaInv'
  <1>1. ASSUME NEW s \in Sessions, NEW t \in 0 .. Alembic!HeadRevision, Alembic!Begin(s, t)
        PROVE  SchemaInv'
    BY <1>1, BeginStep
  <1>2. ASSUME NEW s \in Sessions, Alembic!Migrate(s)
        PROVE  SchemaInv'
    BY <1>2, MigrateStep
  <1>3. ASSUME NEW s \in Sessions, Alembic!Commit(s)
        PROVE  SchemaInv'
    BY <1>3, CommitStep
  <1>4. ASSUME NEW s \in Sessions, Alembic!Rollback(s)
        PROVE  SchemaInv'
    BY <1>4, RollbackStep
  <1>5. CASE Alembic!InstallPgvector
    <2>1. pgvector' = TRUE /\ UNCHANGED <<db, session, outcome>>
      BY <1>5 DEF Alembic!InstallPgvector
    <2>2. \A s \in Sessions : OnCourse(session[s], pgvector) => OnCourse(session[s], pgvector')
      BY <2>1 DEF OnCourse
    <2> QED BY <2>1, <2>2 DEF SchemaInv, Alembic!UpgradeFailsOnlyAtHnsw
  <1> QED BY <1>1, <1>2, <1>3, <1>4, <1>5 DEF Alembic!Next

\* The version row and the schema agree after any commands, and an upgrade fails
\* at 0006 with pgvector and nowhere else.
THEOREM SchemaIsAlwaysTracked == MCSpec => []SchemaIsTracked
  <1>1. MCInit => SchemaInv
    BY SchemaInit DEF MCInit
  <1>2. SchemaInv /\ [MCNext]_allVars => SchemaInv'
    <2> SUFFICES ASSUME SchemaInv, [MCNext]_allVars
                 PROVE  SchemaInv'
      OBVIOUS
    <2>1. CASE Alembic!Next
      BY <2>1, SchemaStep
    <2>2. CASE UNCHANGED alembicVars
      BY <2>2 DEF alembicVars, SchemaInv, Alembic!UpgradeFailsOnlyAtHnsw
    <2>3. Alembic!Next \/ UNCHANGED alembicVars
      <3>1. CASE UNCHANGED allVars
        BY <3>1 DEF allVars
      <3>2. CASE MCNext
        BY <3>2 DEF MCNext, Rest
      <3> QED BY <3>1, <3>2
    <2> QED BY <2>1, <2>2, <2>3
  <1>3. SchemaInv => SchemaIsTracked
    <2>1. ASSUME SchemaInv PROVE Alembic!VersionMatchesSchema
      <3>1. AtRevision(db)
        BY <2>1 DEF SchemaInv
      <3> QED BY <3>1 DEF AtRevision, Revision, Alembic!VersionMatchesSchema
    <2> QED BY <2>1 DEF SchemaInv, SchemaIsTracked, Alembic!SchemaIsTracked
  <1> QED BY <1>1, <1>2, <1>3, PTL DEF MCSpec
=============================================================================
