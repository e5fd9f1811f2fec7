--------------------------- MODULE PromptRegistry ---------------------------
(* control/prompt_governance.py for one template code: sessions that register, *)
(* deactivate and read it.  A call reads the active row first and writes at    *)
(* its flush; template_code is UNIQUE in the schema, so that an INSERT waits   *)
(* for another session's uncommitted row of the code and fails after it.       *)
EXTENDS Naturals, FiniteSets

CONSTANTS Editors,
          Versions,  \* MAJOR.MINOR.PATCH, ordered as numbers; 0 is a string that does not parse
          MaxCalls   \* bound: calls made

VARIABLES template, \* committed rows: version and is_active
          edit,     \* each session's call: what it read and what it has written
          calls,
          answers   \* history: versions for which register reported success and was committed

promptVars == <<template, edit, calls, answers>>

NoEdit == [pc |-> "none", version |-> 0, found |-> {}]

Init == /\ template = {} /\ edit = [e \in Editors |-> NoEdit]
        /\ calls = 0 /\ answers = {}

\* _find_active: any one of the active rows.
find_active ==
    LET rows == {t.version : t \in {x \in template : x.active}}
    IN IF rows = {} THEN {{}} ELSE {{v} : v \in rows}

\* register up to _find_active; a version that does not parse is refused at once.
register(e, v) ==
    /\ edit[e].pc = "none" /\ calls < MaxCalls /\ calls' = calls + 1
    /\ IF v = 0 THEN UNCHANGED edit
       ELSE \E f \in find_active : edit' = [edit EXCEPT ![e] = [pc |-> "register", version |-> v, found |-> f]]
    /\ UNCHANGED <<template, answers>>
deactivate(e) ==
    /\ edit[e].pc = "none" /\ calls < MaxCalls /\ calls' = calls + 1
    /\ \E f \in find_active : edit' = [edit EXCEPT ![e] = [pc |-> "deactivate", version |-> 0, found |-> f]]
    /\ UNCHANGED <<template, answers>>

Waits(e) == \E x \in Editors \ {e} : edit[x].pc = "inserted"

\* The UNIQUE index of migration 0001.
Unique(v) == template = {}

\* register's version test and its flush: the new row, or an exception after
\* which the owner's transaction is rolled back.
insert(e) ==
    /\ edit[e].pc = "register" /\ ~Waits(e)
    /\ edit' = [edit EXCEPT ![e] = IF (\A f \in @.found : @.version > f) /\ Unique(@.version)
                                   THEN [@ EXCEPT !.pc = "inserted"] ELSE NoEdit]
    /\ UNCHANGED <<template, calls, answers>>

Deactivated(found) == {[t EXCEPT !.active = @ /\ t.version \notin found] : t \in template}

commit(e) ==
    /\ edit[e].pc \in {"inserted", "deactivate"}
    /\ template' = Deactivated(edit[e].found) \cup
          (IF edit[e].pc = "inserted" THEN {[version |-> edit[e].version, active |-> TRUE]} ELSE {})
    /\ answers' = IF edit[e].pc = "inserted" THEN answers \cup {edit[e].version} ELSE answers
    /\ edit' = [edit EXCEPT ![e] = NoEdit]
    /\ UNCHANGED calls
rollback(e) ==
    /\ edit[e].pc # "none"
    /\ edit' = [edit EXCEPT ![e] = NoEdit] /\ UNCHANGED <<template, calls, answers>>

Next == \E e \in Editors : \/ \E v \in Versions \cup {0} : register(e, v)
                            \/ deactivate(e) \/ insert(e) \/ commit(e) \/ rollback(e)

Spec == Init /\ [][Next]_promptVars

-----------------------------------------------------------------------------
\* "get_active() always returns a single unambiguous row", although register
\* reads the active row long before it writes; and a version that was accepted
\* is never replaced by a lower one.
OneActiveTemplate ==
    LET active == {t.version : t \in {x \in template : x.active}}
    IN Cardinality(active) <= 1 /\ \A v \in active, a \in answers : a <= v
=============================================================================
