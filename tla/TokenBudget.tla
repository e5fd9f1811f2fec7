---------------------------- MODULE TokenBudget -----------------------------
(* llm/budget.py: one caller's hourly token budget, used by several of its     *)
(* tasks as the docstring says: check_budget, the LLM call, record_usage.      *)
(* asyncio.Lock makes each of the two one step; nothing holds it in between.   *)
(* _check_spike and get_usage_stats only report.                               *)
EXTENDS Naturals

CONSTANTS Tasks, Limit, Estimates,
          MaxUsed  \* bound: a task starts only while used is below it

VARIABLES used,      \* entry.used
          stale,     \* the entry's window is over, and nobody has looked since
          task,      \* what each task has asked for and not recorded yet
          excess     \* history: tokens the check of the call recorded last could not know of

budgetVars == <<used, stale, task, excess>>

\* window: the task was let through in the window that is under way; behind:
\* history, what others have recorded in it since.
NoCall == [asked |-> 0, behind |-> 0, window |-> FALSE]

Init == used = 0 /\ stale = FALSE /\ task = [t \in Tasks |-> NoCall] /\ excess = 0

\* _get_or_create: the first look after the window starts another.
Used == IF stale THEN 0 ELSE used
\* A new window: whoever was let through earlier is of another window.
Entered == IF stale THEN [t \in Tasks |-> [task[t] EXCEPT !.behind = 0, !.window = FALSE]] ELSE task
Excess == IF stale THEN 0 ELSE excess

\* check_budget's test.
Affordable(tokens) == Used + tokens <= Limit

check_budget(t, tokens) ==
    /\ task[t] = NoCall /\ Used < MaxUsed
    /\ used' = Used /\ stale' = FALSE
    /\ excess' = Excess
    /\ task' = IF Affordable(tokens)
               THEN [Entered EXCEPT ![t] = [asked |-> tokens, behind |-> 0, window |-> TRUE]]
               ELSE Entered

\* The call is over and used some tokens, more or less than it had asked for.
\* The other calls of the window were let through without them.
record_usage(t, tokens) ==
    LET c == Entered[t]
        more == IF tokens > c.asked THEN tokens - c.asked ELSE 0
    IN /\ task[t].asked > 0
       /\ used' = Used + tokens /\ stale' = FALSE
       /\ task' = [x \in Tasks |->
                      IF x = t THEN NoCall
                      ELSE IF Entered[x].window THEN [Entered[x] EXCEPT !.behind = @ + tokens]
                      ELSE Entered[x]]
       /\ excess' = IF c.window THEN c.behind + more ELSE Excess + tokens

\* The call fails: the caller records nothing.
CallFails(t) == /\ task[t].asked > 0
                /\ task' = [task EXCEPT ![t] = NoCall]
                /\ UNCHANGED <<used, stale, excess>>

\* _WINDOW_SECONDS have passed since window_start.
WindowEnds == ~stale /\ stale' = TRUE /\ UNCHANGED <<used, task, excess>>

Next == \/ \E t \in Tasks, n \in Estimates : check_budget(t, n) \/ record_usage(t, n)
        \/ \E t \in Tasks : CallFails(t)
        \/ WindowEnds

-----------------------------------------------------------------------------
\* The limit of a window is passed only by what the checks could not know: by what
\* others recorded between the check and the record of the call recorded last, by
\* what that call used beyond what it had asked for, and by calls that were let
\* through in the window before.  Calls that do not overlap keep within it.
OverdraftIsExplained == used <= Limit + excess
=============================================================================
