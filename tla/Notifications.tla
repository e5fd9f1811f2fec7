--------------------------- MODULE Notifications ----------------------------
(* motor/notifications.py: NotificationDispatcher.escalate_notify.  The        *)
(* webhook is tried three times; the receiver may take a request whose answer  *)
(* is lost.  The e-mail and Slack notifiers are placeholders that log, reach   *)
(* nobody and answer True.                                                     *)
EXTENDS Naturals, FiniteSets

CONSTANTS Notices, MaxRetries

VARIABLES notice,    \* each call: [pc, level, attempt, webhook (its answer), any]
          received   \* requests the webhook's receiver took, per notice
notifyVars == <<notice, received>>

Channels(level) == {"webhook"} \cup (IF level >= 2 THEN {"email"} ELSE {})
                               \cup (IF level >= 3 THEN {"slack"} ELSE {})

New == [pc |-> "new", level |-> 0, attempt |-> 0, webhook |-> FALSE, any |-> FALSE]
Init == notice = [n \in Notices |-> New] /\ received = [n \in Notices |-> 0]

\* escalate_notify and the head of WebhookNotifier.send: HITL_WEBHOOK_URL may be unset.
escalate_notify(n, level, url) ==
    /\ notice[n].pc = "new"
    /\ notice' = [notice EXCEPT ![n] = [New EXCEPT !.pc = IF url THEN "post" ELSE "rest",
                                         !.level = level, !.attempt = IF url THEN 1 ELSE 0]]
    /\ UNCHANGED received

\* One POST: answered with 2xx, taken but not answered in time, or not taken.
post(n, taken, answered) ==
    LET call == notice[n] IN
    /\ call.pc = "post" /\ (answered => taken)
    /\ received' = IF taken THEN [received EXCEPT ![n] = @ + 1] ELSE received
    /\ notice' = [notice EXCEPT ![n] =
           IF ~answered /\ call.attempt < MaxRetries
           THEN [call EXCEPT !.attempt = call.attempt + 1]
           ELSE [call EXCEPT !.pc = "rest", !.webhook = answered]]

\* The placeholders of the level's other channels, and any(results).
rest(n) ==
    LET others == Channels(notice[n].level) \ {"webhook"} IN
    /\ notice[n].pc = "rest"
    /\ notice' = [notice EXCEPT ![n].pc = "done", ![n].any = notice[n].webhook \/ others # {}]
    /\ UNCHANGED received

Next == \E n \in Notices :
           \/ \E level \in 1..3, url \in BOOLEAN : escalate_notify(n, level, url)
           \/ \E taken, answered \in BOOLEAN : post(n, taken, answered)
           \/ rest(n)

-----------------------------------------------------------------------------
\* The webhook answers True only if the receiver has the notice, and never sends
\* it more often than there are attempts; escalate_notify answers True without a
\* receiver only from the second level on, where the placeholders speak for
\* channels that deliver nothing; False may still mean that it was taken.
NoticeIsBounded ==
    \A n \in Notices :
        /\ received[n] <= MaxRetries
        /\ notice[n].webhook => received[n] > 0
        /\ notice[n].any /\ received[n] = 0 => notice[n].level >= 2
=============================================================================
