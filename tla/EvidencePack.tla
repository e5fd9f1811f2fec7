---------------------------- MODULE EvidencePack ----------------------------
(* retrieval/broker.py with task_types.py and ranker.py: the assembly of one   *)
(* evidence pack.  Tokens are counted in thousands; a query answers with a     *)
(* list of costs, already cut at max_items_per_stage.                          *)
EXTENDS SubSequences, FiniteSetsExt

CONSTANTS Lists,      \* what a query of stage 2, 3 or 4 may return
          EntityLists \* what the lookups of stage 1 may return: registry rows with their cost

VARIABLES request,    \* task type, whether there is a lexical query, and the query vector
          stage, items,
          aborted,    \* the server has aborted the session's transaction
          pack        \* what assemble returned, or persisted

packVars == <<request, stage, items, aborted, pack>>

\* _CONTRACTS.
Contract(budget, mandatory, recommended, disallowed, order) ==
    [budget |-> budget, mandatory |-> mandatory, recommended |-> recommended,
     disallowed |-> disallowed, order |-> order]
InfrastructureAudit == Contract(8, {"host", "artifact"},
    {"doc", "service", "ownership", "fact", "lexical"}, {"application", "semantic"},
    <<"host", "artifact", "service", "doc", "lexical">>)
ServiceHealthCheck == Contract(4, {"service", "doc", "artifact"},
    {"host", "ownership", "lexical"}, {"semantic"}, <<"service", "doc", "artifact", "host">>)
RegistryReconciliation == Contract(12, {"host", "service", "artifact", "fact"},
    {"doc", "ownership", "term"}, {"lexical", "semantic"},
    <<"host", "service", "artifact", "fact", "doc">>)
DocumentValidation == Contract(2, {"doc", "schema", "term"}, {},
    {"host", "service", "lexical", "semantic"}, <<"doc", "schema", "term">>)
DocumentAuthoring == Contract(6, {"doc", "schema", "term"},
    {"service", "host", "lexical", "semantic"}, {},
    <<"doc", "schema", "term", "service", "host", "lexical", "semantic">>)
ChangePlanning == Contract(10, {"host", "service", "doc", "artifact", "ownership"},
    {"fact", "lexical"}, {"semantic"}, <<"host", "service", "artifact", "doc", "ownership">>)
PolicyCompliance == Contract(6, {"doc"},
    {"host", "service", "artifact", "ownership", "lexical"}, {"semantic"},
    <<"doc", "host", "service", "artifact">>)
get_contract ==
    [TT001 |-> InfrastructureAudit, TT002 |-> ServiceHealthCheck, TT003 |-> RegistryReconciliation,
     TT004 |-> DocumentValidation, TT005 |-> DocumentAuthoring, TT006 |-> ChangePlanning,
     TT007 |-> PolicyCompliance]

contract == get_contract[request.task]
Scope == contract.mandatory \cup contract.recommended
\* What the items at positions ks cost together: their tokens, counted one by one.
Cost(is, ks) == Cardinality(UNION {{k} \X (1 .. is[k].cost) : k \in ks})
Tokens(is) == Cost(is, DOMAIN is)
Left(used) == IF contract.budget > used THEN contract.budget - used ELSE 0
Classes(is) == {is[k].class : k \in DOMAIN is}

NoPack == [result |-> "none", items |-> <<>>]
Init == /\ request \in [task : DOMAIN get_contract, lexical : BOOLEAN, vector : {"none", "right", "wrong"}]
        /\ stage = "exact" /\ items = <<>> /\ aborted = FALSE /\ pack = NoPack

Goto(next, is) == stage' = next /\ items' = is /\ UNCHANGED <<request, aborted, pack>>
Ended(result, is) == stage' = "end" /\ pack' = [result |-> result, items |-> is]

-----------------------------------------------------------------------------
\* _stage1_exact_lookup: a host, else a service, if the contract has the class;
\* the budget is not looked at.
exact_lookup(found) ==
    /\ stage = "exact"
    /\ Goto("artifact", At(found, {k \in DOMAIN found : found[k].class \in Scope}))

\* The items of a list that fit, up to the first that does not.
\* Mutant: each query may use the whole budget.
Prefix(class, costs, budget) ==
    LET found == [k \in DOMAIN costs |-> [class |-> class, cost |-> costs[k]]]
    IN SubSeq(found, 1, Max({n \in 0 .. Len(costs) : Cost(found, 1 .. n) <= budget}))
Fitting_WholeBudget(class, costs) == Prefix(class, costs, contract.budget)
Fitting(class, costs) == Prefix(class, costs, Left(Tokens(items)))

\* _stage2_metadata_filter: artifacts, facts, ownership and documents in turn,
\* as long as the contract has the class and some budget is left.
Collect(class, next, costs) ==
    /\ stage = class
    /\ Goto(next, IF class \in Scope /\ Tokens(items) < contract.budget
                  THEN items \o Fitting(class, costs) ELSE items)
metadata_filter(costs) ==
    \/ Collect("artifact", "fact", costs) \/ Collect("fact", "ownership", costs)
    \/ Collect("ownership", "doc", costs) \/ Collect("doc", "lexical", costs)

\* _stage3_lexical: any contract that does not forbid the class.
lexical_search(costs) ==
    /\ stage = "lexical"
    /\ Goto("semantic", IF request.lexical /\ Tokens(items) < contract.budget
                           /\ "lexical" \notin contract.disallowed
                        THEN items \o Fitting("lexical", costs) ELSE items)

\* _stage4_semantic: an error of the query is taken for no result, but leaves
\* the session in an aborted transaction.
Semantic == /\ request.vector # "none" /\ "semantic" \in contract.recommended
            /\ Tokens(items) < contract.budget
semantic_search(costs) ==
    /\ stage = "semantic"
    /\ IF Semantic /\ request.vector = "wrong"
       THEN Ended("raised", <<>>) /\ UNCHANGED <<request, items, aborted>>
       ELSE Goto("rank", IF Semantic THEN items \o Fitting("semantic", costs) ELSE items)
semantic_unavailable ==
    /\ stage = "semantic" /\ Semantic /\ request.vector = "right"
    /\ stage' = "rank" /\ aborted' = TRUE /\ UNCHANGED <<request, items, pack>>

-----------------------------------------------------------------------------
(* Ranker.                                                                   *)
tier_for(class) == CASE class = "semantic" -> 3
                     [] class # "semantic" /\ class \in contract.mandatory -> 0
                     [] class # "semantic" /\ class \in contract.recommended -> 1
                     [] OTHER -> 2
order_position(class) ==
    Min({k \in DOMAIN contract.order : contract.order[k] = class} \cup {Len(contract.order) + 1})

\* sorted by (tier, order_position, token_count, item_index).
Before(is, j, k) ==
    LET a == is[j] b == is[k] IN
    \/ tier_for(a.class) < tier_for(b.class)
    \/ /\ tier_for(a.class) = tier_for(b.class)
       /\ \/ order_position(a.class) < order_position(b.class)
          \/ /\ order_position(a.class) = order_position(b.class)
             /\ a.cost < b.cost \/ (a.cost = b.cost /\ j < k)
Sorted(is) == [n \in DOMAIN is |->
    is[CHOOSE k \in DOMAIN is : Cardinality({j \in DOMAIN is : Before(is, j, k)}) = n - 1]]

\* _select: mandatory items whatever they cost, others as they fit; which of the
\* first n are taken.
Kept(is) ==
    LET kept[n \in 0 .. Len(is)] ==
          IF n = 0 THEN {}
          ELSE IF tier_for(is[n].class) = 0 \/ is[n].cost <= Left(Cost(is, kept[n - 1]))
               THEN kept[n - 1] \cup {n} ELSE kept[n - 1]
    IN kept
select(is) == At(is, Kept(is)[Len(is)])
rank(is) == select(Sorted(is))

\* validate_pack_classes.
Violations(is) == (contract.mandatory \ Classes(is)) \cup (contract.disallowed \cap Classes(is))

\* Documents and chunks are given _UNKNOWN_KIND_TERM_ID for their kind, a row
\* of taxonomy_term that nothing inserts.
UnknownKind == {"doc", "lexical", "semantic"}

\* Stages 5 and 6: refused with its violations, or persisted by two flushes;
\* a flush raises in an aborted transaction, and at an item of unknown kind.
finish ==
    /\ stage = "rank"
    /\ LET is == rank(items)
           refused == aborted \/ Classes(is) \cap UnknownKind # {}
       IN CASE Violations(is) # {} -> Ended("refused", <<>>)
            [] Violations(is) = {} /\ refused -> Ended("raised", <<>>)
            [] OTHER -> Ended("persisted", is)
    /\ UNCHANGED <<request, items, aborted>>

\* Any other statement the server rejects ends the call, and its owner rolls back.
query_fails ==
    /\ stage \notin {"end", "semantic"}
    /\ Ended("raised", <<>>) /\ UNCHANGED <<request, items, aborted>>

Next == \/ \E found \in EntityLists : exact_lookup(found)
        \/ \E costs \in Lists : metadata_filter(costs) \/ lexical_search(costs) \/ semantic_search(costs)
        \/ semantic_unavailable \/ finish \/ query_fails

Spec == Init /\ [][Next]_packVars

-----------------------------------------------------------------------------
\* A pack that is persisted holds every mandatory class and no forbidden one,
\* comes mandatory first, keeps within the contract's budget, although stage 1
\* and the mandatory items do not look at it, and lacks nothing that was
\* collected; and only audits and reconciliations are ever persisted: every other
\* contract wants a document, whose kind the server does not know.
PackIsSound ==
    pack.result = "persisted" =>
      LET is == pack.items
      IN /\ contract.mandatory \subseteq Classes(is)
         /\ contract.disallowed \cap Classes(is) = {}
         /\ \A j, k \in DOMAIN is : j < k => tier_for(is[j].class) <= tier_for(is[k].class)
         /\ Tokens(is) <= contract.budget
         /\ Len(is) = Len(items)
         /\ request.task \in {"TT001", "TT003"}
=============================================================================
