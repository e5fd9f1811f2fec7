--------------------------- MODULE MCProvisioning ---------------------------
(* The database before and beside the services: migrations, partitions, loaders*)
(* and seeds, the agent's ledger, the prompt registry, and the retrieval of    *)
(* evidence from what was loaded.  They share no state, so each part is        *)
(* explored on its own while the others rest.                                  *)
EXTENDS Loaders, TLC
CONSTANTS p1, p2, a1, a2, Sessions, Targets, HnswMaxDim,
          LastMonth, MaxFailures, MaxEvents, MaxCommits, Versions, MaxCalls,
          Lists, EntityLists, Texts, max_tokens, overlap_tokens, min_tokens, CharsPerToken
VARIABLES part,
          db, pgvector, session, outcome,
          now, parts, filled, step, ensured, swept, failures,
          run, copy, final, stale, recorded, commits,
          template, edit, calls, answers,
          request, stage, items, aborted, pack,
          text, chunks, stored, novel

Alembic == INSTANCE Migrations
Keep    == INSTANCE Retention
Audit   == INSTANCE Ledger
Prompts == INSTANCE PromptRegistry WITH Editors <- Sessions
Pack    == INSTANCE EvidencePack
Chunks  == INSTANCE Chunker

\* The index that 0002 creates, of 1536 dimensions, is one pgvector takes.
ASSUME TargetsAreRevisions ==
    /\ Targets \subseteq 0..Alembic!HeadRevision
    /\ HnswMaxDim \in Nat /\ HnswMaxDim >= 1536
ASSUME VersionsAreOrdered == Versions \subseteq Nat \ {0}
\* _estimate_token_count is never 0; stage 1 looks for hosts and services.
ASSUME ListsAreCosts ==
    /\ Lists \subseteq Seq(Nat \ {0})
    /\ EntityLists \subseteq Seq([class : {"host", "service"}, cost : Nat \ {0}])
\* A paragraph is not empty, and 0 is the newline.
ASSUME TextsAreParagraphs ==
    /\ Texts \subseteq Seq([word : Nat \ {0}, len : Nat \ {0}, level : Nat])
    /\ {max_tokens, overlap_tokens, min_tokens} \subseteq Nat /\ CharsPerToken \in Nat \ {0}

alembicVars == <<db, pgvector, session, outcome>>
keepVars    == <<now, parts, filled, step, ensured, swept, failures>>
auditVars   == <<run, copy, final, stale, recorded, commits>>
promptVars  == <<template, edit, calls, answers>>
packVars    == <<request, stage, items, aborted, pack>>
chunkVars   == <<text, chunks, stored, novel>>
allVars == <<part, vars, alembicVars, keepVars, auditVars, promptVars, packVars, chunkVars>>

MCInit == /\ part \in {"schema", "rows", "retention", "ledger", "prompts", "pack", "chunks"}
          /\ Init /\ Alembic!Init /\ Keep!Init /\ Audit!Init /\ Prompts!Init
          /\ IF part = "pack" THEN Pack!Init
             ELSE request = "none" /\ stage = "end" /\ items = <<>> /\ aborted = FALSE /\ pack = [result |-> "none"]
          /\ IF part = "chunks" THEN Chunks!Init
             ELSE text = <<>> /\ chunks = <<>> /\ stored = {} /\ novel = <<>>
          /\ part # "schema" => pgvector = FALSE

\* Only the part p moves.
Rest(p) == /\ part = p /\ UNCHANGED part
           /\ IF p = "rows" THEN TRUE ELSE UNCHANGED vars
           /\ IF p = "schema" THEN TRUE ELSE UNCHANGED alembicVars
           /\ IF p = "retention" THEN TRUE ELSE UNCHANGED keepVars
           /\ IF p = "ledger" THEN TRUE ELSE UNCHANGED auditVars
           /\ IF p = "prompts" THEN TRUE ELSE UNCHANGED promptVars
           /\ IF p = "pack" THEN TRUE ELSE UNCHANGED packVars
           /\ IF p = "chunks" THEN TRUE ELSE UNCHANGED chunkVars

MCNext == \/ Rest("rows") /\ Next
          \/ Rest("schema") /\ Alembic!Next
          \/ Rest("retention") /\ Keep!Next
          \/ Rest("ledger") /\ Audit!Next
          \/ Rest("prompts") /\ Prompts!Next
          \/ Rest("pack") /\ Pack!Next
          \/ Rest("chunks") /\ Chunks!Next

MCSpec == MCInit /\ [][MCNext]_allVars

\* Migrations: version row and schema agree, and the chain never blocks itself.
SchemaIsTracked == Alembic!SchemaIsTracked
\* Loaders: loads that do not race leave one row per key, and a load that says
\* it is done has written all its rows or none.
LoadsAreSound == UpsertsAreUnique /\ DoneIsAllOrNothing
\* Retention: there is a partition to write to.
PartitionsCover == Keep!PartitionsCover
\* EvidencePack and Chunker: a pack that is persisted is complete, ordered and
\* within its budget, and no text is lost on its way into the index.
PackIsSound == (part = "pack" => Pack!PackIsSound) /\ Chunks!NoTextIsLost
\* Ledger and PromptRegistry: an ended run stays ended and one template is active.
BooksAreRight == Audit!RunStaysClosed /\ Prompts!OneActiveTemplate

\* Two audits: in the first the GPU list of the orchestrator is malformed.
MCAudit == << << [alias |-> "orchestrator", kind |-> "badgpu", os |-> "ubuntu", gpus |-> {"g1"}, running |-> 0],
                 [alias |-> "hz62", kind |-> "error", os |-> "", gpus |-> {}, running |-> 0] >>,
              << [alias |-> "orchestrator", kind |-> "ok", os |-> "ubuntu", gpus |-> {"g1"}, running |-> 0],
                 [alias |-> "postgres-main", kind |-> "ok", os |-> "arch", gpus |-> {}, running |-> 2] >> >>
MCPosture == << [alias |-> "orchestrator", ok |-> TRUE, safe |-> TRUE, name |-> {"n8n"}],
                [alias |-> "hz62", ok |-> TRUE, safe |-> TRUE, name |-> {}],
                [alias |-> "postgres-main", ok |-> TRUE, safe |-> FALSE, name |-> {"kafka"}] >>
MCTrust == << [alias |-> "orchestrator", ok |-> TRUE, safe |-> TRUE, root |-> TRUE, password |-> FALSE],
              [alias |-> "hz62", ok |-> FALSE, safe |-> TRUE, root |-> FALSE, password |-> FALSE] >>
MCEndpoints == {[name |-> "e1", ok |-> TRUE, error |-> ""], [name |-> "e2", ok |-> FALSE, error |-> "tls"]}
\* kafka, n8n and a planned service: the codes loader and seed share come in the
\* opposite order of the posture file.
MCSeedRows == <<26, 27, 33>>
\* What the queries of a pack return: token costs, and registry rows.
MCLists == {<<>>, <<1>>, <<6, 1>>}
Item(class, cost) == [class |-> class, cost |-> cost]
MCEntityLists == {<<>>, <<Item("host", 1)>>, <<Item("service", 1)>>,
                  <<Item("host", 1), Item("service", 1)>>, <<Item("host", 7), Item("service", 6)>>}
\* Documents of up to three paragraphs.
Paragraphs == [word : {1, 2}, len : {1, 2, 5}, level : {0, 1, 2}]
MCTexts == UNION {[1 .. n -> Paragraphs] : n \in 0 .. 3}
Symmetry == Permutations({p1, p2}) \cup Permutations({a1, a2})
=============================================================================
