----------------------------- MODULE Migrations -----------------------------
(* The alembic chain 0001 .. 0011 of src/internalcmdb/migrations as a state    *)
(* machine over the schema.  A revision is the sequence of its DDL statements; *)
(* a statement is a record, and Exec is what PostgreSQL does with it.  Columns *)
(* and types are abstracted, except the ones a later revision alters; kept are *)
(* the relations, their schemas, the foreign keys, views, triggers and indexes *)
(* other statements depend on, and the embedding column's type.                *)
EXTENDS Naturals, FiniteSets, Sequences

CONSTANTS Sessions,     \* processes that run an alembic command
          Targets,      \* revisions named by an "upgrade <rev>" or "downgrade <rev>"
          HnswMaxDim    \* widest vector an HNSW index takes (a fact of pgvector)

VARIABLES db,        \* the committed database
          pgvector,  \* pg_available_extensions lists "vector"
          session,   \* what each alembic process is doing
          outcome    \* the end of the last command

vars == <<db, pgvector, session, outcome>>

HeadRevision == 11
Schemas1 == {"taxonomy", "docs", "discovery", "governance", "registry",
             "retrieval", "agent_control"}

-----------------------------------------------------------------------------
(* Statements.                                                               *)
Schema(s)         == [do |-> "schema", on |-> s, in |-> s, refs |-> {}]
Relation(s, n, r) == [do |-> "create", on |-> n, in |-> s, refs |-> r]
View(s, n, r)     == [do |-> "view", on |-> n, in |-> s, refs |-> r]
ForeignKey(n, r)  == [do |-> "fk", on |-> n, in |-> "none", refs |-> r]
Unlink(n, r)      == [do |-> "unlink", on |-> n, in |-> "none", refs |-> r]
Add(n, a)         == [do |-> "add", on |-> n, in |-> "none", refs |-> a]
AddMissing(n, a)  == [do |-> "addmissing", on |-> n, in |-> "none", refs |-> a]
Del(n, a)         == [do |-> "del", on |-> n, in |-> "none", refs |-> a]
DelPresent(n, a)  == [do |-> "delpresent", on |-> n, in |-> "none", refs |-> a]
Drop(n)           == [do |-> "drop", on |-> n, in |-> "none", refs |-> {}]
DropPresent(n)    == [do |-> "droppresent", on |-> n, in |-> "none", refs |-> {}]
DropCascade(n)    == [do |-> "cascade", on |-> n, in |-> "none", refs |-> {}]
DropSchema(s)     == [do |-> "rmschema", on |-> s, in |-> s, refs |-> {}]
DropSchemaCascade(s) == [do |-> "rmschemacascade", on |-> s, in |-> s, refs |-> {}]
Extension         == [do |-> "extension", on |-> "none", in |-> "none", refs |-> {}]
Embedding(dim)    == [do |-> "embedding", on |-> "chunk_embedding", in |-> "none", refs |-> {dim}]
Hnsw              == [do |-> "hnsw", on |-> "chunk_embedding", in |-> "none", refs |-> {}]
DropHnsw          == [do |-> "drophnsw", on |-> "chunk_embedding", in |-> "none", refs |-> {}]

Names(d) == {r.n : r \in d.rels}
Text == 0      \* dimension that stands for a TEXT embedding column

\* Others that still point at relation n.
Dependents(d, n) == {f \in d.fks : f.to = n /\ f.of # n}

\* What DROP ... CASCADE of the relations in ns leaves: constraints on them and
\* views over them go too, other relations stay.
Without(d, ns) ==
    LET views == {r.n : r \in {x \in d.rels : x.k = "view"
                               /\ \E f \in d.fks : f.of = x.n /\ f.to \in ns}}
        gone  == ns \cup views
    IN [d EXCEPT !.rels = {r \in @ : r.n \notin gone},
                 !.fks  = {f \in @ : f.of \notin gone /\ f.to \notin gone},
                 !.atts = {a \in @ : a.of \notin gone}]

\* The statements PostgreSQL accepts in database d.
Legal(d, o) ==
    CASE o.do \in {"create", "view"} ->
            /\ o.in \in d.schemas /\ o.on \notin Names(d)
            /\ o.refs \subseteq Names(d) \cup {o.on}
      [] o.do = "fk"     -> {o.on} \cup o.refs \subseteq Names(d)
      [] o.do = "add"    -> o.on \in Names(d)
                            /\ \A a \in o.refs : [of |-> o.on, a |-> a] \notin d.atts
      [] o.do \in {"addmissing", "delpresent", "unlink"} -> o.on \in Names(d)
      [] o.do = "del"    -> \A a \in o.refs : [of |-> o.on, a |-> a] \in d.atts
      [] o.do = "drop"   -> o.on \in Names(d) /\ Dependents(d, o.on) = {}
      [] o.do = "droppresent" -> Dependents(d, o.on) = {}
      [] o.do = "rmschema"  -> \A r \in d.rels : r.s # o.on
      [] o.do = "embedding" -> /\ o.on \in Names(d)
                               /\ o.refs # {Text} => d.extension
                               /\ o.refs = {Text} => ~d.hnsw
      [] o.do = "hnsw"      -> d.embedding \in 1..HnswMaxDim
      [] OTHER -> TRUE      \* schema, cascading drops, extension, drophnsw

Effect(d, o) ==
    CASE o.do = "schema" -> [d EXCEPT !.schemas = @ \cup {o.on}]
      [] o.do \in {"create", "view"} ->
            [d EXCEPT !.rels = @ \cup {[n |-> o.on, s |-> o.in,
                                        k |-> IF o.do = "view" THEN "view" ELSE "table"]},
                      !.fks = @ \cup {[of |-> o.on, to |-> t] : t \in o.refs},
                      !.embedding = IF o.on = "chunk_embedding" THEN Text ELSE @]
      [] o.do = "fk"     -> [d EXCEPT !.fks = @ \cup {[of |-> o.on, to |-> t] : t \in o.refs}]
      [] o.do = "unlink" -> [d EXCEPT !.fks = @ \ {[of |-> o.on, to |-> t] : t \in o.refs}]
      [] o.do \in {"add", "addmissing"} ->
            [d EXCEPT !.atts = @ \cup {[of |-> o.on, a |-> a] : a \in o.refs}]
      [] o.do \in {"del", "delpresent"} ->
            [d EXCEPT !.atts = @ \ {[of |-> o.on, a |-> a] : a \in o.refs}]
      [] o.do \in {"drop", "droppresent", "cascade"} ->
            [Without(d, {o.on}) EXCEPT !.hnsw = @ /\ o.on # "chunk_embedding"]
      [] o.do \in {"rmschema", "rmschemacascade"} ->
            [Without(d, {r.n : r \in {x \in d.rels : x.s = o.on}})
                EXCEPT !.schemas = @ \ {o.on}, !.hnsw = @ /\ o.on # "retrieval"]
      [] o.do = "extension" -> [d EXCEPT !.extension = TRUE]
      [] o.do = "embedding" -> [d EXCEPT !.embedding = CHOOSE n \in o.refs : TRUE]
      [] o.do = "hnsw"      -> [d EXCEPT !.hnsw = TRUE]
      [] o.do = "drophnsw"  -> [d EXCEPT !.hnsw = FALSE]

\* One statement of an open transaction; the first error dooms the rest of it.
Exec(d, o) == IF d.ok /\ Legal(d, o) THEN Effect(d, o) ELSE [d EXCEPT !.ok = FALSE]
Running(d, os) ==
    LET run[k \in 0..Len(os)] == IF k = 0 THEN d ELSE Exec(run[k - 1], os[k])
    IN run
ExecAll(d, os) == Running(d, os)[Len(os)]

-----------------------------------------------------------------------------
(* 0001: the wave-1 schema, in the order the file creates it.                *)
Up1Schemas == << Schema("taxonomy"), Schema("docs"), Schema("discovery"), Schema("governance"),
                 Schema("registry"), Schema("retrieval"), Schema("agent_control") >>
Up1Taxonomy == << Relation("taxonomy", "taxonomy_domain", {}),
                  Relation("taxonomy", "taxonomy_term", {"taxonomy_domain", "taxonomy_term"}) >>
Up1Docs == << Relation("docs", "document", {"taxonomy_term"}),
              Relation("docs", "document_version", {"document"}),
              ForeignKey("document", {"document_version"}),
              Relation("docs", "document_entity_binding", {"document_version", "taxonomy_term"}) >>
Up1Collection == << Relation("discovery", "discovery_source", {"taxonomy_term"}),
                    Relation("discovery", "collection_run", {"discovery_source", "taxonomy_term"}),
                    Relation("discovery", "observed_fact", {"collection_run", "taxonomy_term"}),
                    Relation("discovery", "evidence_artifact", {"collection_run", "taxonomy_term"}) >>
Up1Governance == << Relation("discovery", "reconciliation_result",
                             {"taxonomy_term", "collection_run", "document_version"}),
                    Relation("governance", "policy_record", {"document_version"}),
                    Relation("governance", "approval_record", {"taxonomy_term"}) >>
Up1Hosts == << Relation("registry", "cluster", {"taxonomy_term"}),
               Relation("registry", "host", {"cluster", "taxonomy_term"}) >>
Up1Membership == << Relation("registry", "host_role_assignment", {"host", "taxonomy_term", "collection_run"}),
                    Relation("registry", "cluster_membership",
                             {"cluster", "host", "taxonomy_term", "collection_run"}),
                    Relation("registry", "host_hardware_snapshot", {"host", "collection_run"}) >>
Up1Network == << Relation("registry", "gpu_device", {"host", "collection_run"}),
                 Relation("registry", "network_segment", {"taxonomy_term"}),
                 Relation("registry", "network_interface", {"host", "network_segment", "taxonomy_term"}) >>
Up1Addresses == << Relation("registry", "ip_address_assignment",
                            {"network_interface", "taxonomy_term", "collection_run", "network_segment"}),
                   Relation("registry", "route_entry", {"host", "collection_run", "network_segment"}),
                   Relation("registry", "dns_resolver_state", {"host", "collection_run"}),
                   Relation("registry", "storage_asset", {"host", "taxonomy_term", "collection_run"}) >>
Up1Services == << Relation("registry", "shared_service", {"taxonomy_term", "document"}),
                  Relation("registry", "service_instance",
                           {"shared_service", "taxonomy_term", "host", "collection_run"}) >>
Up1Exposure == << Relation("registry", "service_exposure",
                           {"service_instance", "taxonomy_term", "document", "collection_run"}),
                  Relation("registry", "service_dependency",
                           {"service_instance", "taxonomy_term", "shared_service", "collection_run"}) >>
Up1Ownership == << Relation("registry", "ownership_assignment", {"taxonomy_term"}),
                   ForeignKey("cluster", {"document"}),
                   Relation("retrieval", "document_chunk", {"document_version"}),
                   Relation("retrieval", "chunk_embedding", {"document_chunk"}),
                   Relation("retrieval", "evidence_pack", {}) >>
Up1Packs == << Relation("retrieval", "evidence_pack_item",
                        {"evidence_pack", "taxonomy_term", "document_chunk", "evidence_artifact"}),
               Relation("agent_control", "prompt_template_registry", {"policy_record", "document_version"}),
               Relation("agent_control", "agent_run",
                        {"prompt_template_registry", "approval_record", "evidence_pack"}) >>
Up1Control == << Relation("agent_control", "action_request", {"agent_run", "approval_record"}),
                 Relation("agent_control", "agent_evidence",
                          {"agent_run", "taxonomy_term", "document_chunk", "evidence_artifact"}),
                 Relation("governance", "change_log",
                          {"taxonomy_term", "action_request", "approval_record", "collection_run",
                           "reconciliation_result", "document_version"}) >>
Up1 == Up1Schemas \o Up1Taxonomy \o Up1Docs \o Up1Collection \o Up1Governance \o Up1Hosts
       \o Up1Membership \o Up1Network \o Up1Addresses \o Up1Services \o Up1Exposure
       \o Up1Ownership \o Up1Packs \o Up1Control

Drops(ns)   == [i \in DOMAIN ns |-> Drop(ns[i])]
Cascades(ns) == [i \in DOMAIN ns |-> DropCascade(ns[i])]
Down1 ==
    Drops(<<"change_log", "agent_evidence", "action_request", "agent_run",
            "prompt_template_registry", "evidence_pack_item", "evidence_pack",
            "chunk_embedding", "document_chunk", "ownership_assignment",
            "service_dependency", "service_exposure", "service_instance",
            "shared_service", "storage_asset", "dns_resolver_state", "route_entry",
            "ip_address_assignment", "network_interface", "network_segment",
            "gpu_device", "host_hardware_snapshot", "cluster_membership",
            "host_role_assignment", "host", "cluster", "approval_record",
            "policy_record", "reconciliation_result", "evidence_artifact",
            "observed_fact", "collection_run", "discovery_source",
            "document_entity_binding", "document_version", "document",
            "taxonomy_term", "taxonomy_domain">>)
    \o << DropSchemaCascade("agent_control"), DropSchemaCascade("retrieval"),
          DropSchemaCascade("registry"), DropSchemaCascade("governance"),
          DropSchemaCascade("discovery"), DropSchemaCascade("docs"),
          DropSchemaCascade("taxonomy") >>

-----------------------------------------------------------------------------
(* 0002 .. 0011.  0002 and 0006 do nothing on a server without pgvector.     *)
Up2(vector) == IF vector THEN << Extension, DropHnsw, Embedding(1536), Hnsw >> ELSE << >>
Down2 == << DropHnsw, Embedding(Text) >>

Up3 == << Schema("worker"), Relation("worker", "job_history", {}),
          Add("job_history", {"ix_task_status", "ix_created_at"}),
          Relation("worker", "worker_schedule", {}) >>
Down3 == << Drop("worker_schedule"), Del("job_history", {"ix_created_at"}),
            Del("job_history", {"ix_task_status"}), Drop("job_history"),
            DropSchemaCascade("worker") >>

Up4   == << Add("shared_service", {"is_active"}) >>
Down4 == << Del("shared_service", {"is_active"}) >>

Up5 == << Relation("discovery", "collector_agent", {"host"}),
          Add("collector_agent", {"ix_host_code", "ix_status"}),
          Relation("discovery", "collector_snapshot", {"collector_agent", "collection_run"}),
          Add("collector_snapshot", {"uq_agent_snapshot_version", "ix_agent_kind", "ix_payload_hash"}),
          Relation("discovery", "snapshot_diff", {"collector_snapshot"}),
          Add("snapshot_diff", {"ix_snapshot"}) >>
Down5 == Drops(<<"snapshot_diff", "collector_snapshot", "collector_agent">>)

Up6(vector) == IF vector THEN << DropHnsw, Embedding(4096), Hnsw >> ELSE << >>
Down6 == << DropHnsw, Embedding(1536), Hnsw >>

\* The two monthly partitions of a partitioned table stand for one relation.
Up7Governance == << Schema("governance"), Relation("governance", "hitl_item", {}),
                    Add("hitl_item", {"ix_status", "ix_risk_class", "ix_created_at"}),
                    Relation("governance", "hitl_feedback", {"hitl_item"}),
                    Add("hitl_feedback", {"ix_item"}),
                    Relation("governance", "audit_event", {}),
                    Add("audit_event", {"ix_created", "ix_actor", "ix_correlation"}) >>
Up7Telemetry == << Schema("telemetry"), Relation("telemetry", "metric_point", {}),
                   Add("metric_point", {"ix_host", "ix_name"}),
                   Relation("telemetry", "metric_point_month", {"metric_point"}),
                   Relation("telemetry", "llm_call_log", {}),
                   Add("llm_call_log", {"ix_called", "ix_model", "ix_correlation", "ix_status"}) >>
Down7 == Cascades(<<"llm_call_log", "metric_point_month", "metric_point", "hitl_feedback",
                    "audit_event", "hitl_item">>)
         \o << DropSchemaCascade("telemetry"), DropSchemaCascade("governance") >>

Up8Tables == << AddMissing("metric_point", {"idx_collected_brin"}),
                AddMissing("hitl_item", {"idx_status_priority"}),
                AddMissing("llm_call_log", {"idx_model_time"}),
                Schema("cognitive"), Relation("cognitive", "insight", {}),
                AddMissing("insight", {"idx_active"}), Relation("cognitive", "report", {}) >>
Up8Views == << View("cognitive", "mv_fleet_health_live", {"host", "metric_point"}),
               AddMissing("mv_fleet_health_live", {"ux_host"}),
               View("cognitive", "mv_llm_accuracy_daily", {"hitl_feedback"}),
               AddMissing("mv_llm_accuracy_daily", {"ux_day"}) >>
Down8 == << DropPresent("mv_llm_accuracy_daily"), DropPresent("mv_fleet_health_live"),
            DropCascade("report"), DropCascade("insight"),
            DelPresent("metric_point", {"idx_collected_brin"}),
            DelPresent("hitl_item", {"idx_status_priority"}),
            DelPresent("llm_call_log", {"idx_model_time"}), DropSchema("cognitive") >>

Up9 == << Relation("registry", "ci_relationship", {}),
          Add("ci_relationship", {"idx_source", "idx_target", "idx_type", "idx_active", "ux_dedup"}) >>
Down9 == << DropCascade("ci_relationship") >>

Up10 == << Schema("telemetry"), Relation("telemetry", "slo_definition", {}),
           Add("slo_definition", {"idx_service", "idx_active"}),
           Relation("telemetry", "slo_measurement", {}), Add("slo_measurement", {"idx_slo_id"}),
           Relation("telemetry", "slo_measurement_month", {"slo_measurement"}) >>
\* Mutant: the SLO definitions stay behind.
Down10_KeepsDefinition == << DropCascade("slo_measurement_month"), DropCascade("slo_measurement") >>
Down10 == Cascades(<<"slo_measurement_month", "slo_measurement", "slo_definition">>)

\* The trigger is the link from hitl_item to its function.
Up11 == << AddMissing("hitl_item", {"updated_at"}),
           AddMissing("hitl_item", {"ck_status", "ck_risk_class", "ck_priority"}),
           Relation("governance", "fn_hitl_item_updated_at", {}),
           ForeignKey("hitl_item", {"fn_hitl_item_updated_at"}),
           AddMissing("policy_record", {"rules_jsonb"}) >>
Down11 == << Unlink("hitl_item", {"fn_hitl_item_updated_at"}),
             DropPresent("fn_hitl_item_updated_at"),
             DelPresent("hitl_item", {"ck_status", "ck_risk_class", "ck_priority"}),
             DelPresent("hitl_item", {"updated_at"}),
             DelPresent("policy_record", {"rules_jsonb"}) >>

Upgrade(r, vector) ==
    << Up1, Up2(vector), Up3, Up4, Up5, Up6(vector), Up7Governance \o Up7Telemetry,
       Up8Tables \o Up8Views, Up9, Up10, Up11 >>[r]
Downgrade(r) == << Down1, Down2, Down3, Down4, Down5, Down6, Down7, Down8, Down9, Down10, Down11 >>[r]

-----------------------------------------------------------------------------
(* alembic (external): the version row lives in governance.alembic_version;  *)
(* every step ends by moving it, and no row to move is an error.             *)
VersionTable == [n |-> "alembic_version", s |-> "governance", k |-> "table"]
EnsureVersionTable(d) == [d EXCEPT !.rels = @ \cup {VersionTable}]
Stamp(d, from, to) ==
    IF d.ok /\ VersionTable \in d.rels /\ d.ver = from
    THEN [d EXCEPT !.ver = to] ELSE [d EXCEPT !.ok = FALSE]

EmptyDb == [schemas |-> {}, rels |-> {}, fks |-> {}, atts |-> {}, extension |-> FALSE,
            embedding |-> Text, hnsw |-> FALSE, ver |-> 0, ok |-> TRUE]
Idle == [phase |-> "idle", base |-> 0, target |-> 0, work |-> EmptyDb]
NoOutcome == [result |-> "none", from |-> 0, at |-> 0, to |-> 0, vector |-> FALSE]

Init == /\ db = EmptyDb
        /\ pgvector \in BOOLEAN
        /\ session = [s \in Sessions |-> Idle]
        /\ outcome = NoOutcome

\* The target of "upgrade head", "downgrade -1" or a named revision.
Commands(v) == ({HeadRevision} \cup Targets \cup IF v > 0 THEN {v - 1} ELSE {}) \ {v}

\* env.py run_migrations_online: the seven schemas are created and committed
\* before the transaction of the command opens and the version row is read.
Begin(s, t) ==
    LET d == [db EXCEPT !.schemas = @ \cup Schemas1] IN
    /\ session[s].phase = "idle"
    /\ t \in Commands(db.ver)
    /\ db' = d
    /\ session' = [session EXCEPT ![s] = [phase |-> "running", base |-> db.ver, target |-> t,
                                          work |-> EnsureVersionTable(d)]]
    /\ outcome' = NoOutcome
    /\ UNCHANGED pgvector

\* context.run_migrations: one revision of the command.
Migrate(s) ==
    LET w == session[s].work
        v == w.ver
        up == session[s].target > v
        run == ExecAll(w, IF up THEN Upgrade(v + 1, pgvector) ELSE Downgrade(v))
    IN /\ session[s].phase = "running"
       /\ w.ok /\ v # session[s].target
       /\ session' = [session EXCEPT ![s].work = Stamp(run, v, IF up THEN v + 1 ELSE v - 1)]
       /\ UNCHANGED <<db, pgvector, outcome>>

Ended(s, result) ==
    [result |-> result, from |-> session[s].base, at |-> session[s].work.ver,
     to |-> session[s].target, vector |-> pgvector]

\* Commit of the whole command.  When another command committed meanwhile, this
\* one has met its locks: the version row it moves is no longer there.
Commit(s) ==
    /\ session[s].phase = "running"
    /\ session[s].work.ok /\ session[s].work.ver = session[s].target
    /\ db.ver = session[s].base
    /\ db' = session[s].work
    /\ outcome' = Ended(s, "ok")
    /\ session' = [session EXCEPT ![s] = Idle]
    /\ UNCHANGED pgvector

\* An error, or the process killed, rolls the transaction back.
Rollback(s) ==
    /\ session[s].phase = "running"
    /\ outcome' = Ended(s, IF db.ver # session[s].base THEN "conflict"
                           ELSE IF session[s].work.ok THEN "killed" ELSE "failed")
    /\ session' = [session EXCEPT ![s] = Idle]
    /\ UNCHANGED <<db, pgvector>>

\* The operator installs the extension's package on the server.
InstallPgvector ==
    /\ ~pgvector
    /\ pgvector' = TRUE
    /\ UNCHANGED <<db, session, outcome>>

Next == \/ \E s \in Sessions : \/ \E t \in 0..HeadRevision : Begin(s, t)
                               \/ Migrate(s) \/ Commit(s) \/ Rollback(s)
        \/ InstallPgvector

Spec == Init /\ [][Next]_vars

-----------------------------------------------------------------------------
(* What every revision leaves on a server without pgvector, by upgrades only. *)
SchemaAt ==
    LET at[v \in 0..HeadRevision] ==
            IF v = 0 THEN [EmptyDb EXCEPT !.schemas = Schemas1]
            ELSE ExecAll(at[v - 1], Upgrade(v, FALSE))
    IN at

\* The version row tells the truth: after any sequence of upgrades, downgrades,
\* failures and races, the relations, schemas, foreign keys and what was added to a
\* relation later are those that upgrading an empty database to that revision creates
\* (every downgrade() that commits undoes its upgrade() in them, 0002 .. 0011).  The
\* embedding's type, its index and the extension are not compared: they depend on
\* the server.
VersionMatchesSchema ==
    LET ref == SchemaAt[db.ver] IN
    /\ db.rels \ {VersionTable} = ref.rels
    /\ db.fks = ref.fks
    /\ db.atts = ref.atts
    /\ db.ver > 0 => db.schemas = ref.schemas

\* Upgrading never fails on what the chain itself left behind: the only upgrade
\* that fails is 0006 on a server with pgvector (its 4096 dimensions fit no HNSW
\* index, and the type is missing when 0002 was skipped before the installation).
UpgradeFailsOnlyAtHnsw ==
    outcome.result = "failed" /\ outcome.to > outcome.from
        => outcome.at = 5 /\ outcome.vector

\* Version row and schema agree, and the chain never blocks itself.
SchemaIsTracked == VersionMatchesSchema /\ UpgradeFailsOnlyAtHnsw
=============================================================================
