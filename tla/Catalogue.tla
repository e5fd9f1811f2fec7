----------------------------- MODULE Catalogue ------------------------------
(* The two catalogues the seed scripts write: seeds/taxonomy_seed.py (22       *)
(* domains of terms) and seeds/shared_service_seed.py (the shared services,    *)
(* each by its code and the codes of the terms it names).  Display names,      *)
(* descriptions and metadata are left out.                                     *)
EXTENDS Sequences, Naturals

TermsInventory == [
       entity_kind |-> {"cluster", "proxmox_cluster", "host", "host_role_assignment",
          "cluster_membership", "host_hardware_snapshot", "gpu_device", "shared_service",
          "service_instance", "service_exposure", "service_dependency", "network_segment",
          "network_interface", "ip_address_assignment", "route_entry", "dns_resolver_state",
          "storage_asset", "ownership_assignment", "document", "document_version",
          "document_entity_binding", "document_chunk", "chunk_embedding", "evidence_pack",
          "evidence_pack_item", "discovery_source", "collection_run", "observed_fact",
          "evidence_artifact", "reconciliation_result", "prompt_template_registry", "agent_run",
          "agent_evidence", "action_request", "policy_record", "approval_record", "change_log",
          "collector_agent", "collector_snapshot", "snapshot_diff"},
       host_role |-> {"physical_cluster_node", "proxmox_hypervisor", "proxmox_cluster_member",
          "standalone_proxmox_host", "gpu_inference_node", "application_runtime_host",
          "shared_service_host", "edge_gateway_host", "database_host", "monitored_host",
          "observability_host", "mail_collaboration_host", "automation_host",
          "development_runtime_host"},
       environment |-> {"production", "shared-platform", "development", "staging", "bootstrap"},
       service_kind |-> {"postgresql", "pgbouncer", "redis", "traefik", "openbao", "zitadel",
          "grafana", "prometheus", "loki", "tempo", "otel_collector", "cadvisor", "node_exporter",
          "pve_exporter", "postgres_exporter", "oauth2_proxy", "vllm", "ollama", "open_webui",
          "n8n", "activepieces", "cloudbeaver", "watchtower", "kafka", "neo4j", "temporal",
          "roundcube", "stalwart", "llm_guard", "mail_gateway", "api_gateway", "application_api",
          "application_worker", "web_frontend", "job_scheduler"} ]

TermsPlacement == [
       runtime_kind |-> {"systemd_service", "docker_container", "docker_compose_stack",
          "bare_metal_host", "proxmox_host", "lxc_guest", "virtual_machine"},
       network_segment_kind |-> {"public_underlay", "private_vswitch", "docker_bridge",
          "docker_overlay", "loopback", "service_bind_network", "management_network"},
       address_scope |-> {"public_ipv4", "public_ipv6", "private_ipv4", "loopback", "link_local",
          "bridge_local"},
       exposure_method |-> {"traefik_http", "traefik_https", "traefik_tcp_sni",
          "direct_host_port", "loopback_only", "private_vlan_only", "internal_docker_network",
          "not_exposed"},
       storage_kind |-> {"local_disk", "mdraid", "nvme", "network_storage", "docker_volume",
          "bind_mount", "backup_target"},
       document_kind |-> {"adr", "cluster_overview", "node_record", "hypervisor_record",
          "vm_lxc_record", "network_segment_record", "storage_record", "backup_restore_record",
          "external_access_record", "shared_service_dossier", "service_consumption_contract",
          "service_contract_pack", "runbook", "observability_onboarding_record",
          "incident_recovery_runbook", "security_control_record", "deployment_policy_record",
          "policy_pack", "change_template", "approval_pattern", "ownership_matrix",
          "product_intent_record", "context_boundary_record", "canonical_domain_model",
          "architecture_view_pack", "service_contracts", "application_definition_pack",
          "engineering_policy_pack"} ]

TermsStatus == [
       os_family |-> {"ubuntu", "debian", "macos", "unknown"},
       lifecycle_status |-> {"planned", "active", "degraded", "inactive", "retired", "unknown"},
       observation_status |-> {"observed", "partially_observed", "unreachable", "error", "stale"},
       discovery_source_kind |-> {"ssh_full_audit", "ssh_network_audit",
          "ssh_connectivity_check", "runtime_posture_audit", "trust_surface_audit",
          "docker_runtime_inspection", "systemd_runtime_inspection", "tls_endpoint_probe",
          "sshd_config_inspection", "secrets_surface_inspection", "traefik_config_inspection",
          "compose_manifest_inspection", "canonical_document_parse", "manual_binding",
          "collector_agent_push"},
       evidence_kind |-> {"command_stdout", "parsed_config_file", "structured_json_export",
          "document_version_binding", "route_definition", "interface_snapshot",
          "container_runtime_snapshot", "security_setting_snapshot", "runtime_posture_snapshot",
          "trust_surface_snapshot", "tls_probe_result", "sshd_config_snapshot",
          "secret_material_finding", "generated_report", "collector_snapshot_artifact"} ]

TermsRelations == [
       membership_role |-> {"operational_cluster_member", "proxmox_quorum_member",
          "proxmox_non_quorate_member", "standalone_hypervisor_anchor", "external_scoped_asset"},
       interface_kind |-> {"physical_nic", "bond", "linux_bridge", "ovs_bridge", "docker_bridge",
          "veth", "vlan_subinterface", "loopback_interface", "tunnel_interface"},
       owner_type |-> {"named_individual", "team", "role_group", "service_account",
          "external_vendor", "automated_control_plane"},
       collection_run_status |-> {"queued", "running", "succeeded", "partial_success", "failed",
          "cancelled", "timed_out", "snapshot_received"},
       reconciliation_result_status |-> {"matched", "drift_detected", "missing_canonical",
          "missing_observed", "requires_review", "approved_override", "suppressed"},
       exposure_health |-> {"healthy", "degraded", "connection_refused", "timeout", "dns_error",
          "tls_handshake_failed", "design_only", "unknown"},
       relationship_kind |-> {"contains", "hosts", "member_of", "runs_on", "depends_on",
          "exposes", "uses_network", "uses_storage", "owned_by", "documented_by", "observed_by",
          "backed_up_by", "protected_by"} ]

\* One function over another.
Over(new, old) ==
    [k \in DOMAIN new \cup DOMAIN old |-> IF k \in DOMAIN new THEN new[k] ELSE old[k]]

\* Mutant: the lifecycle domain gets a term code that environments use as well.
Catalogue_Reused ==
    [Over(TermsInventory, Over(TermsPlacement, Over(TermsStatus, TermsRelations)))
        EXCEPT !["lifecycle_status"] = @ \cup {"production"}]
\* Every domain's terms; ON CONFLICT DO NOTHING keeps what is there already.
Catalogue == Over(TermsInventory, Over(TermsPlacement, Over(TermsStatus, TermsRelations)))

\* The domains in the order the seed writes them.
Domains == << "entity_kind", "host_role", "environment", "service_kind", "runtime_kind",
    "network_segment_kind", "address_scope", "exposure_method", "storage_kind", "document_kind",
    "os_family", "lifecycle_status", "observation_status", "discovery_source_kind",
    "evidence_kind", "membership_role", "interface_kind", "owner_type", "collection_run_status",
    "reconciliation_result_status", "exposure_health", "relationship_kind" >>

Service(code, kind, env, lifecycle) ==
    [code |-> code, kind |-> kind, env |-> env, lifecycle |-> lifecycle]

StorageServices == <<
    Service("internalcmdb-postgres", "postgresql", "shared-platform", "active"),
    Service("pgbouncer-main", "pgbouncer", "shared-platform", "planned"),
    Service("redis-shared", "redis", "shared-platform", "active"),
    Service("traefik-proxy", "traefik", "shared-platform", "active") >>
MetricServices == <<
    Service("prometheus-main", "prometheus", "shared-platform", "active"),
    Service("grafana-main", "grafana", "shared-platform", "active"),
    Service("loki-main", "loki", "shared-platform", "active"),
    Service("tempo-main", "tempo", "shared-platform", "active") >>
ExporterServices == <<
    Service("otel-collector-main", "otel_collector", "shared-platform", "active"),
    Service("node-exporter-orchestrator", "node_exporter", "shared-platform", "active"),
    Service("cadvisor-orchestrator", "cadvisor", "shared-platform", "active"),
    Service("postgres-exporter-internalcmdb", "postgres_exporter", "shared-platform", "active"),
    Service("pve-exporter-main", "pve_exporter", "shared-platform", "active") >>
SecurityServices == <<
    Service("openbao-main", "openbao", "shared-platform", "active"),
    Service("zitadel-main", "zitadel", "shared-platform", "active"),
    Service("oauth2-proxy-main", "oauth2_proxy", "shared-platform", "active") >>
ModelServices == <<
    Service("vllm-reasoning-32b", "vllm", "shared-platform", "active"),
    Service("vllm-fast-14b", "vllm", "shared-platform", "active"),
    Service("ollama-embed", "ollama", "shared-platform", "active"),
    Service("open-webui-main", "open_webui", "shared-platform", "active") >>
PlatformServices == <<
    Service("internalcmdb-api", "application_api", "production", "active"),
    Service("internalcmdb-worker", "application_worker", "production", "active"),
    Service("internalcmdb-frontend", "web_frontend", "production", "active"),
    Service("internalcmdb-scheduler", "job_scheduler", "production", "active") >>
ProjectServices == <<
    Service("activepieces", "activepieces", "production", "active"),
    Service("kafka", "kafka", "production", "active"),
    Service("n8n", "n8n", "production", "active"),
    Service("neo4j", "neo4j", "production", "active") >>
WappServices == <<
    Service("evo-wapp-core", "application_api", "production", "active"),
    Service("evo-wapp-gateway", "application_api", "production", "active"),
    Service("evo-wapp-workers", "application_worker", "production", "active"),
    Service("wapp-admin", "web_frontend", "production", "active") >>

\* One planned service per exit of the SOCKS proxy mesh.
MeshCodes == << "wapp-proxy-mesh-hz62", "wapp-proxy-mesh-hz113", "wapp-proxy-mesh-hz118",
    "wapp-proxy-mesh-hz123", "wapp-proxy-mesh-hz157", "wapp-proxy-mesh-hz164",
    "wapp-proxy-mesh-hz215", "wapp-proxy-mesh-hz223", "wapp-proxy-mesh-hz247",
    "wapp-proxy-mesh-orchestrator", "wapp-proxy-mesh-hz118spare" >>
MeshServices ==
    [i \in DOMAIN MeshCodes |-> Service(MeshCodes[i], "application_api", "production", "planned")]

AllServices == StorageServices \o MetricServices \o ExporterServices \o SecurityServices
               \o ModelServices \o PlatformServices \o ProjectServices \o WappServices
               \o MeshServices

\* _CONTAINER_NAME_TO_SERVICE_KIND, in the order the lookup goes through it.
Fragments ==
  << <<"postgres", "postgresql">>, <<"postgresql", "postgresql">>, <<"pgbouncer", "pgbouncer">>,
     <<"redis", "redis">>, <<"traefik", "traefik">>, <<"openbao", "openbao">>,
     <<"vault", "openbao">>, <<"zitadel", "zitadel">>, <<"grafana", "grafana">>,
     <<"prometheus", "prometheus">>, <<"loki", "loki">>, <<"tempo", "tempo">>,
     <<"otel", "otel_collector">>, <<"otelcol", "otel_collector">>, <<"cadvisor", "cadvisor">>,
     <<"node-exporter", "node_exporter">>, <<"node_exporter", "node_exporter">>,
     <<"pve-exporter", "pve_exporter">>, <<"pve_exporter", "pve_exporter">>,
     <<"postgres-exporter", "postgres_exporter">>, <<"postgres_exporter", "postgres_exporter">>,
     <<"oauth2-proxy", "oauth2_proxy">>, <<"oauth2_proxy", "oauth2_proxy">>, <<"vllm", "vllm">>,
     <<"ollama", "ollama">>, <<"open-webui", "open_webui">>, <<"openwebui", "open_webui">>,
     <<"n8n", "n8n">>, <<"activepieces", "activepieces">>, <<"cloudbeaver", "cloudbeaver">>,
     <<"watchtower", "watchtower">>, <<"kafka", "kafka">>, <<"neo4j", "neo4j">>,
     <<"temporal", "temporal">>, <<"roundcube", "roundcube">>, <<"stalwart", "stalwart">>,
     <<"llm-guard", "llm_guard">>, <<"llm_guard", "llm_guard">> >>

\* _infer_service_kind of a container, given the fragments its name contains.
InferServiceKind(contained) ==
    LET hits == {i \in DOMAIN Fragments : Fragments[i][1] \in contained}
    IN IF hits = {} THEN "application_worker"
       ELSE Fragments[CHOOSE i \in hits : \A j \in hits : i <= j][2]
=============================================================================
