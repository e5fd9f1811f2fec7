------------------------------ MODULE Loaders -------------------------------
(* The scripts that fill the registry: the two seeds (seeds/) and the three    *)
(* audit loaders (loaders/), each one transaction of READ COMMITTED            *)
(* PostgreSQL.  A row is a key and a value; the natural keys of terms,         *)
(* sources, hosts and services are UNIQUE, devices and instances carry the id  *)
(* of the run that inserted them.                                              *)
EXTENDS Catalogue, Naturals, FiniteSetsExt, Sequences

CONSTANTS Procs,        \* script processes
          AuditFiles,   \* full_cluster_audit/current.json, one file per audit
          SshOk,        \* hosts the connectivity check found alive
          PostureFile,  \* results of runtime_posture/current.json
          TrustFile,    \* hosts of trust_surface/current.json
          Endpoints,    \* endpoints of trust_surface/current.json
          SeedRows,     \* indexes of AllServices that services seed writes
          MaxRuns,      \* bound: starts of a script
          MaxFaults     \* bound: statements the server rejects

ASSUME FilesAreSequences ==
    /\ \A f \in DOMAIN AuditFiles : \A i \in DOMAIN AuditFiles[f] :
         AuditFiles[f][i].kind \in {"ok", "error", "badgpu"}
    /\ \A i \in DOMAIN PostureFile : PostureFile[i].ok \in BOOLEAN
    /\ SeedRows \in Seq(DOMAIN AllServices)

VARIABLES tab,      \* committed rows
          tx,       \* rows each process has written and not committed
          proc,     \* what each process is doing
          runs,     \* scripts started so far
          report,   \* what finished scripts printed
          missing,  \* lookups of a taxonomy term that raised
          overlap,  \* pairs of posture loads that ran at the same time
          faults

vars == <<tab, tx, proc, runs, report, missing, overlap, faults>>

\* A row by itself; rows are written over others (Over).
Empty == [k \in {} |-> 0]
Row(key, v) == [k \in {key} |-> v]
Off == [pc |-> "off", job |-> "", i |-> 0, seen |-> 0, aborted |-> FALSE, said |-> {},
        terms |-> {}, run |-> 0, file |-> 1]
Loads == {"ssh", "posture", "trust"}
Jobs  == Loads \cup {"taxonomy", "services"}

Init == /\ tab = Empty
        /\ tx = [p \in Procs |-> Empty]
        /\ proc = [p \in Procs |-> Off]
        /\ runs = 0 /\ report = {} /\ missing = {} /\ overlap = {} /\ faults = 0

-----------------------------------------------------------------------------
(* Transactions (external: PostgreSQL).                                      *)
Visible(p) == Over(tx[p], tab)
Sees(p, k) == k \in DOMAIN Visible(p)
Locked(p, k) == \E q \in Procs \ {p} : k \in DOMAIN tx[q]
Write(p, rows) == tx' = [tx EXCEPT ![p] = Over(rows, @)]

\* The process ends and its transaction is rolled back: exit, exception or kill.
Gone(p) == /\ tx' = [tx EXCEPT ![p] = Empty]
           /\ proc' = [proc EXCEPT ![p] = Off]

-----------------------------------------------------------------------------
(* Lookups: a domain and the codes that will do, the wanted one and its fallback. *)
HasTerm(p, t) == t[1] \in proc[p].terms /\ t[2] \cap Catalogue[t[1]] # {}
Unresolved(p, ts) == {t \in ts : ~HasTerm(p, t)}

\* shared_service_seed._get_term_id: by code alone, in whatever domain it is.
TermsByCode(p, code) ==
    {<<d, code>> : d \in {x \in DOMAIN Catalogue : Sees(p, <<"term", x>>) /\ code \in Catalogue[x]}}

OsFamily(os) == IF os \in {"ubuntu", "debian", "macos"} THEN os ELSE "unknown"
HostRole(n) ==
    CASE n.gpus # {} -> "gpu_inference_node"
      [] n.gpus = {} /\ n.running > 5 -> "application_runtime_host"
      [] n.gpus = {} /\ n.running <= 5 /\ n.alias = "orchestrator" -> "automation_host"
      [] n.gpus = {} /\ n.running <= 5 /\ n.alias = "postgres-main" -> "database_host"
      [] OTHER -> "monitored_host"
Lifecycle(n) == IF n.alias \in SshOk THEN "active" ELSE "unknown"

SourceTerms(j) ==
    {<<"discovery_source_kind", {CASE j = "ssh" -> "ssh_full_audit"
                                   [] j = "posture" -> "runtime_posture_audit"
                                   [] j = "trust" -> "trust_surface_audit"}>>,
     <<"collection_run_status", {"succeeded"}>>}
HostTerms(n) ==
    {<<"entity_kind", {"host"}>>, <<"environment", {"production"}>>,
     <<"lifecycle_status", {Lifecycle(n), "unknown"}>>,
     <<"os_family", {OsFamily(n.os), "unknown"}>>,
     <<"host_role", {HostRole(n), "monitored_host"}>>}
PostureTerms(n) ==
    {<<"entity_kind", {"host"}>>, <<"observation_status", {"observed"}>>,
     <<"service_kind", {InferServiceKind(n.name), "application_worker"}>>,
     <<"environment", {"production"}>>, <<"lifecycle_status", {"active"}>>,
     <<"runtime_kind", {"docker_container"}>>}
TrustTerms ==
    {<<"entity_kind", {"host"}>>, <<"observation_status", {"observed"}>>,
     <<"evidence_kind", {"trust_surface_snapshot"}>>}

-----------------------------------------------------------------------------
(* A loader begins: term map, exit when it is empty, discovery source, run.  *)
Start(p, j, f) ==
    /\ proc[p].pc = "off" /\ runs < MaxRuns
    /\ j = "ssh" \/ f = 1
    /\ runs' = runs + 1
    /\ LET terms == {d \in DOMAIN Catalogue : <<"term", d>> \in DOMAIN tab} IN
       IF j \in Loads /\ terms = {}
       THEN UNCHANGED <<proc, tx>>             \* _exit_if_empty_term_map
       ELSE /\ proc' = [proc EXCEPT ![p] =
                 [pc |-> IF j \in Loads THEN "register" ELSE "seed", job |-> j, i |-> 1,
                  seen |-> IF <<"source", j>> \in DOMAIN tab THEN 1 ELSE 0,
                  aborted |-> FALSE, said |-> {}, terms |-> terms, run |-> runs + 1, file |-> f]]
            /\ UNCHANGED tx
    /\ UNCHANGED <<tab, report, missing, overlap, faults>>

\* _ensure_discovery_source after its SELECT, and _create_collection_run.  Two
\* first loads of a source collide on source_code: the later one raises.
Register(p) ==
    LET j == proc[p].job
        lost == Unresolved(p, SourceTerms(j))
        late == proc[p].seen = 0 /\ <<"source", j>> \in DOMAIN tab
    IN /\ proc[p].pc = "register"
       /\ proc[p].seen = 0 => ~Locked(p, <<"source", j>>)
       /\ missing' = missing \cup lost
       /\ IF late \/ lost # {} THEN Gone(p) /\ UNCHANGED overlap
          ELSE /\ Write(p, Over(Row(<<"run", proc[p].run>>, 0),
                                IF proc[p].seen = 0 THEN Row(<<"source", j>>, 0) ELSE Empty))
               /\ proc' = [proc EXCEPT ![p].pc = "look"]
               /\ overlap' = overlap \cup
                    {{proc[p].run, proc[q].run} :
                        q \in {x \in Procs \ {p} : j = "posture" /\ proc[x].job = j
                                                   /\ proc[x].pc \in {"look", "store"}}}
       /\ UNCHANGED <<tab, runs, report, faults>>

File(p) == CASE proc[p].job = "ssh" -> AuditFiles[proc[p].file]
             [] proc[p].job = "posture" -> PostureFile
             [] proc[p].job = "trust" -> TrustFile
Node(p) == File(p)[proc[p].i]
HostKey(n) == <<"host", n.alias>>
AtNode(p, pc, j) == proc[p].pc = pc /\ proc[p].job = j /\ proc[p].i \in DOMAIN File(p)
NextNode(p, said) ==
    [proc EXCEPT ![p].pc = "look", ![p].i = @ + 1, ![p].seen = 0, ![p].said = @ \cup said]

\* A node the loader passes over: an audit error, not ok, or not in the registry.
Skipped(p) ==
    CASE proc[p].job = "ssh" -> Node(p).kind = "error"
      [] OTHER -> ~Node(p).ok \/ (~proc[p].aborted /\ ~Sees(p, HostKey(Node(p))))

\* Skip, or fail at once in a transaction the server has aborted ("ERR").
PassOver(p) ==
    /\ proc[p].pc = "look" /\ proc[p].i \in DOMAIN File(p)
    /\ Skipped(p) \/ proc[p].aborted
    /\ proc' = NextNode(p, {})
    /\ UNCHANGED <<tab, tx, runs, report, missing, overlap, faults>>

\* _process_audit_node: SELECT host_id.
SshLook(p) ==
    /\ AtNode(p, "look", "ssh") /\ ~Skipped(p) /\ ~proc[p].aborted
    /\ missing' = missing \cup Unresolved(p, HostTerms(Node(p)))
    /\ proc' = IF Unresolved(p, HostTerms(Node(p))) # {} THEN NextNode(p, {})
               ELSE [proc EXCEPT ![p].pc = "store",
                                 ![p].seen = IF Sees(p, HostKey(Node(p))) THEN 1 ELSE 0]
    /\ UNCHANGED <<tab, tx, runs, report, overlap, faults>>

Devices(rows, h, u) == {k \in DOMAIN rows : k[1] = "gpu" /\ k[2] = h /\ k[3] = u}

\* The devices of a node: found by (host, uuid) in rows, else inserted.
DeviceRows(rows, n, run) ==
    [k \in UNION {IF Devices(rows, n.alias, u) = {} THEN {<<"gpu", n.alias, u, run>>}
                  ELSE Devices(rows, n.alias, u) : u \in n.gpus} |-> run]

HostRow(n) == [role |-> HostRole(n), life |-> Lifecycle(n), os |-> OsFamily(n.os)]

\* UPDATE or INSERT of the host (the row is locked from here on), hardware
\* snapshot, devices.  A malformed gpu list raises after the first two.
\* Mutant: the devices are looked up before the host's row is locked.
SshStore_EarlyDevices(p) ==
    LET n == Node(p)
        r == proc[p].run
    IN /\ AtNode(p, "store", "ssh")
       /\ IF proc[p].seen = 0 /\ HostKey(n) \in DOMAIN tab
          THEN /\ proc' = [NextNode(p, {}) EXCEPT ![p].aborted = TRUE]
               /\ UNCHANGED tx
          ELSE /\ Write(p, Over(Row(HostKey(n), HostRow(n)),
                           Over(Row(<<"snap", n.alias, r>>, r),
                                IF n.kind = "badgpu" THEN Empty ELSE DeviceRows(Visible(p), n, r))))
               /\ proc' = NextNode(p, IF n.kind = "badgpu" THEN {} ELSE {n.alias})
       /\ UNCHANGED <<tab, runs, report, missing, overlap, faults>>
SshStore(p) ==
    LET n == Node(p)
        r == proc[p].run
    IN /\ AtNode(p, "store", "ssh")
       /\ ~Locked(p, HostKey(n))
       /\ IF proc[p].seen = 0 /\ HostKey(n) \in DOMAIN tab
          THEN /\ proc' = [NextNode(p, {}) EXCEPT ![p].aborted = TRUE]  \* UNIQUE host_code
               /\ UNCHANGED tx
          ELSE /\ Write(p, Over(Row(HostKey(n), HostRow(n)),
                           Over(Row(<<"snap", n.alias, r>>, r),
                                IF n.kind = "badgpu" THEN Empty ELSE DeviceRows(Visible(p), n, r))))
               /\ proc' = NextNode(p, IF n.kind = "badgpu" THEN {} ELSE {n.alias})
       /\ UNCHANGED <<tab, runs, report, missing, overlap, faults>>

\* _load_node up to the SELECT of the instance: the fact, unless the redaction
\* scanner refuses it, and _upsert_shared_service (ON CONFLICT DO NOTHING).
SvcKey(code) == <<"svc", code>>
LoadedService(code) == [kind |-> <<"service_kind", code>>, env |-> <<"environment", "production">>,
                        lifecycle |-> <<"lifecycle_status", "active">>]
ServiceRow(p, code) ==
    IF Sees(p, SvcKey(code)) THEN Empty ELSE Row(SvcKey(code), LoadedService(code))
Instances(rows, n) == {k \in DOMAIN rows : k[1] = "inst" /\ k[2] = n.alias /\ k[3] = n.name}

PostureLook(p) ==
    LET n == Node(p)
        code == InferServiceKind(n.name)
        fact == IF n.safe THEN Row(<<"fact", n.alias, proc[p].run>>, proc[p].run) ELSE Empty
    IN /\ AtNode(p, "look", "posture") /\ ~Skipped(p) /\ ~proc[p].aborted
       /\ Sees(p, SvcKey(code)) \/ ~Locked(p, SvcKey(code))
       /\ missing' = missing \cup Unresolved(p, PostureTerms(n))
       /\ IF Unresolved(p, PostureTerms(n)) # {}
          THEN proc' = NextNode(p, {}) /\ UNCHANGED tx
          ELSE /\ Write(p, Over(fact, ServiceRow(p, code)))
               /\ proc' = [proc EXCEPT ![p].pc = "store",
                                       ![p].seen = IF Instances(Visible(p), n) = {} THEN 0 ELSE 1]
       /\ UNCHANGED <<tab, runs, report, overlap, faults>>

\* _upsert_service_instance: UPDATE what its SELECT found, else INSERT.
PostureRow(p, n) ==
    IF proc[p].seen = 0 THEN Row(<<"inst", n.alias, n.name, proc[p].run>>, proc[p].run)
    ELSE Row(CHOOSE k \in Instances(Visible(p), n) : TRUE, proc[p].run)
PostureStore(p) ==
    LET n == Node(p) IN
    /\ AtNode(p, "store", "posture")
    /\ \A k \in DOMAIN PostureRow(p, n) : ~Locked(p, k)
    /\ Write(p, PostureRow(p, n))
    /\ proc' = NextNode(p, {n.alias})
    /\ UNCHANGED <<tab, runs, report, missing, overlap, faults>>

\* _load_host of the trust surface: sshd fact (unless refused) and the artifact,
\* both with the risk of root logins and passwords.
RiskLevel(root, password) ==
    CASE root /\ password -> "high" [] root # password -> "medium" [] OTHER -> "low"
TrustLoad(p) ==
    LET n == Node(p)
        risk == RiskLevel(n.root, n.password)
        fact == IF n.safe THEN Row(<<"fact", n.alias, proc[p].run>>, risk) ELSE Empty
    IN /\ AtNode(p, "look", "trust") /\ ~Skipped(p) /\ ~proc[p].aborted
       /\ missing' = missing \cup Unresolved(p, TrustTerms)
       /\ IF Unresolved(p, TrustTerms) # {} THEN proc' = NextNode(p, {}) /\ UNCHANGED tx
          ELSE /\ Write(p, Over(fact, Row(<<"art", n.alias, proc[p].run>>, risk)))
               /\ proc' = NextNode(p, {n.alias})
       /\ UNCHANGED <<tab, runs, report, overlap, faults>>

\* _endpoint_health_code; the tests are made in this order on the error's text.
HealthCode(e) ==
    CASE e.ok -> "healthy"
      [] ~e.ok /\ e.error = "refused" -> "connection_refused"
      [] ~e.ok /\ e.error = "timeout" -> "timeout"
      [] ~e.ok /\ e.error = "tls" -> "tls_handshake_failed"
      [] OTHER -> "unknown"
EndpointTerms ==
    UNION {{<<"entity_kind", {"service_exposure"}>>,
            <<"observation_status", {IF e.ok THEN "observed" ELSE "error", "observed"}>>} : e \in Endpoints}
EndpointFacts(run) ==
    [k \in {<<"ep", e.name, run>> : e \in Endpoints} |->
        HealthCode(CHOOSE e \in Endpoints : e.name = k[2])]

\* _load_endpoints, outside the try of the hosts: an aborted transaction or a
\* missing term ends the process with a traceback.
TrustEndpoints(p) ==
    LET lost == Unresolved(p, EndpointTerms) IN
    /\ proc[p].pc = "look" /\ proc[p].job = "trust" /\ proc[p].i > Len(TrustFile)
    /\ missing' = IF proc[p].aborted THEN missing ELSE missing \cup lost
    /\ IF proc[p].aborted \/ lost # {} THEN Gone(p)
       ELSE /\ Write(p, EndpointFacts(proc[p].run))
            /\ proc' = [proc EXCEPT ![p].pc = "commit"]
    /\ UNCHANGED <<tab, runs, report, overlap, faults>>

\* The server rejects a statement of a node: the loop reports ERR and goes on
\* in an aborted transaction.
NodeRejected(p) ==
    /\ proc[p].pc \in {"look", "store"} /\ ~proc[p].aborted
    /\ proc[p].i \in DOMAIN File(p) /\ ~Skipped(p)
    /\ faults < MaxFaults /\ faults' = faults + 1
    /\ proc' = [NextNode(p, {}) EXCEPT ![p].aborted = TRUE]
    /\ UNCHANGED <<tab, tx, runs, report, missing, overlap>>

-----------------------------------------------------------------------------
(* Seeds.                                                                    *)
\* taxonomy_seed.seed: one domain and its terms, ON CONFLICT DO NOTHING.
SeedDomain(p) ==
    LET k == <<"term", Domains[proc[p].i]>> IN
    /\ proc[p].pc = "seed" /\ proc[p].job = "taxonomy" /\ proc[p].i \in DOMAIN Domains
    /\ ~Locked(p, k)
    /\ Write(p, IF Sees(p, k) THEN Empty ELSE Row(k, 0))
    /\ proc' = [proc EXCEPT ![p].i = @ + 1]
    /\ UNCHANGED <<tab, runs, report, missing, overlap, faults>>

WappHost == <<"host", "lxc-wapp-pro-app">>
WappTerms == {"host", "application_runtime_host", "production", "active", "ubuntu"}

\* _upsert_wapp_pro_host (i = 1) and one service of the catalogue (i > 1), both
\* ON CONFLICT DO UPDATE; a term that is not there raises.
SeedKey(p) == IF proc[p].i = 1 THEN WappHost ELSE SvcKey(AllServices[SeedRows[proc[p].i - 1]].code)
SeedCodes(p) ==
    IF proc[p].i = 1 THEN WappTerms
    ELSE LET s == AllServices[SeedRows[proc[p].i - 1]] IN {s.kind, s.env, s.lifecycle}
SeededHost(p) ==      \* ON CONFLICT leaves the operating system as it was
    [role |-> "application_runtime_host", life |-> "active",
     os |-> IF Sees(p, WappHost) THEN Visible(p)[WappHost].os ELSE "ubuntu"]
SeedService(p) ==
    /\ proc[p].pc = "seed" /\ proc[p].job = "services" /\ proc[p].i \in 1..(Len(SeedRows) + 1)
    /\ ~Locked(p, SeedKey(p))
    /\ IF \E c \in SeedCodes(p) : TermsByCode(p, c) = {} THEN Gone(p)
       ELSE /\ proc' = [proc EXCEPT ![p].i = @ + 1]
            /\ IF proc[p].i = 1 THEN Write(p, Row(WappHost, SeededHost(p)))
               ELSE LET s == AllServices[SeedRows[proc[p].i - 1]] IN
                    \E k \in TermsByCode(p, s.kind), e \in TermsByCode(p, s.env),
                       l \in TermsByCode(p, s.lifecycle) :
                       Write(p, Row(SvcKey(s.code), [kind |-> k, env |-> e, lifecycle |-> l]))
    /\ UNCHANGED <<tab, runs, report, missing, overlap, faults>>

-----------------------------------------------------------------------------
Length(p) == CASE proc[p].job \in Loads -> Len(File(p))
               [] proc[p].job = "taxonomy" -> Len(Domains)
               [] proc[p].job = "services" -> Len(SeedRows) + 1
AtEnd(p) == /\ proc[p].pc \in IF proc[p].job = "trust" THEN {"commit"} ELSE {"look", "seed"}
            /\ proc[p].i > Length(p)
Report(p) == [job |-> proc[p].job, run |-> proc[p].run, said |-> proc[p].said,
              ok |-> ~proc[p].aborted]

\* conn.commit() and the "Done" line.  COMMIT of an aborted transaction is a
\* rollback without an error.
Finish(p) ==
    /\ AtEnd(p)
    /\ IF proc[p].aborted THEN UNCHANGED tab ELSE tab' = Over(tx[p], tab)
    /\ report' = report \cup {Report(p)}
    /\ Gone(p)
    /\ UNCHANGED <<runs, missing, overlap, faults>>

\* The process is killed, or the database refuses its connection.
Crash(p) ==
    /\ proc[p].pc # "off" /\ faults < MaxFaults /\ faults' = faults + 1
    /\ Gone(p)
    /\ UNCHANGED <<tab, runs, report, missing, overlap>>

\* What a blocked process is waiting for, and PostgreSQL's deadlock detector.
Wants(p) ==
    CASE proc[p].pc = "register" -> <<"source", proc[p].job>>
      [] proc[p].pc = "seed" /\ proc[p].job = "services" /\ ~AtEnd(p) -> SeedKey(p)
      [] AtNode(p, "look", "posture") /\ ~proc[p].aborted -> SvcKey(InferServiceKind(Node(p).name))
      [] AtNode(p, "store", "ssh") -> HostKey(Node(p))
      [] OTHER -> <<"none">>
WaitsOn(p, q) == Wants(p) \in DOMAIN tx[q] /\ ~Sees(p, Wants(p))
DeadlockVictim(p) ==
    /\ \E q \in Procs \ {p} : WaitsOn(p, q) /\ WaitsOn(q, p)
    /\ IF proc[p].pc = "seed" THEN Gone(p)
       ELSE proc' = [NextNode(p, {}) EXCEPT ![p].aborted = TRUE] /\ UNCHANGED tx
    /\ UNCHANGED <<tab, runs, report, missing, overlap, faults>>

Step(p) ==
    \/ \E j \in Jobs, f \in DOMAIN AuditFiles : Start(p, j, f)
    \/ Register(p) \/ PassOver(p)
    \/ SshLook(p) \/ SshStore(p)
    \/ PostureLook(p) \/ PostureStore(p)
    \/ TrustLoad(p) \/ TrustEndpoints(p) \/ NodeRejected(p)
    \/ SeedDomain(p) \/ SeedService(p)
    \/ Finish(p) \/ Crash(p) \/ DeadlockVictim(p)

Next == \E p \in Procs : Step(p)
Spec == Init /\ [][Next]_vars

-----------------------------------------------------------------------------
\* An upsert without a UNIQUE constraint: the (host, uuid) of a GPU has one row
\* because concurrent loads of a host are serialised by the host's row;
\* "registry.service_instance - upserted by (host_id, instance_name)" has a
\* second row only after posture loads that overlapped.
SameUpsert(j, k) == j[1] = k[1] /\ j[1] \in {"gpu", "inst"} /\ j[2] = k[2] /\ j[3] = k[3]
UpsertsAreUnique ==
    \A j, k \in DOMAIN tab :
        SameUpsert(j, k) /\ j # k => j[1] = "inst" /\ {j[4], k[4]} \in overlap

\* What a finished load printed is all stored or all gone: after an error the
\* server noticed, nodes reported as OK are not in the registry and neither is
\* their collection run; without one, each of them is.
DoneIsAllOrNothing ==
    \A r \in {x \in report : x.job \in Loads} :
        IF r.ok THEN /\ <<"run", r.run>> \in DOMAIN tab
                     /\ r.job = "ssh" => \A a \in r.said : <<"snap", a, r.run>> \in DOMAIN tab
                     /\ r.job = "trust" => \A a \in r.said : <<"art", a, r.run>> \in DOMAIN tab
        ELSE \A k \in DOMAIN tab : k[1] \in {"run", "snap", "fact", "art", "inst", "gpu"}
                => k[Len(k)] # r.run

\* A lookup of a term never raises in a loader that has found a taxonomy: the
\* seed commits its 22 domains in one transaction, and every code the loaders
\* ask for (with their fallbacks) is in the catalogue.
LookupsResolve == missing = {}

\* Once the services seed has finished, its services are the seed's, whatever
\* loaders ran before, at the same time or since: kind, environment and
\* lifecycle are terms of their own domains with the seed's codes.
SeededServices ==
    (\E r \in report : r.job = "services") =>
        \A i \in DOMAIN SeedRows :
            LET s == AllServices[SeedRows[i]] IN
            tab[SvcKey(s.code)] = [kind |-> <<"service_kind", s.kind>>,
                                   env |-> <<"environment", s.env>>,
                                   lifecycle |-> <<"lifecycle_status", s.lifecycle>>]

\* Both seeds keep their word to the loaders.
SeedIsAuthoritative == LookupsResolve /\ SeededServices
=============================================================================
