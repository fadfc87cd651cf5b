------------------------------- MODULE Bases -------------------------------
(***************************************************************************)
(* The programs of the bases: deploy() of the app zone, the landing zone,   *)
(* the app workload, the data zone and the smaller ones.  An optional part   *)
(* of a configuration is a sequence of at most one.                          *)
(***************************************************************************)
EXTENDS AzApp, AzPlatform, Identity, NetworkBases

\* model_copy(update={"log_workspace_id": ...})
LoggingTo(refs, c) == [c EXCEPT !.log_workspace = <<refs>>]

Logs == LogWorkspace(ResourceGroup).urn

-----------------------------------------------------------------------------
(* Workload identities: an app for each, named for the kind of credential *)

WorkloadIdentity(credential) ==
    [ name |-> credential.credential_type, app_roles |-> <<>>, oauth2_scopes |-> <<>>,
      client_credentials |-> <<>>, federated_credentials |-> Credentials(credential),
      entra_roles |-> <<>>, skip_exports |-> FALSE, exports_prefix |-> <<credential.credential_type>> ]

WorkloadIdentities(credentials) ==
    Validated(\A credential \in ToSet(credentials) : credential.credential_type = "github" => ValidGitHub(credential),
        ForEach(credentials, LAMBDA credential, i :
            EntraAppProgram(WorkloadIdentity(credential))
            \o PrincipalPermissions(WorkloadIdentity(credential), credential.permissions)))

WorkloadIdentitiesProgram(c) == Begin \o WorkloadIdentities(c.identities)

-----------------------------------------------------------------------------
(* App zone *)

\* The configuration of the insights, when there is one, names a workspace itself.
AppInsights(c) ==
    Resource(ResourceGroup, "Component", "w", {RG} \cup (IF c.app_insights THEN {} ELSE {Logs}))

\* The Event Hub gets the name of the resource group for a workspace.
AppZoneProgram(c) ==
    Begin
    \o LogWorkspaceProgram(ResourceGroup)
    \o <<AppInsights(c), Export(<<"app_insights">>)>>
    \o ContainerAppEnvProgram(ResourceGroup,
           LoggingTo({Logs}, [c.containerapp_env EXCEPT !.refs = @ \cup {AppInsights(c).urn}]))
    \o ForEach(c.container_registry, LAMBDA r, i : ContainerRegistryProgram(ResourceGroup, r))
    \o KeyVaultProgram(ResourceGroup, LoggingTo({Logs}, c.keyvault))
    \o ForEach(c.event_hub, LAMBDA e, i : EventHubProgram(ResourceGroup, LoggingTo({RG}, e)))
    \o ForEach(c.servicebus, LAMBDA s, i : ServiceBusProgram(LoggingTo({Logs}, s)))
    \o ForEach(c.storage_accounts, LAMBDA st, i : StorageProgram(ResourceGroup, st))
    \o WorkloadIdentities(c.workload_identities)

-----------------------------------------------------------------------------
(* ACME certificates *)

AcmeComponent == Component(Root, "Graviton:AcmeSsl", "w")
AcmeProvider(zone) == Resource(AcmeComponent, "acme.Provider", zone, {})
AcmeKey == Resource(AcmeComponent, "PrivateKey", "acme-account-key", {})
RandomPlus == Resource(Root, "RandomString", "rand-plus", {})
AcmeRegistration(zone) ==
    Resource(AcmeComponent, "Registration", "acme-reg", {RandomPlus.urn, AcmeKey.urn, AcmeProvider(zone).urn})

\* The challenge is answered in the zone, which is named by a plain string; `zones'
\* are the zones of that name the program declares.
AcmeCertificate(zone, zones) ==
    Naming(Resource(AcmeRegistration(zone), "acme.Certificate", zone,
             {AcmeRegistration(zone).urn, AcmeProvider(zone).urn,
              RandomPassword(AcmeComponent, <<"pfx", zone>>).urn}), zones)

\* vault: the resource that the id of the vault comes from, if there is a vault.
AcmeProgram(zone, zones, vault) ==
    LET certificate == AcmeCertificate(zone, zones)
    IN  << AcmeComponent, RandomPlus, AcmeProvider(zone),
           RandomPassword(AcmeComponent, <<"pfx", zone>>), AcmeKey, AcmeRegistration(zone), certificate >>
        \o ForEach(vault, LAMBDA refs, i :
             SecretProgram(certificate, <<"cert", zone>>, refs, {certificate.urn}))
        \o <<Export(<<"certificate">>)>>

-----------------------------------------------------------------------------
(* Landing zone *)

\* The certificate asks for the vault whether or not there is one: without it the
\* name is unbound and the program raises.
LandingZoneProgram(c) ==
    Begin
    \o LogWorkspaceProgram(ResourceGroup)
    \o When(c.has_keyvault, KeyVaultProgram(ResourceGroup, LoggingTo({Logs}, c.keyvault)))
    \o ForEach(c.dns_zone, LAMBDA zone, i :
         DnsZoneProgram(ResourceGroup, zone)
         \o When(c.acme_ssl,
              IF ~c.has_keyvault THEN Raise
              ELSE AcmeProgram(zone.name, {DnsZone(ResourceGroup, zone).urn},
                               <<{Vault(ResourceGroup, c.keyvault).urn}>>)))
    \o ForEach(c.container_registry, LAMBDA r, i : ContainerRegistryProgram(ResourceGroup, r))
    \o ForEach(c.eventhub, LAMBDA e, i : EventHubProgram(ResourceGroup, LoggingTo({Logs}, e)))
    \o ForEach(c.eventgrid_domain, LAMBDA d, i : EventGridProgram(LoggingTo({Logs}, d)))
    \o ForEach(c.search_service, LAMBDA s, i : SearchProgram(LoggingTo({Logs}, s)))
    \o WorkloadIdentities(c.workload_identities)

-----------------------------------------------------------------------------
(* App workload *)

\* A role of one account and the same role of another, for the same app, are the
\* same name.
StorageRoles(c) ==
    ForEach(c.storage_accounts, LAMBDA st, i :
        [k \in 1 .. Len(st.app_permissions) |-> [name_prefix |-> <<>>, role |-> st.app_permissions[k]]])

StoreRoles == << [name_prefix |-> <<>>, role |-> "App Configuration Data Reader"],
                 [name_prefix |-> <<>>, role |-> "Reader"] >>

WorkloadData(c) ==
    ForEach(c.storage_accounts, LAMBDA st, i :
        StorageProgram(ResourceGroup, [st EXCEPT !.exports_prefix = <<st.name>>]))
    \o ForEach(c.search_service, LAMBDA s, i : SearchProgram(s))

\* app_deps before and after the configuration store.
DataDeps(c) ==
    Members(StorageComponent(ResourceGroup), WorkloadData(c)) \cup Members(SearchComponent, WorkloadData(c))

WorkloadStore(c) ==
    ForEach(c.app_config, LAMBDA a, i : AppConfigProgram(ResourceGroup, DataDeps(c), a))

AppDeps(c) ==
    DataDeps(c) \cup Members(AppConfigComponent(ResourceGroup, DataDeps(c)), WorkloadStore(c))

\* app_secrets, one list that grows: the endpoints of what the apps depend on, then
\* what each app or job brings.  An app is handed the list itself and adds the key
\* of its registry to it, unless the list was empty: then it makes one of its own.
DepSecrets(c) ==
    ForEach(c.storage_accounts, LAMBDA st, i : GetEndpoints(st))
    \o When(c.app_config # <<>>, <<"appconfig-endpoint">>)

SharedSecrets(c, k) ==
    LET all == c.apps \o c.jobs
        handed(j) == DepSecrets(c) # <<>> \/ \E i \in 1 .. j : all[i].secrets # <<>>
        left(j) == all[j].secrets \o
                   When(j < k /\ handed(j) /\ all[j].registry # {}, <<"registry-secret">>)
    IN  When(handed(k), DepSecrets(c) \o FlattenSeq([j \in 1 .. k |-> left(j)]))

\* The k-th app or job as the workload completes it: the secrets of the list, and
\* the roles on what it depends on.
WorkloadApp(c, app, k) ==
    [app EXCEPT
       !.secrets = SharedSecrets(c, k),
       !.permissions = @ \o StorageRoles(c) \o When(c.app_config # <<>>, StoreRoles),
       !.refs = @ \cup Urns({n \in ToSet(WorkloadData(c) \o WorkloadStore(c)) :
                               n.urn[2] \in {"StorageAccount", "ConfigurationStore"}})]

WorkloadApps(c) ==
    ForEach(c.apps \o c.jobs, LAMBDA app, k :
        ContainerAppProgram(ResourceGroup, AppDeps(c), WorkloadApp(c, app, k)))

\* Routes wait for every app (not for the jobs) and take the first one's environment.
WorkloadRoutes(c) ==
    LET apps == ToSet(c.apps)
        app(name) == {ContainerApp(ResourceGroup, AppDeps(c), a).urn : a \in {b \in apps : AppName(b) = name}}
        waits == UNION {Members(AppComponent(ResourceGroup, AppDeps(c), a), WorkloadApps(c)) : a \in apps}
    IN  IF c.http_routes # <<>> /\ apps = {} THEN Raise
        ELSE ForEach(c.http_routes, LAMBDA route, i :
               HttpRouteProgram(ResourceGroup, waits,
                 [route EXCEPT !.environment = c.apps[1].environment,
                               !.targets = UNION {app(name) : name \in route.targets}]))

\* validate_apps, validate_http_routes
DistinctNames(configs) ==
    \A i, j \in 1 .. Len(configs) : i # j => configs[i].name # configs[j].name

AppWorkloadProgram(c) ==
    Validated(DistinctNames(c.apps) /\ DistinctNames(c.http_routes),
        Begin \o WorkloadData(c) \o WorkloadStore(c)
        \o WorkloadApps(c)
        \o WorkloadRoutes(c)
        \o ForEach(c.oauth_app, LAMBDA a, i : EntraAppProgram([a EXCEPT !.exports_prefix = <<"oauth">>])))

-----------------------------------------------------------------------------
(* Data zone and the database server of its own *)

OverridingLog(c, server) == IF c.log_workspace = <<>> THEN server ELSE LoggingTo(c.log_workspace[1], server)

SqlDatabases(c, server, databases) ==
    ForEach(databases, LAMBDA db, i :
        SqlDatabaseProgram(ResourceGroup, OverridingLog(c, db),
            {SqlServer(server).urn} \cup IF server.elastic_pool THEN {SqlElasticPool(server).urn} ELSE {}))

DataZoneProgram(c) ==
    Begin
    \o ForEach(c.postgres, LAMBDA p, i : PostgresProgram(OverridingLog(c, p)))
    \o ForEach(c.mysql, LAMBDA m, i : MysqlProgram(OverridingLog(c, m)))
    \o ForEach(c.sql_server, LAMBDA s, i :
         SqlProgram(OverridingLog(c, s)) \o SqlDatabases(c, s, c.sql_databases))
    \o ForEach(c.storage_accounts, LAMBDA st, i : StorageProgram(ResourceGroup, st))

\* The server's own workspace is lost when the base has none.
AzureSqlProgram(c) ==
    Begin
    \o SqlProgram([c.server EXCEPT !.log_workspace = c.log_workspace])
    \o SqlDatabases(c, c.server, c.databases)

-----------------------------------------------------------------------------
(* Oracle database host *)

\* cloud-init holds the account's key and the names of its shares.
CloudInitConfig(account, shares) ==
    Resource(Root, "cloudinit.Config", "cloud-init-config", {account.urn} \cup Urns(ToSet(shares)))

OracleProgram(c) ==
    LET storage == StorageProgram(ResourceGroup, c.storage)
        account == StorageAccount(ResourceGroup, c.storage.name)
        init == CloudInitConfig(account, Parts(account, "FileShare", c.storage.file_shares))
    IN  Begin \o storage \o <<init>>
        \o VmProgram(ResourceGroup, Members(StorageComponent(ResourceGroup), storage) \cup {init.urn},
                     [c.vm EXCEPT !.custom_data = {init.urn}])

-----------------------------------------------------------------------------
(* Entra and ESC, App Service *)

\* Apps with the same name share a key of the export, and their URNs.
OauthAppsProgram(c) ==
    Begin
    \o ForEach(c.oauth_apps, LAMBDA app, i : EntraAppProgram([app EXCEPT !.skip_exports = TRUE]))
    \o <<Export(<<"oauth_apps">>)>>

PulumiApp ==
    [ name |-> "pulumi", app_roles |-> <<>>, oauth2_scopes |-> <<>>, client_credentials |-> <<>>,
      federated_credentials |-> <<<<>>>>, entra_roles |-> <<"Cloud Application Administrator">>,
      skip_exports |-> FALSE, exports_prefix |-> <<"pulumi">> ]

DefaultPermissions ==
    [i \in 1 .. 3 |-> [ name_prefix |-> <<"pulumi">>,
                        role |-> << "Contributor", "Key Vault Secrets Officer",
                                    "Role Based Access Control Administrator" >>[i] ]]

AzureEnvironmentProgram(c) ==
    Begin
    \o EntraAppProgram(PulumiApp)
    \o PrincipalPermissions(PulumiApp, c.azure_permissions \o DefaultPermissions)
    \o PulumiEnvProgram(c.env, {"env_name", "imports", "values"},
                        {RG, EntraApplication(PulumiApp).urn, ServicePrincipal(PulumiApp).urn})

\* The tenant's environment is handed no input: what was put together is not used.
AzureTenantProgram(c) == PulumiEnvProgram(c.env, {}, {})

\* The suite's configuration has no workload_name, which its plan is named for.
AppServiceSuiteProgram == Begin \o <<Export(<<"resource_group_name">>)>> \o Raise

ExternalIdProgram(c) == Begin \o ExternalIdTenantProgram(c.initial_domain_prefix)
=============================================================================
