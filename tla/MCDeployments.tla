--------------------------- MODULE MCDeployments ---------------------------
(***************************************************************************)
(* The stories of some small stacks: every component and every base is      *)
(* deployed by one of them, with few resources that do not wait for each    *)
(* other, so that every order of theirs is tried.  Programs that raise        *)
(* half-way are followed by a correct one.                                    *)
(***************************************************************************)
EXTENDS Deployment, Bases

Stack(program) == Update(Begin \o program)

NoLog == <<>>
Workspace == <<{}>>   \* one that exists already

-----------------------------------------------------------------------------
(* Networks *)

Subnet(name, prefix, rules) == [name |-> name, prefix |-> prefix, rules |-> rules, route_table |-> ""]

Network(subnets) ==
    [ subnets |-> subnets, address_space |-> <<0 .. 9>>, create_default_nsgs |-> FALSE,
      create_ip_groups |-> FALSE, route_tables |-> <<>>, peered_vnets |-> <<>> ]

Rule(name) == [name |-> name, priority |-> 0]
At(name, priority) == [name |-> name, priority |-> priority]

Rules(rules) == Stack(VnetProgram(Network(<<Subnet("app", {1}, rules)>>)))

Peered == [Network(<<[Subnet("app", {1}, <<>>) EXCEPT !.route_table = "out"]>>)
             EXCEPT !.route_tables = <<[name |-> "out", routes |-> <<"default">>]>>,
                    !.create_ip_groups = TRUE,
                    !.peered_vnets = <<[name |-> "hub", subscription |-> "s"]>>]

Overlapping == Network(<<Subnet("app", {1, 2}, <<>>), Subnet("data", {2}, <<>>)>>)

Group(name, priority) ==
    [name |-> name, priority |-> priority, collection_priorities |-> <<100, 200>>, destination_urls |-> FALSE]

FirewallConfig ==
    [ name |-> "fw", sku |-> "Standard", virtual_hub |-> FALSE, management_subnet |-> FALSE, log |-> "own",
      dns_proxy |-> FALSE, custom_dns_servers |-> FALSE, log_workspace |-> NoLog,
      rule_collection_groups |-> <<Group("net", 100), Group("app", 200), Group("nat", 300)>> ]

SamePriorities == [FirewallConfig EXCEPT !.rule_collection_groups = <<Group("net", 100), Group("app", 100)>>]

\* A firewall that logs nowhere, with other groups.
Groups(groups) == Update(FirewallBaseProgram([FirewallConfig EXCEPT !.log = "none", !.rule_collection_groups = groups]))
ThreeGroups == Groups(FirewallConfig.rule_collection_groups)

Zone(name, records) ==
    [ name |-> name, group |-> "", existing |-> FALSE, records |-> records, parent_zone |-> FALSE,
      other_subscription |-> FALSE, enable_dnssec |-> FALSE, skip_exports |-> FALSE ]

PublicZone == [Zone(<<"a", ".", "b">>, <<[type |-> "A", name |-> <<"@">>, refs |-> {}]>>)
                 EXCEPT !.parent_zone = TRUE, !.other_subscription = TRUE, !.enable_dnssec = TRUE]

PrivateZoneConfig == [name |-> <<"z">>, linked_vnets |-> <<"v">>, skip_exports |-> FALSE,
                      records |-> <<[type |-> "A", name |-> <<"x">>]>>]

\* With a record of a type that a private zone does not have.
DelegatingZone == [PrivateZoneConfig EXCEPT !.records = @ \o <<[type |-> "NS", name |-> <<"y">>]>>]

ResolverConfig == [inbound |-> TRUE, outbound |-> TRUE, rules |-> <<<<"c", ".", "d">>>>, linked_vnets |-> <<"v">>]

Hub == [ vnet |-> Network(<<>>), has_vwan |-> FALSE,
         vwan |-> [hub_vnet_connections |-> <<>>, sites |-> <<>>],
         p2s_vpn |-> FALSE, s2s_vpn |-> FALSE, default_zones |-> <<>>, has_vpn |-> FALSE,
         vpn |-> [active_active |-> FALSE, point_to_site |-> FALSE, site_to_site |-> FALSE],
         dns_zone |-> <<>>, dns_zones |-> <<>>, has_resolver |-> FALSE, resolver |-> ResolverConfig,
         private_dns_zones |-> <<>> ]

WanHub == [Hub EXCEPT !.has_vwan = TRUE, !.p2s_vpn = TRUE,
                      !.vwan = [hub_vnet_connections |-> <<"spoke">>, sites |-> <<>>],
                      !.default_zones = <<<<"blob">>, <<"blob">>>>]

SiteHub == [Hub EXCEPT !.has_vwan = TRUE, !.s2s_vpn = TRUE,
                       !.vwan = [hub_vnet_connections |-> <<>>, sites |-> <<"office">>],
                       !.default_zones = <<<<"blob">>, <<"file">>>>]

VpnHub == [Hub EXCEPT !.has_vpn = TRUE, !.vpn = [active_active |-> TRUE, point_to_site |-> FALSE, site_to_site |-> TRUE]]

DnsHub == [Hub EXCEPT !.dns_zone = <<PublicZone>>]

ResolvingHub == [Hub EXCEPT !.has_resolver = TRUE, !.private_dns_zones = <<PrivateZoneConfig>>]

DelegatingHub == [Hub EXCEPT !.private_dns_zones = <<DelegatingZone>>]

UnlinkedHub == [Hub EXCEPT !.has_resolver = TRUE, !.resolver = [ResolverConfig EXCEPT !.linked_vnets = <<>>]]

NetworkStories ==
    [ rules |-> <<Rules(<<Rule("https")>>), Rules(<<Rule("ssh"), Rule("https")>>), Rules(<<>>)>>,
      priorities |-> <<Rules(<<At("https", 102), Rule("ssh")>>), Rules(<<At("https", 102), At("ssh", 103)>>)>>,
      network |-> <<Stack(VnetProgram(Overlapping)), Stack(VnetProgram(Peered)), Stack(VnetProgram(Network(<<>>)))>>,
      tables |-> <<Stack(VnetProgram([Peered EXCEPT !.route_tables = <<>>])), Stack(VnetProgram(Peered))>>,
      firewall |-> <<Update(FirewallBaseProgram(SamePriorities)), Update(FirewallBaseProgram(FirewallConfig))>>,
      groups |-> <<ThreeGroups, Groups(<<Group("dns", 400), Group("nat", 300), Group("app", 200)>>), ThreeGroups>>,
      ungrouped |-> <<ThreeGroups, Groups(<<Group("app", 200)>>)>>,
      wan |-> <<Update(HubSpokeProgram(WanHub))>>,
      sites |-> <<Update(HubSpokeProgram(SiteHub))>>,
      vpn |-> <<Update(HubSpokeProgram(VpnHub))>>,
      dns |-> <<Update(HubSpokeProgram(DnsHub))>>,
      resolver |-> <<Update(HubSpokeProgram(UnlinkedHub)), Update(HubSpokeProgram(ResolvingHub))>>,
      delegation |-> <<Update(HubSpokeProgram(DelegatingHub)), Update(HubSpokeProgram(ResolvingHub))>> ]
-----------------------------------------------------------------------------
(* Data and services *)

Storage ==
    [ name |-> "st", storage_containers |-> <<>>, storage_tables |-> <<>>, storage_queues |-> <<>>,
      file_shares |-> <<>>, smb_secure_defaults |-> TRUE, sftp_users |-> <<>>,
      private_endpoints |-> <<>>, exports_prefix |-> <<>>, standard |-> TRUE,
      file_storage |-> FALSE, app_permissions |-> <<>> ]

FullStorage == [Storage EXCEPT !.storage_containers = <<"a", "b">>, !.storage_tables = <<"t">>,
                               !.storage_queues = <<"q">>, !.file_shares = <<"f">>,
                               !.sftp_users = <<[username |-> "u", containers |-> <<"a">>]>>]

\* What an account cannot have: a private endpoint, a user of a container it lacks.
EndpointStorage == [FullStorage EXCEPT !.sftp_users = <<>>, !.private_endpoints = <<<<"blob">>>>]
StrangerStorage == [FullStorage EXCEPT !.sftp_users = <<[username |-> "u", containers |-> <<"a", "c">>]>>]

Sql == [ name |-> "sql", azure_ad_only_authentication |-> FALSE, admin_password |-> FALSE,
         allowed_subnet_ids |-> <<"s">>, allowed_public_networks |-> <<>>,
         allow_azure_services |-> FALSE, dns_alias |-> FALSE, elastic_pool |-> FALSE,
         private_endpoints |-> <<>>, job_agent_enabled |-> FALSE, log_workspace |-> NoLog ]

PooledSql == [Sql EXCEPT !.azure_ad_only_authentication = TRUE, !.allowed_subnet_ids = <<>>,
                         !.elastic_pool = TRUE, !.job_agent_enabled = TRUE, !.log_workspace = Workspace]

LinkedSql == [Sql EXCEPT !.allowed_subnet_ids = <<>>, !.allowed_public_networks = <<<<"o", ".", "1">>>>,
                         !.allow_azure_services = TRUE, !.dns_alias = TRUE, !.private_endpoints = <<TRUE>>]

Mysql == [ create_mode |-> "Default", source_server |-> FALSE, restore_point |-> FALSE, network |-> FALSE,
           allowed_public_networks |-> <<<<"o", ".", "1">>>>, allow_azure_services |-> FALSE,
           admin_password |-> FALSE, entra_auth |-> TRUE, azure_environment |-> TRUE, server_name |-> "",
           databases |-> <<"d">>, log_workspace |-> NoLog, server_params |-> <<<<"max", "_", "n">>>> ]

Postgres == [ create_mode |-> "Default", source_server |-> FALSE, restore_point |-> FALSE, premium_v2 |-> FALSE,
              iops |-> FALSE, throughput |-> FALSE, admin_password |-> FALSE, azure_environment |-> TRUE,
              server_name |-> "p", log_workspace |-> Workspace, server_params |-> <<<<"a", ".", "b">>>> ]

DataZone == [ postgres |-> <<>>, mysql |-> <<>>, sql_server |-> <<>>, sql_databases |-> <<>>,
              storage_accounts |-> <<>>, log_workspace |-> NoLog ]

Bus == [ name |-> "sb", queues |-> <<>>, private_endpoints |-> <<>>, log_workspace |-> NoLog,
         allowed_public_ips |-> FALSE ]

Queue(name) == [name |-> name, forward_to |-> "", forward_dead_letters_to |-> ""]

Hubs == [ hubs |-> <<"e">>, allowed_public_ips |-> TRUE, allowed_subnet_ids |-> FALSE,
          private_endpoints |-> <<>>, log_workspace |-> NoLog ]

Topics == [ name |-> "eg", topics |-> <<"t">>, azure_permissions |-> <<[name_prefix |-> <<>>, role |-> "R"]>>,
            log_workspace |-> NoLog ]

VaultConfig == [name |-> "kv", log_workspace |-> NoLog, private_endpoints |-> <<>>]
Registry == [name |-> "cr"]
Cognitive == [name |-> "", kind |-> "OpenAI", private_endpoints |-> <<FALSE>>, log_workspace |-> Workspace]
Search == [private_endpoints |-> <<>>, log_workspace |-> NoLog]

DataStories ==
    [ storage |-> <<Stack(StorageProgram(ResourceGroup, FullStorage)), Stack(StorageProgram(ResourceGroup, Storage))>>,
      endpoint |-> <<Stack(StorageProgram(ResourceGroup, EndpointStorage)), Stack(StorageProgram(ResourceGroup, Storage))>>,
      stranger |-> <<Stack(StorageProgram(ResourceGroup, StrangerStorage)), Stack(StorageProgram(ResourceGroup, Storage))>>,
      sql |-> <<Update(AzureSqlProgram([server |-> PooledSql, databases |-> <<>>, log_workspace |-> Workspace]))>>,
      linked |-> <<Stack(SqlProgram(LinkedSql))>>,
      datazone |-> << Update(DataZoneProgram([DataZone EXCEPT
                        !.sql_server = <<Sql>>, !.storage_accounts = <<Storage>>,
                        !.sql_databases = <<[name |-> "db", log_workspace |-> NoLog]>>])) >>,
      mysql |-> << Update(DataZoneProgram([DataZone EXCEPT !.mysql = <<[Mysql EXCEPT !.create_mode = "Replica"]>>])),
                   Update(DataZoneProgram([DataZone EXCEPT !.mysql = <<Mysql>>])) >>,
      postgres |-> << Update(DataZoneProgram([DataZone EXCEPT !.postgres = <<[Postgres EXCEPT !.premium_v2 = TRUE]>>])),
                      Update(DataZoneProgram([DataZone EXCEPT !.postgres = <<Postgres>>])) >>,
      cognitive |-> <<Stack(CognitiveProgram(Cognitive))>> ]

-----------------------------------------------------------------------------
(* Apps and platform *)

Env == [ refs |-> {}, custom_domain |-> <<>>, certificates |-> <<>>, storage |-> <<>>,
         zone_redundant |-> FALSE, subnet |-> FALSE, log_workspace |-> NoLog ]

Share == [name |-> "m", prefix |-> "m", file_shares |-> <<>>]

DomainEnv == [Env EXCEPT !.custom_domain = <<[name |-> <<"a", ".", "b">>, group |-> "dns", zone |-> TRUE]>>,
                         !.storage = <<Share>>]

App == [ name |-> "", job |-> FALSE, environment |-> {}, registry |-> {}, refs |-> {}, secrets |-> <<>>,
         resiliency |-> FALSE, domains |-> <<>>, permissions |-> <<>> ]

Domain == [zone |-> <<[name |-> <<"b">>, group |-> "dns", holds |-> TRUE]>>, name |-> <<"x">>, auto |-> TRUE]

PublicApp == [App EXCEPT !.resiliency = TRUE, !.domains = <<Domain>>,
                         !.permissions = <<[name_prefix |-> <<>>, role |-> "R"]>>]

\* A domain of another zone.
StrayApp == [PublicApp EXCEPT !.domains = <<[Domain EXCEPT !.zone[1].holds = FALSE]>>]

HttpRoute == [ name |-> "r", matches |-> {{"prefix"}}, weights |-> <<50, 50>>, targets |-> {"a"},
               environment |-> {}, domains |-> <<>> ]

FrontDoor ==
    [ name |-> "fd", origin_groups |-> <<[name |-> "g", origins |-> <<"x", "y">>]>>, custom_domains |-> <<"d">>,
      endpoints |-> << [name |-> "e", routes |-> <<[name |-> "r", origin_group |-> "g", custom_domains |-> {"d"}]>>] >>,
      waf_policy |-> TRUE, premium |-> TRUE, log_workspace |-> NoLog ]

\* A policy with nothing to guard.
Guardless == [FrontDoor EXCEPT !.endpoints = <<>>, !.custom_domains = <<>>]

Site == [ name |-> "", refs |-> {}, private_endpoints |-> <<>>, log_workspace |-> Workspace,
          permissions |-> <<[name_prefix |-> <<>>, role |-> "R"], [name_prefix |-> <<"p">>, role |-> "R"]>> ]

Vm == [ disks |-> <<"d">>, custom_data |-> {}, disk_configs |-> {},
        image |-> [gallery_urn |-> FALSE, offer |-> TRUE, publisher |-> TRUE, sku |-> TRUE] ]

WindowsDisk == [ create_mode |-> "Empty", source_disk |-> FALSE, source_image |-> FALSE,
                 os_type |-> "Windows", generation |-> "V2" ]

Entra == [ name |-> "a", app_roles |-> <<"r">>, oauth2_scopes |-> <<"s">>, client_credentials |-> <<"c">>,
           federated_credentials |-> <<<<>>>>, entra_roles |-> <<"e">>, skip_exports |-> FALSE, exports_prefix |-> <<>> ]

PlatformStories ==
    [ environment |-> << Stack(ContainerAppEnvProgram(ResourceGroup, [Env EXCEPT !.zone_redundant = TRUE])),
                         Stack(ContainerAppEnvProgram(ResourceGroup, DomainEnv)) >>,
      app |-> <<Stack(ContainerAppProgram(ResourceGroup, {}, StrayApp)), Stack(ContainerAppProgram(ResourceGroup, {}, PublicApp))>>,
      waf |-> <<Stack(FrontDoorProgram(Guardless)), Stack(FrontDoorProgram(FrontDoor))>>,
      frontdoor |-> << Stack(FrontDoorProgram([FrontDoor EXCEPT !.premium = FALSE, !.endpoints = <<>>, !.custom_domains = <<>>])),
                       Stack(FrontDoorProgram(FrontDoor)), Stack(<<>>) >>,
      appservice |-> <<Update(AppServiceSuiteProgram), Stack(PlanProgram([log_workspace |-> Workspace])), Stack(WebAppProgram(Site))>>,
      workflow |-> <<Stack(WorkflowProgram(Site))>>,
      backup |-> <<Stack(BackupVaultProgram)>> ]

-----------------------------------------------------------------------------
(* Bases *)

Identity(type) == [ credential_type |-> type, repos |-> <<"r">>, environments |-> <<"e">>, branches |-> <<"b">>,
                    tags |-> <<>>, pull_request |-> FALSE, permissions |-> <<>> ]

\* A GitHub identity for no subject at all.
Subjectless == [Identity("github") EXCEPT !.environments = <<>>, !.branches = <<>>]

AppZone == [ app_insights |-> FALSE, containerapp_env |-> Env, container_registry |-> <<>>, keyvault |-> VaultConfig,
             event_hub |-> <<>>, servicebus |-> <<>>, storage_accounts |-> <<>>, workload_identities |-> <<>> ]

LandingZone == [ has_keyvault |-> FALSE, keyvault |-> VaultConfig, dns_zone |-> <<>>, acme_ssl |-> FALSE,
                 container_registry |-> <<>>, eventhub |-> <<>>, eventgrid_domain |-> <<>>, search_service |-> <<>>,
                 workload_identities |-> <<>> ]

Workload == [ apps |-> <<>>, jobs |-> <<>>, app_config |-> <<>>, storage_accounts |-> <<>>, search_service |-> <<>>,
              oauth_app |-> <<>>, http_routes |-> <<>> ]

BackedJob == [Workload EXCEPT !.storage_accounts = <<[Storage EXCEPT !.app_permissions = <<"R">>]>>,
                              !.app_config = <<[keys |-> <<"k", "l">>]>>, !.jobs = <<[App EXCEPT !.job = TRUE]>>]

RoutedApp == [Workload EXCEPT !.search_service = <<Search>>, !.apps = <<[App EXCEPT !.name = "a"]>>,
                              !.http_routes = <<HttpRoute>>]

\* Two apps that are told apart by nothing.
SameNames == [RoutedApp EXCEPT !.apps = <<App, App>>]

\* Routes and no app to route to.
Appless == [RoutedApp EXCEPT !.apps = <<>>]

FullAppZone == [AppZone EXCEPT !.container_registry = <<Registry>>, !.event_hub = <<Hubs>>,
                               !.servicebus = <<Bus>>, !.storage_accounts = <<Storage>>]

FullLandingZone == [LandingZone EXCEPT !.has_keyvault = TRUE, !.dns_zone = <<Zone(<<"b">>, <<>>)>>,
                                       !.eventgrid_domain = <<Topics>>, !.search_service = <<Search>>,
                                       !.workload_identities = <<Identity("pulumi")>>]

ZonedLandingZone == [LandingZone EXCEPT !.dns_zone = <<Zone(<<"b">>, <<>>)>>]

\* A certificate and no vault for it.
Keyless == [ZonedLandingZone EXCEPT !.acme_ssl = TRUE]

BaseStories ==
    [ appzone |-> <<Update(AppZoneProgram(FullAppZone)), Update(AppZoneProgram(AppZone))>>,
      landing |-> <<Update(LandingZoneProgram(LandingZone)), Update(LandingZoneProgram(FullLandingZone))>>,
      keyless |-> <<Update(LandingZoneProgram(Keyless)), Update(LandingZoneProgram(ZonedLandingZone))>>,
      acme |-> <<Stack(AcmeProgram(<<"b">>, {}, <<{}>>))>>,
      workload |-> <<Update(AppWorkloadProgram(BackedJob)), Update(AppWorkloadProgram(Workload))>>,
      routes |-> <<Update(AppWorkloadProgram(SameNames)), Update(AppWorkloadProgram(RoutedApp))>>,
      appless |-> <<Update(AppWorkloadProgram(Appless)), Update(AppWorkloadProgram(RoutedApp))>>,
      oracle |-> <<Update(OracleProgram([storage |-> [Storage EXCEPT !.file_shares = <<"f">>], vm |-> Vm]))>>,
      windows |-> << Update(OracleProgram([storage |-> Storage, vm |-> [Vm EXCEPT !.disk_configs = {WindowsDisk}]])),
                     Update(OracleProgram([storage |-> Storage, vm |-> Vm])) >>,
      oauth |-> <<Update(OauthAppsProgram([oauth_apps |-> <<Entra>>]))>>,
      identities |-> << Update(WorkloadIdentitiesProgram([identities |-> <<Identity("pulumi"), Subjectless>>])),
                        Update(WorkloadIdentitiesProgram([identities |-> <<Identity("github"), Identity("pulumi")>>])) >>,
      azure |-> <<Update(AzureEnvironmentProgram([env |-> "e", azure_permissions |-> <<>>]))>>,
      tenant |-> <<Update(ExternalIdProgram([initial_domain_prefix |-> "t"]))>> ]

MCStories ==
    LET components == NetworkStories @@ DataStories @@ PlatformStories
    IN  components @@ BaseStories

-----------------------------------------------------------------------------
(* Stories that go wrong: a share mounted by an environment, two managed       *)
(* storages of an environment.                                                 *)

MountedShare == [Env EXCEPT !.storage = <<[Share EXCEPT !.file_shares = <<"f">>]>>]
TwoStorages == [Env EXCEPT !.storage = <<Share, [Share EXCEPT !.name = "n", !.prefix = "n"]>>]

MCMountedShare ==
    LET program == ContainerAppEnvProgram(ResourceGroup, MountedShare)
    IN  [share |-> <<Stack(program)>>]
MCTwoStorages ==
    LET program == ContainerAppEnvProgram(ResourceGroup, TwoStorages)
    IN  [storages |-> <<Stack(program)>>]
=============================================================================
