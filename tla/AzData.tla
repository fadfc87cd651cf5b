------------------------------- MODULE AzData -------------------------------
(***************************************************************************)
(* What the components that hold data declare: storage accounts, SQL,      *)
(* MySQL and PostgreSQL servers, Service Bus, Event Hubs, Event Grid, key   *)
(* vaults, container registries and AI services.                           *)
(***************************************************************************)
EXTENDS AzNetwork

\* A part of a resource: it carries its own name within the resource, whose
\* name (an Output) is among its arguments.
PartOf(owner, type, name) ==
    Fixed(Resource(owner, type, name, {RG, owner.urn}), <<owner.urn[3], name>>)

\* The same, declared under the component instead.
Beside(component, owner, type, name) ==
    Fixed(Resource(component, type, name, {RG, owner.urn}), <<owner.urn[3], name>>)

Parts(owner, type, names) == ForEach(names, LAMBDA name, i : <<PartOf(owner, type, name)>>)

\* One endpoint for each entry of `private_endpoints' that the configuration has.
PrivateEndpoints(c, target) ==
    ForEach(c.private_endpoints, LAMBDA has_zone, i : PrivateEndpointProgram(target, has_zone, TRUE))

\* The principal is an Output of the resource that has the identity.
RoleAssignment(parent, prefix, role, principal) ==
    Resource(parent, "RoleAssignment", FmtName(prefix \o <<role>>), {principal})

RandomPassword(parent, name) == Resource(parent, "RandomPassword", name, {})

\* A rule for a public network: its name is formatted in the URN only.
FirewallRule(server, name) ==
    Fixed(Resource(server, "FirewallRule", FmtName(name), {RG, server.urn}),
          <<server.urn[3], name>>)

-----------------------------------------------------------------------------
(* Storage account *)

StorageComponent(parent) == Component(parent, "Graviton:az_storage:StorageAccount", <<"st", "w">>)

\* Without a name in the configuration Pulumi makes one up from the stack's.
StorageAccount(parent, name) ==
    LET account(n) == Resource(StorageComponent(parent), "StorageAccount", n, {RG})
    IN  IF name = "" THEN account("w") ELSE Fixed(account(name), name)

\* The names of the endpoints, suffixed: which there are depends on SKU and kind.
GetEndpoints(c) ==
    <<"blob-endpoint">>
    \o When(c.standard, <<"tables-endpoint">>)
    \o When(c.standard \/ c.file_storage, <<"file-endpoint">>)
    \o When(c.standard, <<"queue-endpoint">>)

\* A local user of the account for each container it may enter: one URN each, and
\* the same Azure name.  Its permissions name the container by a string, and it
\* waits for all of them.  One that is not declared raises, in mid-program.
SftpUsers(c, account) ==
    LET containers == ToSet(Parts(account, "BlobContainer", c.storage_containers))
        local(user, container) ==
          DependsOn(
            Naming(Fixed(Resource(account, "LocalUser", <<"sftp", container, user>>,
                                  {RG, account.urn}), <<account.urn[3], user>>),
                   {PartOf(account, "BlobContainer", container).urn}),
            Urns(containers))
    IN  ForEach(c.sftp_users, LAMBDA user, i :
          ForEach(user.containers, LAMBDA container, k :
            IF container \notin ToSet(c.storage_containers) THEN Raise
            ELSE <<local(user.username, container)>>))

\* The target of a private endpoint is a class here, which has no name: raises.
StorageEndpoints(c) ==
    ForEach(c.private_endpoints, LAMBDA sub_types, i : ForEach(sub_types, LAMBDA t, k : Raise))

FileShareSecurity(parent, account) ==
    Resource(StorageComponent(parent), "FileServiceProperties", "w", {RG, account.urn})

StorageProgram(parent, c) ==
    LET account == StorageAccount(parent, c.name)
    IN  <<StorageComponent(parent), account>>
        \o Parts(account, "BlobContainer", c.storage_containers)
        \o Parts(account, "Table", c.storage_tables)
        \o Parts(account, "Queue", c.storage_queues)
        \o When(c.file_shares # <<>> /\ c.smb_secure_defaults, <<FileShareSecurity(parent, account)>>)
        \o Parts(account, "FileShare", c.file_shares)
        \o SftpUsers(c, account)
        \o StorageEndpoints(c)
        \o <<Export(c.exports_prefix \o <<"storage_account">>)>>

-----------------------------------------------------------------------------
(* SQL server and database *)

SqlDatabaseComponent(parent, name) == Component(parent, "Graviton:SqlDatabase", name)

\* The server is known by its name; the pool, when the database is in one, by id.
SqlDatabase(parent, c, refs) ==
    Fixed(Resource(SqlDatabaseComponent(parent, c.name), "Database", c.name, {RG} \cup refs), c.name)

SqlDatabaseProgram(parent, c, refs) ==
    <<SqlDatabaseComponent(parent, c.name), SqlDatabase(parent, c, refs)>>
    \o Diagnostics(c, SqlDatabase(parent, c, refs))
    \o <<Export(<<"database">>)>>

SqlComponent == Component(ResourceGroup, "Graviton:SqlServer", "w")
SqlAdminPassword == RandomPassword(SqlComponent, "sql-admin-password")

SqlServer(c) ==
    Fixed(Resource(SqlComponent, "Server", c.name,
                   {RG} \cup (IF c.azure_ad_only_authentication \/ c.admin_password
                              THEN {} ELSE {SqlAdminPassword.urn})), c.name)

\* The rules of allowed subnets are all named for the stack; those of public
\* networks carry the formatted name in the URN and the plain one in Azure.
SqlNetworkRules(c, server) ==
    ForEach(c.allowed_subnet_ids, LAMBDA subnet, i :
        <<Resource(server, "VirtualNetworkRule", "w", {RG, server.urn})>>)
    \o ForEach(c.allowed_public_networks, LAMBDA name, i : <<FirewallRule(server, name)>>)
    \o When(c.allow_azure_services, <<FirewallRule(server, <<"AzureServices">>)>>)

SqlElasticPool(c) == PartOf(SqlServer(c), "ElasticPool", c.name)

\* The agent has a database and an identity of its own; the target group names
\* the pool when there is one.
SqlJobAgent(c) ==
    LET server == SqlServer(c)
        pool == IF c.elastic_pool THEN {SqlElasticPool(c).urn} ELSE {}
        db == [name |-> "jobagent", log_workspace |-> c.log_workspace]
        identity == Resource(SqlComponent, "UserAssignedIdentity", "sqljobagent", {RG})
        agent == Resource(SqlComponent, "JobAgent", c.name,
                   {RG, server.urn, identity.urn, SqlDatabase(SqlComponent, db, pool \cup {server.urn}).urn})
    IN  SqlDatabaseProgram(SqlComponent, db, pool \cup {server.urn})
        \o << identity, agent,
              Resource(SqlComponent, "JobTargetGroup", c.name, {RG, server.urn, agent.urn} \cup pool) >>

SqlProgram(c) ==
    LET server == SqlServer(c)
    IN  <<SqlComponent>>
        \o When(~c.azure_ad_only_authentication /\ ~c.admin_password, <<SqlAdminPassword>>)
        \o <<server>>
        \o SqlNetworkRules(c, server)
        \o When(c.dns_alias, <<Resource(server, "ServerDnsAlias", "w", {RG, server.urn})>>)
        \o When(c.elastic_pool, <<SqlElasticPool(c)>>)
        \o PrivateEndpoints(c, server)
        \o When(c.elastic_pool, Diagnostics(c, SqlElasticPool(c)))
        \o When(c.job_agent_enabled, SqlJobAgent(c))
        \o <<Export(<<"server">>)>>

-----------------------------------------------------------------------------
(* MySQL and PostgreSQL flexible servers *)

\* create_mode: every mode but a plain one needs its source, and MySQL's restore a
\* point in time.
ValidCreateMode(c, restores) ==
    /\ c.create_mode \in {"PointInTimeRestore", "GeoRestore", "Replica"} => c.source_server
    /\ c.create_mode \in restores => c.restore_point

\* The password is drawn first, unless the configuration has one.
FlexibleServer(type, server_type, c) ==
    LET component == Component(ResourceGroup, type, "w")
        password == RandomPassword(component, <<type, "admin-pwd">>)
        server == Resource(component, server_type, "w",
                           {RG} \cup (IF c.admin_password THEN {} ELSE {password.urn}))
    IN  [ component |-> component,
          password |-> password,
          server |-> IF c.server_name # "" THEN Fixed(server, c.server_name) ELSE Fixed(server, "w") ]

\* Underscores and dots of a parameter become dashes in the URN only.
ServerParams(c, server) ==
    ForEach(c.server_params, LAMBDA name, i :
        <<Fixed(Resource(server, "Configuration", FmtName(name), {RG, server.urn}),
                <<server.urn[3], name>>)>>)

EntraAdmin(server) == Resource(server, "AzureADAdministrator", "esc-app", {RG, server.urn})

MysqlProgram(c) ==
    LET m == FlexibleServer("Graviton:MysqlFlexibleServer", "mysql.Server", c)
    IN  Validated(/\ ValidCreateMode(c, {"PointInTimeRestore"})
                  /\ c.network => c.allowed_public_networks = <<>> /\ ~c.allow_azure_services,
            <<m.component>>
            \o When(~c.admin_password, <<m.password>>)
            \o <<m.server>>
            \o When(c.entra_auth /\ c.azure_environment, <<EntraAdmin(m.server)>>)
            \o Parts(m.server, "MysqlDatabase", c.databases)
            \o ForEach(c.allowed_public_networks, LAMBDA name, i : <<FirewallRule(m.server, name)>>)
            \o When(c.allow_azure_services, <<FirewallRule(m.server, <<"AzureServices">>)>>)
            \o Diagnostics(c, m.server)
            \o ServerParams(c, m.server)
            \o <<Export(<<"mysql">>)>>)

\* validate_iops_throughput: the fast storage needs both figures.
PostgresProgram(c) ==
    LET p == FlexibleServer("Graviton:PostgresFlexibleServer", "postgres.Server", c)
    IN  Validated(ValidCreateMode(c, {}) /\ (c.premium_v2 => c.iops /\ c.throughput),
            <<p.component>>
            \o When(~c.admin_password, <<p.password>>)
            \o <<p.server>>
            \o When(c.azure_environment, <<EntraAdmin(p.server)>>)
            \o Diagnostics(c, p.server)
            \o ServerParams(c, p.server)
            \o <<Export(<<"postgres">>)>>)
=============================================================================
