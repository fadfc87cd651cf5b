------------------------------- MODULE AzApp -------------------------------
(***************************************************************************)
(* What the components of az_app declare: container app environments with  *)
(* their certificates, DNS records and file storages; container apps and    *)
(* jobs; HTTP routes.                                                       *)
(***************************************************************************)
EXTENDS AzServices

(* Custom domains of apps and routes *)

\* The domain's zone exists already, in a resource group of its own stack; it is
\* read under the app or the route and gets two records there.
DomainZone(domain, owner, verification) ==
    [ name |-> domain.zone[1].name, group |-> domain.zone[1].group, existing |-> TRUE,
      records |-> << [type |-> "CNAME", name |-> domain.name, refs |-> {owner.urn}],
                     [type |-> "TXT", name |-> <<"asuid", ".">> \o domain.name, refs |-> verification] >>,
      parent_zone |-> FALSE, enable_dnssec |-> FALSE, skip_exports |-> FALSE ]

\* The certificate is issued once the domain is seen to point here, which the
\* records are for.
ManagedCertificate(owner, domain, environment, records) ==
    DependsOn(Naming(Fixed(Resource(owner, "ManagedCertificate", FmtName(domain.name), environment),
                           <<"cert", domain.name>>), records), records)

\* Raises when the domain is not a subdomain of its zone.
CustomDomain(owner, domain, environment, verification) ==
    IF domain.zone # <<>> /\ ~domain.zone[1].holds THEN Raise
    ELSE LET zone == DomainZone(domain, owner, verification)
             records == IF domain.zone = <<>> THEN {} ELSE Urns(ToSet(DnsRecords(owner, zone)))
         IN  When(domain.zone # <<>>, DnsZoneProgram(owner, zone))
             \o When(domain.auto, <<ManagedCertificate(owner, domain, environment, records)>>)

-----------------------------------------------------------------------------
(* Container apps and jobs *)

AppName(c) == IF c.name = "" THEN "w" ELSE c.name

AppComponent(parent, waits, c) ==
    DependsOn(Component(parent, "Graviton:ContainerApp", AppName(c)), waits)

\* The keys of the secrets: a private registry adds its own.
AppSecrets(c) == c.secrets \o When(c.registry # {}, <<"registry-secret">>)

\* c.environment, c.registry and c.refs: the resources that the environment, the
\* registry and the values of variables and secrets are Outputs of.
ContainerApp(parent, waits, c) ==
    LET app == Resource(AppComponent(parent, waits, c), IF c.job THEN "Job" ELSE "ContainerApp",
                        AppName(c), {RG} \cup c.environment \cup c.registry \cup c.refs)
    IN  [Fixed(app, AppName(c)) EXCEPT !.keys = AppSecrets(c)]

\* _azure_permissions: the assignments are named for the app and the role alone.
AppPermissions(app, permissions) ==
    ForEach(permissions, LAMBDA p, i :
        <<RoleAssignment(app, p.name_prefix \o <<app.urn[3]>>, p.role, app.urn)>>)

\* Only an app that is no job has an ingress, and domains.
ContainerAppProgram(parent, waits, c) ==
    LET app == ContainerApp(parent, waits, c)
    IN  <<AppComponent(parent, waits, c), app>>
        \o When(c.resiliency, <<PartOf(app, "AppResiliency", "appres")>>)
        \o When(~c.job, ForEach(c.domains, LAMBDA domain, i :
                                  CustomDomain(app, domain, c.environment, {app.urn})))
        \o AppPermissions(app, c.permissions)
        \o <<Export(<<"app">>)>>

-----------------------------------------------------------------------------
(* HTTP routes *)

\* exactly_one_match, and the weights of more than one target that all have one.
ValidRoute(c) ==
    /\ \A m \in c.matches : Cardinality(m) = 1
    /\ Len(c.weights) > 1 /\ -1 \notin ToSet(c.weights) =>
          FoldSeq(LAMBDA x, y : x + y, 0, c.weights) = 100

\* The targets are named by plain strings.
HttpRouteConfig(parent, waits, c) ==
    DependsOn(
      Naming(Fixed(Resource(parent, "HttpRouteConfig", c.name, c.environment), c.name), c.targets),
      waits)

HttpRouteProgram(parent, waits, c) ==
    LET route == HttpRouteConfig(parent, waits, c)
    IN  Validated(ValidRoute(c), <<route>>
        \o ForEach(c.domains, LAMBDA domain, i :
             CustomDomain(route, domain, c.environment, c.environment))
        \o <<Export(<<"http_route", c.name>>)>>)

-----------------------------------------------------------------------------
(* Container app environment *)

EnvComponent(parent) == Component(parent, "Graviton:az_app:ContainerAppEnv", "w")
ManagedEnvironment(parent, c) ==
    Fixed(Resource(EnvComponent(parent), "ManagedEnvironment", "w", {RG} \cup c.refs), "w")

\* The wildcard records of the environment's own domain, in an existing zone.
EnvDnsRecords(parent, c) ==
    LET environment == ManagedEnvironment(parent, c).urn
        record(type, name) == [type |-> type, name |-> name, refs |-> {environment}]
        zone == [ name |-> c.custom_domain[1].name, group |-> c.custom_domain[1].group, existing |-> TRUE,
                  records |-> <<record("A", <<"*">>), record("TXT", <<"asuid">>), record("TXT", <<"*">>)>>,
                  parent_zone |-> FALSE, enable_dnssec |-> FALSE,
                  skip_exports |-> c.custom_domain[1].group # "" ]
    IN  When(c.custom_domain # <<>>,
             When(c.custom_domain[1].zone, DnsZoneProgram(EnvComponent(parent), zone)))

\* The domain's certificate joins those of the configuration, unless one of them
\* has the domain's name.
EnvCertificates(parent, c) ==
    LET own == c.custom_domain[1].name
        names == c.certificates \o
                 When(c.custom_domain # <<>>, When(own \notin ToSet(c.certificates), <<own>>))
    IN  ForEach(names, LAMBDA name, i :
          <<Fixed(Resource(EnvComponent(parent), "Certificate", FmtName(name),
                           {RG, ManagedEnvironment(parent, c).urn}), name)>>)

\* The account's name is made of the first letters of the managed storage's.
ManagedStorageConfig(managed) ==
    [ name |-> managed.prefix, storage_containers |-> <<>>, storage_tables |-> <<>>,
      storage_queues |-> <<>>, file_shares |-> managed.file_shares, smb_secure_defaults |-> TRUE,
      sftp_users |-> <<>>, private_endpoints |-> <<>>,
      exports_prefix |-> <<"cae_storage", managed.name>> ]

EnvStorageAccounts(parent, c) ==
    ForEach(c.storage, LAMBDA managed, i :
        StorageProgram(ManagedEnvironment(parent, c), ManagedStorageConfig(managed)))

\* The storage waits for the component of its account and names the share.
EnvStorage(parent, c, managed, share) ==
    LET environment == ManagedEnvironment(parent, c)
        account == StorageAccount(environment, managed.prefix)
    IN  DependsOn(
          Naming(Fixed(Resource(environment, "ManagedEnvironmentsStorage", <<managed.name, share>>,
                                {RG, environment.urn, account.urn}), <<"w", managed.name, share>>),
                 {PartOf(account, "FileShare", share).urn}),
          Members(StorageComponent(environment),
                  StorageProgram(environment, ManagedStorageConfig(managed))))

EnvStorages(parent, c) ==
    ForEach(c.storage, LAMBDA managed, i :
        ForEach(managed.file_shares, LAMBDA share, k : <<EnvStorage(parent, c, managed, share)>>))

\* zone_redundancy_requires_subnet
ContainerAppEnvProgram(parent, c) ==
    Validated(c.zone_redundant => c.subnet,
        <<EnvComponent(parent), ManagedEnvironment(parent, c)>>
        \o EnvDnsRecords(parent, c)
        \o EnvCertificates(parent, c)
        \o EnvStorageAccounts(parent, c)
        \o EnvStorages(parent, c)
        \o Diagnostics(c, ManagedEnvironment(parent, c))
        \o <<Export(<<"containerapp_env">>)>>)
=============================================================================
