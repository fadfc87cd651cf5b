------------------------------ MODULE Identity ------------------------------
(***************************************************************************)
(* What the components of entra and of pulumi declare: app registrations    *)
(* with their service principals, credentials and roles; the credentials of *)
(* workload identities; tenants; ESC environments.                          *)
(***************************************************************************)
EXTENDS AzServices

(* App registrations *)

EntraComponent(name) == Component(Root, "Graviton:Entra:EntraApp", name)

\* The identifiers of roles and scopes are drawn: those of roles belong to the
\* app, those of scopes are declared without options, hence are the stack's.
AppRoleId(c, role) == Resource(EntraComponent(c.name), "RandomUuid", <<"app-role", role>>, {})
ScopeId(scope) == Resource(Root, "RandomUuid", <<"app-scope", scope>>, {})

EntraApplication(c) ==
    Resource(EntraComponent(c.name), "Application", c.name,
             {AppRoleId(c, role).urn : role \in ToSet(c.app_roles)}
             \cup {ScopeId(scope).urn : scope \in ToSet(c.oauth2_scopes)})

ServicePrincipal(c) ==
    Resource(EntraComponent(c.name), "ServicePrincipal", <<"sp", c.name>>, {EntraApplication(c).urn})

\* The rotation is named for the credential, the password for the app only.
ClientCredentials(c) ==
    ForEach(c.client_credentials, LAMBDA name, i :
        LET rotation == Resource(EntraComponent(c.name), "Rotating", <<"rotate", c.name, name>>, {})
        IN  << rotation,
               Resource(EntraComponent(c.name), "ApplicationPassword", <<"eapw", c.name>>,
                        {EntraApplication(c).urn, rotation.urn}) >>)

\* A credential without a name takes the app's.
FederatedCredentials(c) ==
    ForEach(c.federated_credentials, LAMBDA credential, i :
        <<Resource(EntraComponent(c.name), "ApplicationFederatedIdentityCredential",
                   IF credential = <<>> THEN <<c.name>> ELSE credential,
                   {EntraApplication(c).urn})>>)

EntraRoles(c) ==
    ForEach(c.entra_roles, LAMBDA role, i :
        <<Resource(EntraComponent(c.name), "DirectoryRoleAssignment", <<role, c.name>>,
                   {ServicePrincipal(c).urn})>>)

\* azure_permissions: called by the owner of the app, after the fact.
PrincipalPermissions(c, permissions) ==
    ForEach(permissions, LAMBDA p, i :
        <<RoleAssignment(ServicePrincipal(c), IF p.name_prefix = <<>> THEN <<"w">> ELSE p.name_prefix,
                         p.role, ServicePrincipal(c).urn)>>)

EntraAppProgram(c) ==
    <<EntraComponent(c.name)>>
    \o ForEach(c.app_roles, LAMBDA role, i : <<AppRoleId(c, role)>>)
    \o ForEach(c.oauth2_scopes, LAMBDA scope, i : <<ScopeId(scope)>>)
    \o <<EntraApplication(c), ServicePrincipal(c)>>
    \o ClientCredentials(c)
    \o FederatedCredentials(c)
    \o EntraRoles(c)
    \o When(~c.skip_exports, <<Export(c.exports_prefix \o <<"entra_app">>)>>)

-----------------------------------------------------------------------------
(* Credentials of workload identities *)

\* GitHub: a credential for every repository and every environment, branch and tag,
\* named for its subject; at least one of the four has to be given.
GitHubCredentials(c) ==
    ForEach(c.repos, LAMBDA repo, i :
        [k \in 1 .. Len(c.environments) |-> <<repo, "environment", c.environments[k]>>]
        \o [k \in 1 .. Len(c.branches) |-> <<repo, "ref", c.branches[k]>>]
        \o [k \in 1 .. Len(c.tags) |-> <<repo, "tag", c.tags[k]>>]
        \o When(c.pull_request, <<<<repo, "pull_request", "">>>>))

ValidGitHub(c) ==
    c.environments # <<>> \/ c.branches # <<>> \/ c.tags # <<>> \/ c.pull_request

\* The others have one credential, without a name.
Credentials(c) == IF c.credential_type = "github" THEN GitHubCredentials(c) ELSE <<<<>>>>

-----------------------------------------------------------------------------
(* Tenants and ESC environments *)

ExternalIdTenantProgram(prefix) ==
    LET component == Component(Root, "Graviton:ExternalIdTenant", "w")
    IN  <<component, Fixed(Resource(component, "CIAMTenant", prefix, {RG}), prefix), Export(<<"tenant">>)>>

\* The environment is written when everything in its input is known; an input
\* without the name of the environment does not validate, then and there.
PulumiEnvProgram(env, input, refs) ==
    LET component == Component(Root, "Graviton:PulumiEscEnv", env)
    IN  <<component>>
        \o IF "env_name" \notin input THEN Raise
           ELSE <<Fixed(Resource(component, "Command", env, refs), env)>>
=============================================================================
