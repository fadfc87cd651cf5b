----------------------------- MODULE AzServices -----------------------------
(***************************************************************************)
(* What the components of messaging and of small services declare: Service *)
(* Bus, Event Hubs, Event Grid domains, key vaults and their secrets,       *)
(* container registries, cognitive and search services.                     *)
(***************************************************************************)
EXTENDS AzData

(* Service Bus *)

ServiceBusComponent == Component(ResourceGroup, "Graviton:ServiceBus", "w")
SbNamespace(c) == Fixed(Resource(ServiceBusComponent, "sb.Namespace", "w", {RG}), c.name)

\* A queue names those it forwards its messages and its dead letters to by plain
\* strings ("" for none): it waits for the namespace only.
SbQueue(c, queue) ==
    Naming(PartOf(SbNamespace(c), "sb.Queue", queue.name),
           {PartOf(SbNamespace(c), "sb.Queue", name).urn :
              name \in {queue.forward_to, queue.forward_dead_letters_to} \ {""}})

\* Allowed subnets count only when there are allowed addresses too.
ServiceBusProgram(c) ==
    LET namespace == SbNamespace(c)
    IN  <<ServiceBusComponent, namespace>>
        \o ForEach(c.queues, LAMBDA queue, i : <<SbQueue(c, queue)>>)
        \o PrivateEndpoints(c, namespace)
        \o Diagnostics(c, namespace)
        \o When(c.allowed_public_ips,
                <<Resource(namespace, "sb.NetworkRuleSet", "w", {RG, namespace.urn})>>)
        \o <<Export(<<"servicebus">>)>>

-----------------------------------------------------------------------------
(* Event Hubs *)

EventHubComponent(parent) == Component(parent, "Graviton:az_eventhub:EventHub", "w")
EhNamespace(parent) == Resource(EventHubComponent(parent), "eh.Namespace", "w", {RG})

EventHubProgram(parent, c) ==
    LET namespace == EhNamespace(parent)
    IN  <<EventHubComponent(parent), namespace>>
        \o Parts(namespace, "EventHub", c.hubs)
        \o When(c.allowed_public_ips \/ c.allowed_subnet_ids,
                <<Resource(EventHubComponent(parent), "eh.NetworkRuleSet", "w", {RG, namespace.urn})>>)
        \o PrivateEndpoints(c, namespace)
        \o Diagnostics(c, namespace)
        \o <<Export(<<"eventhub">>)>>

-----------------------------------------------------------------------------
(* Event Grid *)

EventGridComponent == Component(ResourceGroup, "Graviton:EventGridDomain", "w")
EventGridDomain(c) == Fixed(Resource(EventGridComponent, "Domain", c.name, {RG}), c.name)

\* The private endpoints of the configuration are never declared.
EventGridProgram(c) ==
    LET domain == EventGridDomain(c)
    IN  <<EventGridComponent, domain>>
        \o ForEach(c.topics, LAMBDA topic, i :
             <<Beside(EventGridComponent, domain, "DomainTopic", topic)>>)
        \o ForEach(c.azure_permissions, LAMBDA p, i :
             <<RoleAssignment(domain, p.name_prefix \o <<c.name>>, p.role, domain.urn)>>)
        \o Diagnostics(c, domain)
        \o <<Export(<<"eventgrid_domain">>)>>

-----------------------------------------------------------------------------
(* Key vault *)

KeyVaultComponent(parent) == Component(parent, "Graviton:az_keyvault:KeyVault", "w")
Vault(parent, c) == Fixed(Resource(KeyVaultComponent(parent), "Vault", "w", {RG}), c.name)

KeyVaultProgram(parent, c) ==
    <<KeyVaultComponent(parent), Vault(parent, c)>>
    \o Diagnostics(c, Vault(parent, c))
    \o <<Export(<<"keyvault">>)>>
    \o PrivateEndpoints(c, Vault(parent, c))

\* keyvault_secret reads the vault under a name of its own, the same for every
\* secret; `vault' and `value' are the resources that they are Outputs of.
VaultReference(vault) == Resource(Root, "Vault", "kv-ref", vault)

SecretProgram(parent, name, vault, value) ==
    << VaultReference(vault),
       Fixed(Resource(parent, "Secret", name, {RG, VaultReference(vault).urn} \cup value), name) >>

-----------------------------------------------------------------------------
(* Container registry *)

ContainerRegistryProgram(parent, c) ==
    <<Fixed(Resource(parent, "Registry", c.name, {RG}), c.name), Export(<<"container_registry">>)>>

-----------------------------------------------------------------------------
(* AI services *)

CognitiveComponent == Component(ResourceGroup, "Graviton:CognitiveAccount", "w")

\* Without a name the account is named for its kind.
CognitiveAccount(c) ==
    LET name == IF c.name # "" THEN c.name ELSE c.kind
    IN  Fixed(Resource(CognitiveComponent, "Account", name, {RG}), name)

CognitiveProgram(c) ==
    <<CognitiveComponent, CognitiveAccount(c)>>
    \o PrivateEndpoints(c, CognitiveAccount(c))
    \o Diagnostics(c, CognitiveAccount(c))
    \o <<Export(<<"cognitiveaccount">>)>>

SearchComponent == Component(ResourceGroup, "Graviton:Search", "w")
SearchService == Resource(SearchComponent, "SearchService", "w", {RG})

\* The diagnostic setting is declared beside the service, not under it.
SearchProgram(c) ==
    <<SearchComponent, SearchService>>
    \o PrivateEndpoints(c, SearchService)
    \o ForEach(c.log_workspace,
               LAMBDA refs, i : <<DiagnosticSetting(SearchComponent, SearchService, refs)>>)
    \o <<Export(<<"search_service">>)>>
=============================================================================
