----------------------------- MODULE AzPlatform -----------------------------
(***************************************************************************)
(* What the components of az_frontdoor, az_appservice, az_logic,            *)
(* az_appconfig, az_compute and az_backup declare.                          *)
(***************************************************************************)
EXTENDS AzServices

(* Front Door *)

FrontDoorComponent(c) == Component(ResourceGroup, "Graviton:FrontDoor", c.name)
Profile(c) == Fixed(Resource(FrontDoorComponent(c), "Profile", c.name, {RG}), c.name)

OriginGroup(c, name) == PartOf(Profile(c), "AFDOriginGroup", name)

\* An origin is a part of its group, and the profile's name is an argument too.
Origin(c, group, name) ==
    LET origin == PartOf(OriginGroup(c, group), "AFDOrigin", name)
    IN  [origin EXCEPT !.deps = @ \cup {Profile(c).urn}, !.uses = @ \cup {Profile(c).urn}]

OriginsOf(c, group) == {Origin(c, group.name, name).urn : name \in ToSet(group.origins)}

AfdCustomDomain(c, name) == PartOf(Profile(c), "AFDCustomDomain", name)
AfdEndpoint(c, name) == PartOf(Profile(c), "AFDEndpoint", name)

\* Mutant of Route: without depends_on.
RouteUnordered(c, endpoint, route) ==
    LET group == CHOOSE g \in ToSet(c.origin_groups) : g.name = route.origin_group
        refs == {RG, Profile(c).urn, AfdEndpoint(c, endpoint).urn, OriginGroup(c, group.name).urn}
                \cup {AfdCustomDomain(c, name).urn : name \in route.custom_domains}
    IN  Naming(Fixed(Resource(AfdEndpoint(c, endpoint), "Route", route.name, refs),
                     <<endpoint, route.name>>), OriginsOf(c, group))

\* A route is refused while its group has no origin; that they come before it is
\* what depends_on says, for its arguments name the group only.
Route(c, endpoint, route) ==
    LET group == CHOOSE g \in ToSet(c.origin_groups) : g.name = route.origin_group
        refs == {RG, Profile(c).urn, AfdEndpoint(c, endpoint).urn, OriginGroup(c, group.name).urn}
                \cup {AfdCustomDomain(c, name).urn : name \in route.custom_domains}
    IN  DependsOn(
          Naming(Fixed(Resource(AfdEndpoint(c, endpoint), "Route", route.name, refs),
                       <<endpoint, route.name>>), OriginsOf(c, group)),
          UNION {OriginsOf(c, g) : g \in ToSet(c.origin_groups)})

\* Every domain and every endpoint; raises, last but one, when there is neither.
WafPolicy(c) ==
    LET guarded == {AfdCustomDomain(c, name).urn : name \in ToSet(c.custom_domains)}
                   \cup {AfdEndpoint(c, e.name).urn : e \in ToSet(c.endpoints)}
        policy == PartOf(Profile(c), "SecurityPolicy", <<c.name, "waf">>)
    IN  When(c.waf_policy,
          IF guarded = {} THEN Raise
          ELSE <<[policy EXCEPT !.deps = @ \cup guarded, !.uses = @ \cup guarded]>>)

\* _validate, when the component is made: a route knows its group and its domains,
\* and a policy needs Premium.
ValidFrontDoor(c) ==
    /\ \A e \in ToSet(c.endpoints) : \A route \in ToSet(e.routes) :
          /\ \E g \in ToSet(c.origin_groups) : g.name = route.origin_group
          /\ route.custom_domains \subseteq ToSet(c.custom_domains)
    /\ c.waf_policy => c.premium

FrontDoorProgram(c) ==
    IF ~ValidFrontDoor(c) THEN Raise
    ELSE <<FrontDoorComponent(c), Profile(c)>>
         \o ForEach(c.origin_groups, LAMBDA g, i : <<OriginGroup(c, g.name)>>)
         \o ForEach(c.origin_groups, LAMBDA g, i :
              ForEach(g.origins, LAMBDA name, k : <<Origin(c, g.name, name)>>))
         \o Parts(Profile(c), "AFDCustomDomain", c.custom_domains)
         \o ForEach(c.endpoints, LAMBDA e, i : <<AfdEndpoint(c, e.name)>>)
         \o ForEach(c.endpoints, LAMBDA e, i :
              ForEach(e.routes, LAMBDA route, k : <<Route(c, e.name, route)>>))
         \o WafPolicy(c)
         \o Diagnostics(c, Profile(c))

-----------------------------------------------------------------------------
(* App Service *)

\* Without a prefix the assignment is named for the name of the configuration:
\* when that has none either, for the stack (iam_assignment's default).
NamedPermissions(c, resource) ==
    LET own == IF c.name = "" THEN "w" ELSE c.name
    IN  ForEach(c.permissions, LAMBDA p, i :
          <<RoleAssignment(resource, IF p.name_prefix = <<>> THEN <<own>> ELSE p.name_prefix \o <<c.name>>,
                           p.role, resource.urn)>>)

\* The plan, and its diagnostics under it.
PlanProgram(c) ==
    LET plan == Resource(Root, "AppServicePlan", "w", {RG}) IN <<plan>> \o Diagnostics(c, plan)

WebAppComponent(c) ==
    Component(ResourceGroup, "Graviton:WebApp", IF c.name = "" THEN "w" ELSE c.name)

\* c.refs: the resources that the plan, the subnet and the settings are Outputs of.
WebApp(c) ==
    Fixed(Resource(WebAppComponent(c), "WebApp", WebAppComponent(c).urn[3], {RG} \cup c.refs),
          WebAppComponent(c).urn[3])

WebAppProgram(c) ==
    <<WebAppComponent(c), WebApp(c)>>
    \o PrivateEndpoints(c, WebApp(c))
    \o NamedPermissions(c, WebApp(c))
    \o Diagnostics(c, WebApp(c))

-----------------------------------------------------------------------------
(* Logic Apps *)

WorkflowComponent(c) ==
    Component(ResourceGroup, "Graviton:LogicWorkflow", IF c.name = "" THEN "w" ELSE c.name)

Workflow(c) ==
    Fixed(Resource(WorkflowComponent(c), "Workflow", WorkflowComponent(c).urn[3], {RG}),
          WorkflowComponent(c).urn[3])

WorkflowProgram(c) ==
    <<WorkflowComponent(c), Workflow(c)>>
    \o NamedPermissions(c, Workflow(c))
    \o Diagnostics(c, Workflow(c))

-----------------------------------------------------------------------------
(* App Configuration *)

AppConfigComponent(parent, waits) ==
    DependsOn(Component(parent, "Graviton:AppConfiguration", "w"), waits)
ConfigurationStore(parent, waits) ==
    Resource(AppConfigComponent(parent, waits), "ConfigurationStore", "w", {RG})

\* The diagnostic settings of the configuration are never declared.
AppConfigProgram(parent, waits, c) ==
    LET store == ConfigurationStore(parent, waits)
    IN  <<AppConfigComponent(parent, waits), store>>
        \o ForEach(c.keys, LAMBDA key, i : <<PartOf(store, "KeyValue", key)>>)
        \o <<Export(<<"app_config">>)>>

-----------------------------------------------------------------------------
(* Virtual machines and backup *)

VmComponent(parent, waits) == DependsOn(Component(parent, "Graviton:VirtualMachine", "w"), waits)

\* A disk of the operating system has the stack's name, a data disk its own.
DataDisk(component, name) == Fixed(Resource(component, "Disk", <<"w", name>>, {RG}), <<"w", name>>)
NetworkInterface(component) == Resource(component, "NetworkInterface", "w", {RG})

\* c.custom_data: the resources that the rendered cloud-init is an Output of.
VirtualMachine(component, c) ==
    Fixed(Resource(component, "VirtualMachine", "w",
                   {RG, NetworkInterface(component).urn} \cup c.custom_data
                   \cup {DataDisk(component, name).urn : name \in ToSet(c.disks)}), "w")

\* validate_create_mode, validate_os_type, validate_urn
ValidDisk(d) ==
    /\ d.create_mode \in {"Attach", "Copy"} => d.source_disk
    /\ d.create_mode = "FromImage" => d.source_image
    /\ d.os_type # "Windows" /\ d.generation # "V1"

ValidImage(image) == image.gallery_urn \/ (image.offer /\ image.publisher /\ image.sku)

\* Every disk exports "disk".
VmProgram(parent, waits, c) ==
    LET component == VmComponent(parent, waits)
    IN  Validated(ValidImage(c.image) /\ \A d \in c.disk_configs : ValidDisk(d),
            <<component>>
            \o ForEach(c.disks, LAMBDA name, i : <<DataDisk(component, name), Export(<<"disk">>)>>)
            \o <<NetworkInterface(component), Export(<<"nic">>), VirtualMachine(component, c), Export(<<"vm">>)>>)

\* The vault's policy is written and never declared.
BackupVaultProgram ==
    LET component == Component(ResourceGroup, "Graviton:BackupVault", "w")
    IN  <<component, Fixed(Resource(component, "rs.Vault", "w", {RG}), "w"), Export(<<"backupvault">>)>>
=============================================================================
