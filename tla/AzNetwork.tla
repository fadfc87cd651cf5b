----------------------------- MODULE AzNetwork -----------------------------
(***************************************************************************)
(* What the components of az_network declare: virtual networks with their  *)
(* subnets, security groups, route tables and peerings; the firewall and    *)
(* its policy; VPN gateways; virtual WAN; DNS zones and resolvers; private  *)
(* endpoints.  A configuration is a record with the fields that decide       *)
(* what is declared.  "w" stands for the stack's workload name;              *)
(* stack.name_for(type, x) is x, for the type is part of the URN.  The bases *)
(* declare every component under the resource group, which therefore comes  *)
(* first in every program and is not repeated here.                         *)
(***************************************************************************)
EXTENDS Pulumi

NON_NSG_SUBNETS == {"GatewaySubnet", "AzureFirewallSubnet", "AzureFirewallManagementSubnet"}

-----------------------------------------------------------------------------
(* Virtual network *)

VnetComponent == Component(ResourceGroup, "Graviton:Vnet", "w")
Vnet == Fixed(Resource(VnetComponent, "VirtualNetwork", "w", {RG}), "w")

HasNsg(c, subnet) ==
    \/ subnet.rules # <<>>
    \/ c.create_default_nsgs /\ subnet.name \notin NON_NSG_SUBNETS

NsgOf(subnet) ==
    Fixed(Resource(VnetComponent, "NetworkSecurityGroup", subnet.name, {RG}), subnet.name)

DEFAULT_DENY_RULE == [name |-> "Deny_All", priority |-> 4096]

\* The default deny rule comes first: rules[i] of the code has position i + 1.
\* The URN carries the position, the Azure name does not; a rule without a priority
\* (0) gets one by its position, and no two rules of a direction have the same.  The
\* rules are of one direction here.
SecurityRule(nsg, rule, i) ==
    Taking(
      Fixed(Resource(nsg, "SecurityRule", <<nsg.urn[3], rule.name, i - 1>>, {RG, nsg.urn}),
            <<nsg.urn[3], rule.name>>),
      <<"priority", <<nsg.urn[3], IF rule.priority = 0 THEN 99 + i ELSE rule.priority>>>>)

Nsgs(c) ==
    ForEach(c.subnets, LAMBDA subnet, k :
        When(HasNsg(c, subnet),
             LET nsg == NsgOf(subnet)
             IN  <<nsg>> \o ForEach(<<DEFAULT_DENY_RULE>> \o subnet.rules,
                                    LAMBDA rule, i : <<SecurityRule(nsg, rule, i)>>)))

RouteTableComponent(table) == Component(VnetComponent, "Graviton:RouteTable", table.name)
RouteTableOf(table) ==
    Fixed(Resource(RouteTableComponent(table), "RouteTable", table.name, {RG}), table.name)

RouteTable(table) ==
    LET rt == RouteTableOf(table)
    IN  <<RouteTableComponent(table), rt>> \o
        ForEach(table.routes, LAMBDA route, i :
            <<Fixed(Resource(rt, "Route", <<table.name, route, i - 1>>, {RG, rt.urn}),
                    <<table.name, route>>)>>)
        \o <<Export(<<"route_table", table.name>>)>>

\* A subnet that names a route table the configuration lacks: KeyError.
SubnetOf(c, subnet) ==
    LET tables == {t \in ToSet(c.route_tables) : t.name = subnet.route_table}
    IN  Fixed(Resource(Vnet, "Subnet", subnet.name,
                {RG, Vnet.urn}
                \cup (IF HasNsg(c, subnet) THEN {NsgOf(subnet).urn} ELSE {})
                \cup Urns({RouteTableOf(t) : t \in tables})),
              subnet.name)

Subnets(c) ==
    ForEach(c.subnets, LAMBDA subnet, i :
        IF subnet.route_table # "" /\ \A t \in ToSet(c.route_tables) : t.name # subnet.route_table
        THEN Raise ELSE <<SubnetOf(c, subnet)>>)

IpGroups(c) ==
    When(c.create_ip_groups,
         ForEach(c.subnets, LAMBDA subnet, i :
             <<Fixed(Resource(SubnetOf(c, subnet), "IpGroup", subnet.name, {RG}), subnet.name)>>))

\* get_provider declares a provider per peering, named for the subscription.
Provider(subscription) == Resource(Root, "Provider", subscription, {})

Peerings(c) ==
    ForEach(c.peered_vnets, LAMBDA remote, i :
        << Provider(<<remote.subscription>>),
           Resource(Vnet, "VirtualNetworkPeering", <<"w-to", remote.name>>, {RG, Vnet.urn}),
           Resource(Vnet, "VirtualNetworkPeering", <<remote.name, "to-w">>,
                    {Vnet.urn, Provider(<<remote.subscription>>).urn}) >>)

\* validate_subnets: no two subnets share or overlap a prefix, and each lies in
\* the address space; a prefix is the set of the addresses it holds.
ValidSubnets(c) ==
    /\ \A i, j \in 1 .. Len(c.subnets) :
          i # j => c.subnets[i].prefix \cap c.subnets[j].prefix = {}
    /\ \A i, j \in 1 .. Len(c.address_space) :
          i # j => c.address_space[i] # c.address_space[j]
    /\ \A subnet \in ToSet(c.subnets) :
          \E space \in ToSet(c.address_space) : subnet.prefix \subseteq space
    /\ \A subnet \in ToSet(c.subnets) :
          subnet.rules # <<>> => subnet.name \notin NON_NSG_SUBNETS

VnetProgram(c) ==
    Validated(ValidSubnets(c),
        <<VnetComponent, Vnet>>
        \o Nsgs(c)
        \o ForEach(c.route_tables, LAMBDA table, i : RouteTable(table))
        \o Subnets(c) \o IpGroups(c) \o Peerings(c)
        \o <<Export(<<"vnet">>), Export(<<"subnets">>), Export(<<"ip_groups">>)>>)

-----------------------------------------------------------------------------
(* Firewall *)

FirewallComponent == Component(ResourceGroup, "Graviton:AzureFirewall", "w")
\* The policy is declared without the component as its parent; its insights go to
\* the log workspace.
FirewallPolicy(c) ==
    Fixed(Resource(Root, "FirewallPolicy", "w", {RG} \cup UNION ToSet(c.log_workspace)), "w")

PublicIp(parent, workload) == Resource(parent, "PublicIPAddress", <<"pip", workload>>, {RG})

\* ip_configurations are left out in a virtual hub, the management one without
\* a management subnet.
FirewallIps(c) ==
    When(~c.virtual_hub, <<PublicIp(FirewallComponent, <<"w", "">>)>>)
    \o When(c.management_subnet, <<PublicIp(FirewallComponent, <<"w", "_management">>)>>)

Firewall(c) ==
    Fixed(Resource(FirewallPolicy(c), "AzureFirewall", c.name,
                   {RG, FirewallPolicy(c).urn} \cup Urns(ToSet(FirewallIps(c)))), c.name)

\* `refs' are the resources that the id of the workspace comes from.
DiagnosticSetting(parent, resource, refs) ==
    Resource(parent, "DiagnosticSetting", <<"diag", resource.urn[3]>>, {resource.urn} \cup refs)

\* log_workspace: empty without one, else the `refs' of the one there is.
Diagnostics(c, resource) ==
    ForEach(c.log_workspace, LAMBDA refs, i : <<DiagnosticSetting(resource, resource, refs)>>)

\* validate_firewall_config: what the SKU has, and no priority twice, neither among
\* the groups nor among the collections of one group.
ValidFirewall(c) ==
    LET groups == c.rule_collection_groups
    IN  /\ c.sku = "Basic" => /\ c.management_subnet \/ c.virtual_hub
                              /\ ~c.dns_proxy /\ ~c.custom_dns_servers
        /\ \A g \in ToSet(groups) : g.destination_urls => c.sku = "Premium"
        /\ \A i, j \in 1 .. Len(groups) : i # j => groups[i].priority # groups[j].priority
        /\ \A g \in ToSet(groups) : IsInjective(g.collection_priorities)

\* A group has a priority of the policy's to itself.
PolicyGroup(c, group) ==
    Taking(
      OneAtATime(
        Fixed(Resource(Firewall(c), "RuleCollectionGroup", group.name, {RG, FirewallPolicy(c).urn}),
              group.name),
        FirewallPolicy(c).urn),
      <<"group priority", <<FirewallPolicy(c).urn[3], group.priority>>>>)

\* Mutant of RuleCollectionGroup: the groups do not wait for each other.
RuleCollectionGroupAtOnce(c, i) == PolicyGroup(c, c.rule_collection_groups[i])

\* Each group waits for the one before it: the policy takes one write at a time.
RuleCollectionGroup(c, i) ==
    LET groups == c.rule_collection_groups
    IN  DependsOn(PolicyGroup(c, groups[i]),
                  IF i = 1 THEN {} ELSE {PolicyGroup(c, groups[i - 1]).urn})

FirewallProgram(c) ==
    Validated(ValidFirewall(c),
        <<FirewallComponent, FirewallPolicy(c)>>
        \o FirewallIps(c) \o <<Firewall(c)>>
        \o Diagnostics(c, Firewall(c))
        \o ForEach(c.rule_collection_groups, LAMBDA g, i : <<RuleCollectionGroup(c, i)>>))

-----------------------------------------------------------------------------
(* VPN gateway *)

VpnComponent == Component(ResourceGroup, "Graviton:VirtualNetworkGateway", "w")

\* Three addresses in active-active with point-to-site, two without, else one.
GatewayIps(c) ==
    [i \in 1 .. IF c.active_active THEN IF c.point_to_site THEN 3 ELSE 2 ELSE 1 |->
        PublicIp(VpnComponent, <<"vpngateway", i>>)]

VnetGateway(c) ==
    Resource(VpnComponent, "VirtualNetworkGateway", "w", {RG} \cup Urns(ToSet(GatewayIps(c))))

LocalNetworkGateway == Resource(VpnComponent, "LocalNetworkGateway", "w", {RG})

\* The connection is declared outside the component.
VnetConnection(c) ==
    Resource(Root, "VirtualNetworkGatewayConnection", "w",
             {RG, VnetGateway(c).urn, LocalNetworkGateway.urn})

VpnProgram(c) ==
    <<VpnComponent>> \o GatewayIps(c) \o <<VnetGateway(c)>>
    \o When(c.site_to_site, <<LocalNetworkGateway, VnetConnection(c)>>)
    \o <<Export(<<"vpn">>)>>

-----------------------------------------------------------------------------
(* Virtual WAN *)

VwanComponent == Component(ResourceGroup, "Graviton:Vwan", "w")
VirtualWan == Resource(VwanComponent, "VirtualWan", "w", {RG})
VirtualHub == Resource(VwanComponent, "VirtualHub", "w", {RG, VirtualWan.urn})

VwanProgram(c) ==
    <<VwanComponent, VirtualWan, VirtualHub>>
    \o ForEach(c.hub_vnet_connections, LAMBDA name, i :
         <<Resource(VirtualHub, "HubVirtualNetworkConnection", name, {RG, VirtualHub.urn})>>)
    \o <<Export(<<"vwan">>), Export(<<"vhub">>)>>

\* VwanS2SVpnGw never registers itself as a component: its resources are the stack's.
VpnSite(name) == Fixed(Resource(Root, "VpnSite", name, {RG, VirtualWan.urn}), name)

S2sProgram(c) ==
    ForEach(c.sites, LAMBDA name, i : <<VpnSite(name)>>)
    \o <<Resource(Root, "VpnGateway", "w",
                  {RG, VirtualHub.urn} \cup {VpnSite(name).urn : name \in ToSet(c.sites)})>>

P2sComponent == Component(VirtualWan, "Graviton:P2sVpnGw", "w")
ServerConfig == Fixed(Resource(P2sComponent, "VpnServerConfiguration", "w", {RG}), "w")

P2sProgram ==
    << P2sComponent, ServerConfig,
       Fixed(Resource(P2sComponent, "P2sVpnGateway", "w",
                      {RG, VirtualHub.urn, ServerConfig.urn}), "w"),
       Export(<<"p2s_vpn">>) >>

-----------------------------------------------------------------------------
(* Private DNS resolver *)

\* fmt_name: dots, blanks and underscores become dashes.  A name is the
\* sequence of its parts.
FmtName(name) ==
    [i \in 1 .. Len(name) |-> IF name[i] \in {".", " ", "_"} THEN "-" ELSE name[i]]

ResolverComponent == Component(ResourceGroup, "Graviton:PrivateDnsResolver", "w")
OfResolver(type, refs) == Fixed(Resource(ResolverComponent, type, "w", {RG} \cup refs), "w")

Resolver == OfResolver("DnsResolver", {})
InboundEndpoint == OfResolver("InboundEndpoint", {Resolver.urn})
OutboundEndpoint == OfResolver("OutboundEndpoint", {Resolver.urn})
ForwardingRuleset == OfResolver("DnsForwardingRuleset", {OutboundEndpoint.urn})

OfRuleset(type, name) ==
    Fixed(Resource(ResolverComponent, type, name, {RG, ForwardingRuleset.urn}), name)

\* Rules without a linked network are refused; links without a rule are ignored.
ResolverProgram(c) ==
    Validated(c.rules # <<>> => c.linked_vnets # <<>>,
        <<ResolverComponent, Resolver>>
        \o When(c.inbound, <<InboundEndpoint>>)
        \o When(c.outbound,
             <<OutboundEndpoint>> \o
             When(c.rules # <<>>,
                <<ForwardingRuleset>>
                \o ForEach(c.rules, LAMBDA domain, i : <<OfRuleset("ForwardingRule", FmtName(domain))>>)
                \o ForEach(c.linked_vnets, LAMBDA vnet, i :
                     <<OfRuleset("PrivateResolverVirtualNetworkLink", vnet)>>)))
        \o <<Export(<<"private_dns_resolver">>)>>)

-----------------------------------------------------------------------------
(* DNS zones *)

DnsZoneComponent(parent, c) == Component(parent, "Graviton:az_network:DnsZone", FmtName(c.name))

\* The resource group of the stack the zone is given: the program's own, or one
\* that the stack names, which is read.
GroupOf(c) == IF c.group = "" THEN ResourceGroup ELSE Resource(Root, "ResourceGroup", c.group, {})

\* With the id of an existing zone the zone is read under a fixed name.
DnsZone(parent, c) ==
    LET zone == Resource(DnsZoneComponent(parent, c), "Zone",
                         IF c.existing THEN "dns-zone-reference" ELSE FmtName(c.name),
                         IF c.existing THEN {} ELSE {GroupOf(c).urn})
    IN  IF c.existing THEN zone ELSE Fixed(zone, c.name)

\* The URN has the record's name with dots made dashes; Azure has it as it is.
DnsRecord(parent, c, record) ==
    Fixed(Resource(DnsZoneComponent(parent, c), "RecordSet",
                   <<record.type, FmtName(record.name), FmtName(c.name)>>,
                   {GroupOf(c).urn, DnsZone(parent, c).urn} \cup record.refs),
          <<c.name, record.type, record.name>>)

DnsRecords(parent, c) == [i \in 1 .. Len(c.records) |-> DnsRecord(parent, c, c.records[i])]

\* The NS record in the parent zone names that zone by the id it was given.
ParentNsRecord(parent, c) ==
    Resource(DnsZoneComponent(parent, c), "RecordSet", <<"parent-ns", FmtName(c.name)>>,
             {DnsZone(parent, c).urn}
             \cup (IF c.other_subscription THEN {Provider(<<"parent", c.name>>).urn} ELSE {}))

\* The records are what first asks for the resource group of an existing zone.
DnsZoneProgram(parent, c) ==
    <<DnsZoneComponent(parent, c), DnsZone(parent, c)>>
    \o When(c.group # "" /\ c.records # <<>>, <<GroupOf(c)>>)
    \o DnsRecords(parent, c)
    \o When(c.parent_zone,
          When(c.other_subscription, <<Provider(<<"parent", c.name>>)>>)
          \o <<ParentNsRecord(parent, c)>>)
    \o When(c.enable_dnssec,
          <<Resource(DnsZoneComponent(parent, c), "DnssecConfig", FmtName(c.name),
                     {GroupOf(c).urn, DnsZone(parent, c).urn})>>)
    \o When(~c.skip_exports, <<Export(<<"dns_zone">>)>>)

PrivateZoneComponent(c) == Component(ResourceGroup, "Graviton:PrivateDnsZone", c.name)
PrivateZone(c) == Fixed(Resource(PrivateZoneComponent(c), "PrivateZone", c.name, {RG}), c.name)

PrivateRecord(c, record) ==
    Fixed(Resource(PrivateZone(c), "PrivateRecordSet",
                   <<record.type, FmtName(record.name), FmtName(c.name)>>,
                   {RG, PrivateZone(c).urn}),
          <<c.name, record.type, record.name>>)

\* An NS record is accepted by the configuration and raises when its turn comes.
PrivateZoneProgram(c) ==
    <<PrivateZoneComponent(c), PrivateZone(c)>>
    \o ForEach(c.linked_vnets, LAMBDA vnet, i :
         <<Fixed(Resource(PrivateZoneComponent(c), "VirtualNetworkLink", <<vnet, c.name>>,
                          {RG, PrivateZone(c).urn}), <<c.name, vnet>>)>>)
    \o ForEach(c.records, LAMBDA record, i :
         IF record.type = "NS" THEN Raise ELSE <<PrivateRecord(c, record)>>)
    \o When(~c.skip_exports, <<Export(<<"private_dns_zone">>)>>)

-----------------------------------------------------------------------------
(* Private endpoint *)

PrivateEndpointComponent(target) ==
    Component(target, "Graviton:PrivateEndpoint", <<"pep", target.urn[3]>>)

PrivateEndpoint(target) ==
    Fixed(Resource(PrivateEndpointComponent(target), "PrivateEndpoint", <<"pep", target.urn[3]>>,
                   {RG, target.urn}), <<"pep", target.urn[3]>>)

\* The zone group carries the stack's name, not the target's, and names its
\* endpoint by a string: only the parent makes it wait.
PrivateDnsZoneGroup(target) ==
    Naming(Resource(PrivateEndpoint(target), "PrivateDnsZoneGroup", "w", {RG}),
           {PrivateEndpoint(target).urn})

\* has_meta: the metadata knows the sub-resource and DNS zone of the type.
PrivateEndpointProgram(target, has_zone, has_meta) ==
    <<PrivateEndpointComponent(target)>>
    \o IF ~has_meta THEN Raise
       ELSE <<PrivateEndpoint(target)>> \o When(has_zone, <<PrivateDnsZoneGroup(target)>>)
            \o <<Export(<<"private_endpoint">>)>>
=============================================================================
