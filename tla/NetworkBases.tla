---------------------------- MODULE NetworkBases ----------------------------
(***************************************************************************)
(* The programs of the network bases: deploy_hub_spoke, which puts the     *)
(* components of az_network together in one stack, and deploy_firewall.     *)
(***************************************************************************)
EXTENDS AzNetwork

\* get_azure_stack: exporting the stack asks for its resource group.
Begin == <<ResourceGroup, Export(<<"stack">>)>>

\* log_workspace: a workspace with the stack's name, and its output.
LogWorkspace(parent) == Resource(parent, "Workspace", "w", {RG})
LogWorkspaceProgram(parent) == <<LogWorkspace(parent), Export(<<"log_workspace">>)>>

\* Mutant of DefaultZones: the zones get the stack itself and export.
DefaultZonesExported(c) ==
    LET zone(name) == [name |-> name, linked_vnets |-> c.vwan.hub_vnet_connections,
                       records |-> <<>>, skip_exports |-> FALSE]
    IN  ForEach(c.default_zones, LAMBDA name, i :
          When(\A j \in 1 .. i - 1 : c.default_zones[j] # name, PrivateZoneProgram(zone(name))))

\* Mutant of DefaultZones: a zone that is listed twice is declared twice.
DefaultZonesRepeated(c) ==
    LET zone(name) == [name |-> name, linked_vnets |-> c.vwan.hub_vnet_connections,
                       records |-> <<>>, skip_exports |-> TRUE]
    IN  ForEach(c.default_zones, LAMBDA name, i : PrivateZoneProgram(zone(name)))

\* The zones of the private endpoints, each once, linked to the spokes; the copy
\* of the stack they get exports nothing.
DefaultZones(c) ==
    LET zone(name) == [name |-> name, linked_vnets |-> c.vwan.hub_vnet_connections,
                       records |-> <<>>, skip_exports |-> TRUE]
    IN  ForEach(c.default_zones, LAMBDA name, i :
          When(\A j \in 1 .. i - 1 : c.default_zones[j] # name, PrivateZoneProgram(zone(name))))

\* dns_zone and dns_zones: skip_exports is set on the copy of the zone's
\* configuration, where nobody reads it, so that each zone exports "dns_zone".
HubDnsZones(c) ==
    ForEach(c.dns_zone \o c.dns_zones, LAMBDA zone, i : DnsZoneProgram(ResourceGroup, zone))
    \o <<Export(<<"dns_zones">>)>>

HubSpokeProgram(c) ==
    Begin
    \o VnetProgram(c.vnet)
    \o When(c.has_vwan,
            VwanProgram(c.vwan)
            \o When(c.p2s_vpn, P2sProgram)
            \o When(c.s2s_vpn, S2sProgram(c.vwan))
            \o DefaultZones(c) \o <<Export(<<"private_endpoint_dns_zones">>)>>)
    \o When(c.has_vpn, VpnProgram(c.vpn))
    \o HubDnsZones(c)
    \o When(c.has_resolver, ResolverProgram(c.resolver))
    \o ForEach(c.private_dns_zones, LAMBDA zone, i :
            PrivateZoneProgram([zone EXCEPT !.skip_exports = TRUE]))
    \o When(c.private_dns_zones # <<>>, <<Export(<<"private_dns_zones">>)>>)

\* The firewall writes its logs to a workspace of its own, to one it is given, or
\* nowhere.
FirewallBaseProgram(c) ==
    Begin
    \o ReadHere(
         When(c.log = "own", LogWorkspaceProgram(ResourceGroup))
         \o FirewallProgram([c EXCEPT !.log_workspace =
                              IF c.log = "none" THEN <<>>
                              ELSE <<IF c.log = "own" THEN {LogWorkspace(ResourceGroup).urn} ELSE {}>>]))
=============================================================================
