--------------------------------- MODULE Ice ---------------------------------
(***************************************************************************)
(* Which STUN and TURN servers a peer is given (crates/qm-sfu/src/ice.rs). *)
(* Pure operators.  A server is its kind and the host of its address; user *)
(* name, credential and port are left out.  An address of version 6 has    *)
(* colons, at the first of which host() cuts it, so that it is never an    *)
(* address for IceValid; InCidr refuses it just so.                        *)
(***************************************************************************)
EXTENDS Settings

NatTypes == {"none", "cone", "symmetric"}

\* IceConfig::validate - unlike ClusterValid it has no exception for loopback
\* addresses.
IceValid(config, allowlist) ==
    \A i \in DOMAIN config.servers :
        \E cidr \in allowlist : InCidr(cidr, config.servers[i].host)

OfKind(config, kind) ==
    Within(config.servers, {s \in Range(config.servers) : s.kind = kind})

StunServers(config) == OfKind(config, "stun")
TurnServers(config) == OfKind(config, "turn")

\* Mutated form of SelectServers: relays are kept for symmetric NAT only by name.
SelectStun(config) == IF config.nat_type = "none" THEN <<>> ELSE StunServers(config)

\* select_ice_servers
SelectServers(config) == IF config.nat_type = "none" THEN <<>> ELSE config.servers

\* simulate_nat
SimulateNat(nat, config) ==
    [nat_type |-> nat,
     stun_succeeded |-> nat # "symmetric",
     turn_used |-> nat = "symmetric",
     selected |-> Len(SelectServers([config EXCEPT !.nat_type = nat]))]

\* SfuRouter::ice_info
IceInfo(config) ==
    [SimulateNat(config.nat_type, config) EXCEPT !.selected = Len(SelectServers(config))]

\* IceConfig::default, for the address it names.
DefaultIce(address) ==
    [servers |-> <<[kind |-> "stun", host |-> address], [kind |-> "turn", host |-> address]>>,
     nat_type |-> "none"]

\* loopback_test
LoopbackTest ==
    SimulateNat("none", DefaultIce([v4 |-> CHOOSE a \in Loopback : TRUE]))
=============================================================================
