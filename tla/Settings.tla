------------------------------ MODULE Settings ------------------------------
(***************************************************************************)
(* How a process gets its configuration (crates/qm-common/src/config.rs)   *)
(* and which addresses it accepts (the Cidr of error.rs).  Pure operators. *)
(*                                                                         *)
(* A setting is its section and the words of its field; the name of an     *)
(* environment variable is a sequence of words, with no prefix.  A value   *)
(* is a number, a text or a list, and says which;                          *)
(* a host name is an address of either version or something else.  Letter  *)
(* case and surrounding blanks are left out, and so are the settings that  *)
(* no check looks at, but for one.  Default networks and addresses are     *)
(* shortened like all addresses; the loopback addresses are a constant.    *)
(***************************************************************************)
EXTENDS SequencesExt, StdLib

CONSTANTS
    Width,   \* bits of an address of version 4
    Loopback \* the addresses of version 4 that stay on the machine

ASSUME SettingsAssumption == Width \in Nat \ {0} /\ Loopback \subseteq Nat /\ Loopback # {}

------------------------------------------------------------------------------
(* Cidr *)

\* Cidr::parse - the network, {} for an error.
ParseCidr(text) ==
    IF DOMAIN text.host \subseteq {"v4", "v6"} /\ text.prefix <= Width THEN {text} ELSE {}

\* What is left of an address under the mask for a prefix.
Masked(address, prefix) ==
    IF prefix = 0 THEN 0 ELSE address - (address % OneShifted[Width - prefix])

\* Mutated form of InCidr: the mask is one bit short.
InCidrShort(cidr, host) ==
    /\ DOMAIN cidr.host = {"v4"} /\ DOMAIN host = {"v4"}
    /\ LET prefix == IF cidr.prefix = 0 THEN 0 ELSE cidr.prefix - 1
       IN  Masked(cidr.host.v4, prefix) = Masked(host.v4, prefix)

\* Cidr::contains
InCidr(cidr, host) ==
    /\ DOMAIN cidr.host = {"v4"} /\ DOMAIN host = {"v4"}
    /\ Masked(cidr.host.v4, cidr.prefix) = Masked(host.v4, cidr.prefix)

\* The exception of ClusterConfig::validate, and Error::ensure_private_host.
IsPrivate(host, allowlist) ==
    \/ DOMAIN host = {"v4"} /\ host.v4 \in Loopback
    \/ \E cidr \in allowlist : InCidr(cidr, host)

------------------------------------------------------------------------------
(* The settings that some check looks at, and one that none does.          *)

Server == <<"cluster", <<"server">>>>
Advertised == <<"cluster", <<"advertised", "addr">>>>
Networks == <<"network", <<"cidrs">>>>
MediaPort == <<"media", <<"port">>>>
SignalingPort == <<"media", <<"signaling", "port">>>>
ClusterPort == <<"cluster", <<"port">>>>
HealthPort == <<"cluster", <<"health", "port">>>>
Heartbeat == <<"cluster", <<"heartbeat", "secs">>>>
RequestTimeout == <<"cluster", <<"request", "timeout", "secs">>>>
Role == <<"cluster", <<"node", "role">>>>
NodeId == <<"cluster", <<"node", "id">>>>
BindHost == <<"network", <<"bind", "host">>>>
ClusterId == <<"cluster", <<"cluster", "id">>>>
UnhealthyMisses == <<"cluster", <<"unhealthy", "misses">>>>
FailoverTarget == <<"cluster", <<"failover", "target", "secs">>>>
JoinTarget == <<"cluster", <<"join", "target", "secs">>>>
LogLevel == <<"logging", <<"level">>>>

KnownSettings ==
    {Server, Advertised, Networks, MediaPort, SignalingPort, ClusterPort, HealthPort,
     Heartbeat, RequestTimeout, Role, NodeId, BindHost, ClusterId, UnhealthyMisses,
     FailoverTarget, JoinTarget, LogLevel}

\* One layer over the others.  Names that no field has are passed over.
Over(config, layer) ==
    [s \in KnownSettings |-> IF s \in DOMAIN layer THEN layer[s] ELSE config[s]]

\* The Default implementations, one for each section.
MediaDefaults ==
    [s \in {MediaPort, SignalingPort} |-> [number |-> IF s = MediaPort THEN 8080 ELSE 8081]]
NetworkDefaults ==
    [s \in {Networks, BindHost} |->
        IF s = Networks THEN [list |-> {[host |-> [v4 |-> 0], prefix |-> Width - 1]}]
        ELSE [text |-> "192.168.0.10"]]
LoggingDefaults == [s \in {LogLevel} |-> [text |-> "info"]]
ClusterDefaults ==
    [s \in {Server, Advertised, ClusterPort, HealthPort, ClusterId, NodeId, Role, Heartbeat,
            UnhealthyMisses, FailoverTarget, JoinTarget, RequestTimeout} |->
        CASE s = Server -> [text |-> [host |-> [v4 |-> CHOOSE a \in Loopback : TRUE]]]
          [] s = Advertised -> [text |-> [host |-> [v4 |-> 1], colon |-> TRUE]]
          [] s = ClusterPort -> [number |-> 4222]
          [] s = HealthPort -> [number |-> 8090]
          [] s = ClusterId -> [text |-> "quickmeet"]
          [] s = NodeId -> [text |-> "node-1"]
          [] s = Role -> [text |-> "full"]
          [] s = Heartbeat -> [number |-> 5]
          [] s = UnhealthyMisses -> [number |-> 2]
          [] s = FailoverTarget -> [number |-> 10]
          [] s = JoinTarget -> [number |-> 30]
          [] s = RequestTimeout -> [number |-> 3]]
Defaults == Over(Over(Over(ClusterDefaults, LoggingDefaults), NetworkDefaults), MediaDefaults)

\* The types of the fields; a role is one of two words.
WellTyped(config) ==
    \A s \in KnownSettings :
        CASE s = Networks -> DOMAIN config[s] = {"list"}
          [] s \in {Server, Advertised, ClusterId, NodeId, BindHost, LogLevel} -> DOMAIN config[s] = {"text"}
          [] s = Role -> config[s] \in {[text |-> "full"], [text |-> "listener"]}
          [] OTHER -> DOMAIN config[s] = {"number"}

\* ClusterConfig::validate, with parse_host_port.  An advertised address is a
\* host and, after the first colon, a port that nobody reads.
ClusterValid(config, allowlist) ==
    LET server == config[Server].text.host
        advertised == config[Advertised].text
    IN  /\ config[ClusterId].text # "" /\ config[NodeId].text # ""
        /\ 0 \notin {config[s].number : s \in {ClusterPort, Heartbeat, UnhealthyMisses,
                                               FailoverTarget, JoinTarget}}
        /\ config[RequestTimeout].number \in 1 .. config[Heartbeat].number - 1
        /\ DOMAIN server = {"v4"} /\ IsPrivate(server, allowlist)
        /\ advertised.colon
        /\ DOMAIN advertised.host = {"v4"} /\ IsPrivate(advertised.host, allowlist)

\* AppConfig::validate
Valid(config) ==
    LET texts == config[Networks].list IN
    /\ config[MediaPort].number # 0 /\ config[SignalingPort].number # 0
    /\ texts # {} /\ \A text \in texts : ParseCidr(text) # {}
    /\ config[LogLevel].text # ""
    /\ ClusterValid(config, UNION {ParseCidr(text) : text \in texts})
    /\ config[HealthPort].number \notin {0, config[MediaPort].number,
                                         config[SignalingPort].number}

------------------------------------------------------------------------------
(* Layers *)

\* Mutated form of Setting: the last underscore parts section and field.
SettingAtLast(words) == <<Head(words), <<Last(words)>>>>

\* env_overrides_map: the first underscore parts section and field.
Setting(words) == <<Head(words), Tail(words)>>

\* A variable with a single word, or for an unknown setting, is an error.
KnownVariables(env) ==
    \A i \in DOMAIN env : Len(env[i].words) > 1 /\ Setting(env[i].words) \in KnownSettings

\* What the variables set: of two that differ in letter case only, the later.
Overrides(env) ==
    [s \in {Setting(env[i].words) : i \in DOMAIN env} |->
        env[CHOOSE i \in DOMAIN env : /\ Setting(env[i].words) = s
                                      /\ \A j \in DOMAIN env :
                                            Setting(env[j].words) = s => j <= i].value]

\* load_from - the configuration, {} for an error.
Load(defaults, defaultFile, localFile, env) ==
    IF ~KnownVariables(env) THEN {}
    ELSE {config \in {Over(Over(Over(defaults, defaultFile), localFile), Overrides(env))} :
             WellTyped(config) /\ Valid(config)}
=============================================================================
