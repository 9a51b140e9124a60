------------------------------ MODULE NodeCalls ------------------------------
(***************************************************************************)
(* The pure functions of a node of the cluster (Settings and Subjects),    *)
(* each called with all arguments up to the bounds, and what must be true  *)
(* of the results.                                                         *)
(***************************************************************************)
EXTENDS Calls, Settings, Subjects

(* load_from, with files and variables that set one thing each, with two   *)
(* variables, and with networks and addresses of every kind.               *)

Hosts == [v4 : 0 .. OneShifted[Width] - 1] \cup {[v6 |-> 1], [name |-> "localhost"]}

Cidrs == [host : Hosts, prefix : 0 .. Width + 1]

\* The name of the variable that sets a setting.
Words(s) == <<s[1]>> \o s[2]
WordsOf(S) == {Words(s) : s \in S}

\* Assignments of the values to the settings.
Sets(S, values) == [words : WordsOf(S), value : values]

NumberChanges ==
    Sets({MediaPort, SignalingPort, HealthPort}, [number : {0, 8080, 8090}])
    \cup Sets({Heartbeat, RequestTimeout}, [number : {0, 4}])
    \cup Sets({UnhealthyMisses, FailoverTarget, JoinTarget}, [number : {0}])

TextChanges ==
    Sets({ClusterId, LogLevel}, [text : {""}])
    \cup Sets({Role}, [text : {"listener", "FULL"}])
    \cup Sets({BindHost}, [text : {"0.0.0.0"}])

\* A list, a name, and a number in its place.
OtherChanges ==
    Sets({Networks}, [list : {{}}]) \cup Sets({NodeId}, {[text |-> ""], [number |-> 3]})

\* Names that no setting has.
Misnamed == [words : {<<"network", "cidrs", "0">>, <<"network">>}, value : [text : {"0.0.0.0"}]]

Changes == NumberChanges \cup TextChanges \cup OtherChanges \cup Misnamed

\* A file that sets one thing.
File(change) == [s \in {<<Head(change.words), Tail(change.words)>>} |-> change.value]
Files == {<<>>} \cup {File(change) : change \in Changes}

SettingsCalls ==
    [fn : {"load_from"}, default : Files, local : Files,
     env : {<<>>} \cup {<<change>> : change \in Changes}] \cup
    [fn : {"load_from"}, default : {<<>>}, local : {<<>>}, env : Changes \X Changes] \cup
    [fn : {"load_from"},
     default : {File([words |-> Words(Networks), value |-> [list |-> {cidr}]]) : cidr \in Cidrs},
     local : {File([words |-> Words(Server), value |-> [text |-> [host |-> h]]]) : h \in Hosts},
     env : {<<change>> : change \in Sets({Advertised}, [text : [host : Hosts, colon : BOOLEAN]])}]

------------------------------------------------------------------------------
(* Messages of a cluster with two nodes, and of others that share the      *)
(* server.  Ids with dots are among the clusters', the rooms' and the      *)
(* nodes'.                                                                 *)

Nodes == [cluster : {<<"a">>, <<"a", "room">>, <<"room">>}, id : {<<"n">>, <<"room">>}]

BusCalls ==
    [fn : {"publish"}, kind : {"heartbeat", "room", "snapshot", "route", "migrate"},
     sender : Nodes \cup {[cluster |-> <<"a">>, id |-> <<"n", "a">>]},
     about : {<<"n">>, <<"room">>, <<"snapshot">>, <<"new">>, <<"r", "n">>}]

NodeInit == call \in SettingsCalls \/ call \in BusCalls

NodeNext ==
    \/ call.fn = "load_from"
         /\ result' = {Load(Defaults, call.default, call.local, call.env)}
    \/ call.fn = "publish"
         /\ result' = {Handled(Nodes, call.kind, call.sender, call.about)}

------------------------------------------------------------------------------
(* Properties. *)

\* The first bits of an address, up to a prefix, as 32 bit numbers have them.
SameFirstBits(a, b, prefix) ==
    \A i \in Width - prefix .. Width - 1 : (a \div OneShifted[i]) % 2 = (b \div OneShifted[i]) % 2

\* With a configuration that loads, what the node connects to and what it tells
\* the others to connect to is on the machine itself or in a declared network.
LoadedIsPrivate ==
    \A r \in result : call.fn = "load_from" =>
        \A config \in r : \A host \in {config[Server].text.host, config[Advertised].text.host} :
            /\ DOMAIN host = {"v4"}
            /\ \/ host.v4 \in Loopback
               \/ \E cidr \in config[Networks].list :
                     /\ DOMAIN cidr.host = {"v4"}
                     /\ SameFirstBits(host.v4, cidr.host.v4, cidr.prefix)

\* Every setting has the value that the last layer to name it gave it: the
\* variables, the local file, the default file, the defaults.  With a variable
\* that names no setting nothing is loaded.
LastLayerDecides ==
    \A r \in result : call.fn = "load_from" =>
        /\ \A i \in DOMAIN call.env :
              call.env[i].words \notin WordsOf(KnownSettings) => r = {}
        /\ \A config \in r : \A s \in KnownSettings :
              LET named == {i \in DOMAIN call.env : call.env[i].words = Words(s)} IN
              config[s] = IF named # {} THEN call.env[CHOOSE i \in named :
                                                        \A j \in named : j <= i].value
                          ELSE IF s \in DOMAIN call.local THEN call.local[s]
                          ELSE IF s \in DOMAIN call.default THEN call.default[s]
                          ELSE Defaults[s]

\* Whoever a message is for handles it, once, and nobody else: a request for a
\* new room one node of the cluster, a migration its target, anything else every
\* node of the cluster.  Ids must be single tokens: with a dot in its id a room,
\* or a node's heartbeat, reaches nobody.
MessagesReachTheirTask ==
    \A r \in result :
        (call.fn = "publish" /\ Len(call.sender.id) = 1 /\ Len(call.about) = 1) =>
            \A handled \in r :
                LET cluster == {n \in Nodes : n.cluster = call.sender.cluster}
                    receivers == {s[1] : s \in handled}
                IN  /\ \A s \in handled : Understood(s[2]) = call.kind
                    /\ Cardinality(receivers) = Cardinality(handled)
                    /\ CASE call.kind = "route" ->
                              receivers \subseteq cluster /\ Cardinality(receivers) = 1
                         [] call.kind = "migrate" ->
                              receivers = {n \in cluster : n.id = call.about}
                         [] OTHER -> receivers = cluster
=============================================================================
