---------------------------- MODULE MCAgentPeers ----------------------------
(* Instances of AgentPeers for TLC: the hubs h1 and h2 and the spokes a    *)
(* and b, seen from h1 or from a.  Between the documents spokes change     *)
(* hubs and swap addresses, an agent disappears, the overlay grows, and    *)
(* the hub h2 becomes a spoke of h1.                                       *)
EXTENDS AgentPeers

Network(cidr, keepalive, hubs, agents) ==
  [cidr |-> cidr, mtu |-> 1420, hubListenPort |-> 51820, persistentKeepalive |-> keepalive,
   groups |-> <<>>, acls |-> <<>>,
   hubs |-> [i \in DOMAIN hubs |-> [name |-> hubs[i][1], endpoint |-> "e", tunnelIP |-> hubs[i][2]]],
   agents |-> [i \in DOMAIN agents |-> [name |-> agents[i][1], tunnelIP |-> agents[i][2],
                                        hub |-> agents[i][3], groups |-> <<>>]]]

Apart == Network(1..4, 25000, <<<<"h1", 1>>, <<"h2", 2>>>>, <<<<"a", 3, "h1">>, <<"b", 4, "h2">>>>)
Swapped == Network(1..5, 25000, <<<<"h2", 2>>, <<"h1", 1>>>>, <<<<"b", 3, "h1">>, <<"a", 4, "h2">>>>)
Demoted == Network(1..6, 1500, <<<<"h1", 1>>>>, <<<<"h2", 2, "h1">>, <<"a", 3, "h1">>>>)

MCDocs == {Apart, Swapped, Demoted}

Info(name, key, endpoint) == {[name |-> name, publicKey |-> key, endpoint |-> endpoint]}

HubReplies ==
  {Info("h2", "H", "e") \cup Info("a", k, "") \cup Info("b", "B", "") : k \in {"A", "A2"}}
    \cup {Info("a", "A", "") \cup Info("b", "B", ""), Info("h2", "H", "e"),
          Info("h2", "H", "") \cup Info("a", "A", ""), Info("h2", BadKey, "e")}

FewHubReplies ==
  {Info("h2", "H", "e") \cup Info("a", k, "") \cup Info("b", "B", "") : k \in {"A", "A2"}}

SpokeReplies ==
  {h \cup Info("h2", "H", "e") : h \in {{}, Info("h1", "G", "e"), Info("h1", "G2", "e"),
                                        Info("h1", BadKey, "e")}}
    \cup {Info("h1", "G", "e") \cup Info("h2", "H", "")}

FewSpokeReplies == {Info("h1", k, "e") \cup Info("h2", "H", "e") : k \in {"G", "G2"}}

MCModes == [h1 |-> "hub", a |-> "spoke"]
MCReplies == [h1 |-> HubReplies, a |-> SpokeReplies]
FewReplies == [h1 |-> FewHubReplies, a |-> FewSpokeReplies]
=============================================================================
