------------------------------ MODULE Topology ------------------------------
(***************************************************************************)
(* The peers one agent installs (internal/topology), as a function of a    *)
(* document, of what the agent is (Self), of the registry the server       *)
(* returned and of what DNS answers.  A registry is a set of records       *)
(* [name, publicKey, endpoint] with distinct names; a prefix is the set of *)
(* its addresses.                                                          *)
(***************************************************************************)
EXTENDS SpecDoc, Functions

CONSTANTS BadKey,   \* a public key that wgtypes.ParseKey rejects
          NoAddr,   \* a nil *net.UDPAddr
          BadAddr   \* resolveEndpoint returns an error

NoSelf == [name |-> "", role |-> "none", tunnelIP |-> 0, hubName |-> ""]

FindSelf(d, name) ==
  IF FindHub(d, name) # NoHub
  THEN [name |-> name, role |-> "hub", tunnelIP |-> FindHub(d, name).tunnelIP, hubName |-> ""]
  ELSE IF FindAgent(d, name) # NoAgent
  THEN [name |-> name, role |-> "spoke", tunnelIP |-> FindAgent(d, name).tunnelIP,
        hubName |-> FindAgent(d, name).hub]
  ELSE NoSelf

Peer(info, endpoint, allowed, keepalive) ==
  [publicKey |-> info.publicKey, endpoint |-> endpoint, allowed |-> allowed,
   keepalive |-> keepalive]

(* dns maps an endpoint that is not empty to an address or to BadAddr. *)
resolveEndpoint(dns, ep) == IF ep = "" THEN NoAddr ELSE dns[ep]

singleHostPrefix(ip) == {ip}

DistinctEntries(registry) ==
  \A p, q \in registry :
    p.name = q.name \/ (p.publicKey = q.publicKey /\ p.publicKey # "") => p = q

(* The registry by name, without incomplete entries. *)
byName(registry) ==
  LET complete == {p \in registry : p.name # "" /\ p.publicKey # ""}
  IN  [n \in {p.name : p \in complete} |-> CHOOSE p \in complete : p.name = n]

(* Mutant of Dialable: the key is not parsed. *)
DialableAnyKey(info, dns) == resolveEndpoint(dns, info.endpoint) \notin {NoAddr, BadAddr}

(* A hub that can be dialled: its key parses and its endpoint resolves. *)
Dialable(info, dns) ==
  info.publicKey # BadKey /\ resolveEndpoint(dns, info.endpoint) \notin {NoAddr, BadAddr}

Failure == [ok |-> FALSE, peers |-> <<>>]
Success(peers) == [ok |-> TRUE, peers |-> peers]

spokePeers(self, infos, overlay, keepalive, dns) ==
  IF self.hubName \in DOMAIN infos /\ Dialable(infos[self.hubName], dns)
  THEN LET hub == infos[self.hubName]
       IN  Success(<<Peer(hub, resolveEndpoint(dns, hub.endpoint), {overlay}, keepalive)>>)
  ELSE Failure

(* Mutant of hubMeshAllowedIPs: the spokes behind the other hub are forgotten. *)
hubAllowedIPs(d, other) == {singleHostPrefix(other.tunnelIP)}

hubMeshAllowedIPs(d, other) ==
  {singleHostPrefix(other.tunnelIP)}
    \cup {singleHostPrefix(s.tunnelIP) : s \in Range(AgentsForHub(d, other.name))}

(* Nodes that have not registered are skipped; one bad entry fails it all. *)
hubPeers(d, self, infos, keepalive, dns) ==
  LET others == {i \in DOMAIN d.hubs : /\ d.hubs[i].name # self.name
                                       /\ d.hubs[i].name \in DOMAIN infos}
      hubs == Selected(d.hubs, others)
      spokes == Selected(d.agents, {i \in DOMAIN d.agents : /\ d.agents[i].hub = self.name
                                                            /\ d.agents[i].name \in DOMAIN infos})
      mesh(h) == Peer(infos[h.name], resolveEndpoint(dns, infos[h.name].endpoint),
                      hubMeshAllowedIPs(d, h), keepalive)
      leaf(a) == Peer(infos[a.name], NoAddr, {singleHostPrefix(a.tunnelIP)}, 0)
  IN  IF /\ \A h \in Range(hubs) : Dialable(infos[h.name], dns)
         /\ \A a \in Range(spokes) : infos[a.name].publicKey # BadKey
      THEN Success([i \in DOMAIN hubs |-> mesh(hubs[i])] \o [i \in DOMAIN spokes |-> leaf(spokes[i])])
      ELSE Failure

PeersFor(d, self, registry, keepalive, dns) ==
  IF self.role = "spoke"
  THEN spokePeers(self, byName(registry), d.cidr, keepalive, dns)
  ELSE hubPeers(d, self, byName(registry), keepalive, dns)

-----------------------------------------------------------------------------
(* Where a packet for ip must go, from the document and the registry       *)
(* alone: a spoke sends everything of the overlay to its hub; a hub sends  *)
(* to its own spokes, to other hubs and, through these, to their spokes,   *)
(* as far as they have registered.  "" is nowhere.                         *)
NextHop(d, self, registry, ip) ==
  LET nodes == IF self.role = "spoke"
               THEN IF ip \in d.cidr THEN {self.hubName} ELSE {}
               ELSE {IF a.hub = self.name THEN a.name ELSE a.hub :
                       a \in {b \in Range(d.agents) : b.tunnelIP = ip}}
                    \cup {h.name : h \in {g \in Range(d.hubs) : g.tunnelIP = ip /\ g.name # self.name}}
      keys == {p.publicKey : p \in {q \in registry : q.name \in nodes}}
  IN  IF keys = {} THEN "" ELSE CHOOSE k \in keys : TRUE
=============================================================================
