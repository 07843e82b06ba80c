--------------------------- MODULE OverlayProofs ----------------------------
(***************************************************************************)
(* The network as a whole, for any number of nodes, any pair of documents  *)
(* and any order of pulls, restarts and failures.  The invariant says of   *)
(* each node that whatever its device has for a peer is what one of the    *)
(* cycles that it is from wanted for that peer, through the registry of    *)
(* some commit, and that an ACL that is one commit's drops what that       *)
(* commit says.                                                            *)
(***************************************************************************)
EXTENDS Overlay, PeersProofs

-----------------------------------------------------------------------------
(* FindSelf finds the hubs and the agents of a document and nothing else. *)
LEMMA SelfFound ==
  ASSUME NEW d, Parsed(d)
  PROVE  /\ \A a \in DOMAIN d.hubs :
              FindSelf(d, d.hubs[a].name) =
                [name |-> d.hubs[a].name, role |-> "hub", tunnelIP |-> d.hubs[a].tunnelIP, hubName |-> ""]
         /\ \A b \in DOMAIN d.agents :
              FindSelf(d, d.agents[b].name) =
                [name |-> d.agents[b].name, role |-> "spoke", tunnelIP |-> d.agents[b].tunnelIP,
                 hubName |-> d.agents[b].hub]
         /\ \A n : FindSelf(d, n) # NoSelf => \/ \E a \in DOMAIN d.hubs : n = d.hubs[a].name
                                              \/ \E b \in DOMAIN d.agents : n = d.agents[b].name
<1> DEFINE hname(i) == d.hubs[i].name
           aname(i) == d.agents[i].name
           H == DOMAIN d.hubs
           A == DOMAIN d.agents
<1>1. /\ \A i \in H : hname(i) # ""
      /\ \A i \in A : aname(i) # ""
      /\ \A i, j \in H : hname(i) = hname(j) => i = j
      /\ \A i, j \in A : aname(i) = aname(j) => i = j
      /\ \A i \in H, j \in A : hname(i) # aname(j)
  BY NodesDistinct, Zenon
<1>2. /\ \A h : h \in Range(d.hubs) <=> \E i \in H : h = d.hubs[i]
      /\ \A a : a \in Range(d.agents) <=> \E i \in A : a = d.agents[i]
  BY DEF Range
<1>3. ASSUME NEW a \in H PROVE FindHub(d, hname(a)) = d.hubs[a]
  <2>1. ASSUME NEW h \in Range(d.hubs), h.name = hname(a) PROVE h = d.hubs[a]
    <3>1. PICK i \in H : h = d.hubs[i]
      BY <1>2, Zenon
    <3>2. hname(i) = hname(a)
      BY <2>1, <3>1, Zenon
    <3>3. i = a
      BY <1>1, <3>2, Zenon
    <3> QED
      BY <3>1, <3>3, Zenon
  <2>2. d.hubs[a] \in Range(d.hubs) /\ d.hubs[a].name = hname(a)
    BY <1>2, Zenon
  <2> QED
    BY <2>1, <2>2, Zenon DEF FindHub
<1>4. ASSUME NEW b \in A PROVE FindAgent(d, aname(b)) = d.agents[b]
  <2>1. ASSUME NEW x \in Range(d.agents), x.name = aname(b) PROVE x = d.agents[b]
    <3>1. PICK i \in A : x = d.agents[i]
      BY <1>2, Zenon
    <3>2. aname(i) = aname(b)
      BY <2>1, <3>1, Zenon
    <3>3. i = b
      BY <1>1, <3>2, Zenon
    <3> QED
      BY <3>1, <3>3, Zenon
  <2>2. d.agents[b] \in Range(d.agents) /\ d.agents[b].name = aname(b)
    BY <1>2, Zenon
  <2> QED
    BY <2>1, <2>2, Zenon DEF FindAgent
<1>5. ASSUME NEW n, ~\E i \in H : hname(i) = n PROVE FindHub(d, n) = NoHub
  <2>1. ~\E x \in Range(d.hubs) : x.name = n
    <3>1. SUFFICES ASSUME NEW x \in Range(d.hubs), x.name = n PROVE FALSE
      BY Zenon
    <3>2. PICK i \in H : x = d.hubs[i]
      BY <1>2, Zenon
    <3>3. hname(i) = n
      BY <3>1, <3>2, Zenon
    <3> QED
      BY <1>5, <3>3, Zenon
  <2> QED
    BY <2>1, Zenon DEF FindHub
<1>6. ASSUME NEW n, ~\E i \in A : aname(i) = n PROVE FindAgent(d, n) = NoAgent
  <2>1. ~\E x \in Range(d.agents) : x.name = n
    <3>1. SUFFICES ASSUME NEW x \in Range(d.agents), x.name = n PROVE FALSE
      BY Zenon
    <3>2. PICK i \in A : x = d.agents[i]
      BY <1>2, Zenon
    <3>3. aname(i) = n
      BY <3>1, <3>2, Zenon
    <3> QED
      BY <1>6, <3>3, Zenon
  <2> QED
    BY <2>1, Zenon DEF FindAgent
<1>7. \A a \in H : d.hubs[a] # NoHub
  <2>1. NoHub.name = ""
    BY DEF NoHub
  <2> QED
    BY <1>1, <2>1, Zenon
<1>8. \A b \in A : d.agents[b] # NoAgent
  <2>1. NoAgent.name = ""
    BY DEF NoAgent
  <2> QED
    BY <1>1, <2>1, Zenon
<1>9. ASSUME NEW a \in H
      PROVE  FindSelf(d, hname(a)) =
               [name |-> hname(a), role |-> "hub", tunnelIP |-> d.hubs[a].tunnelIP, hubName |-> ""]
  BY <1>3, <1>7, Zenon DEF FindSelf
<1>10. ASSUME NEW b \in A
       PROVE  FindSelf(d, aname(b)) =
                [name |-> aname(b), role |-> "spoke", tunnelIP |-> d.agents[b].tunnelIP,
                 hubName |-> d.agents[b].hub]
  <2>1. FindHub(d, aname(b)) = NoHub
    BY <1>1, <1>5, Zenon
  <2> QED
    BY <1>4, <1>8, <2>1, Zenon DEF FindSelf
<1>11. ASSUME NEW n, FindSelf(d, n) # NoSelf
       PROVE  (\E a \in H : n = hname(a)) \/ \E b \in A : n = aname(b)
  BY <1>5, <1>6, <1>11, Zenon DEF FindSelf
<1> QED
  BY <1>9, <1>10, <1>11, Zenon

(* What a node is, by a document. *)
HubOf(d, n, ip) == \E a \in DOMAIN d.hubs : d.hubs[a].name = n /\ d.hubs[a].tunnelIP = ip
AgentOf(d, n, ip, hub) ==
  \E b \in DOMAIN d.agents : d.agents[b].name = n /\ d.agents[b].tunnelIP = ip /\ d.agents[b].hub = hub

(* What FindSelf returns for a node that is one of them. *)
IsSelf(s, d, n) ==
  /\ s.name = n /\ s.tunnelIP \in d.cidr
  /\ \/ s.role = "hub" /\ HubOf(d, n, s.tunnelIP)
     \/ s.role = "spoke" /\ AgentOf(d, n, s.tunnelIP, s.hubName)

(* A node that FindSelf finds is one of them, under its own name. *)
LEMMA SelfIs ==
  ASSUME NEW d, Parsed(d), NEW n, FindSelf(d, n) # NoSelf
  PROVE  IsSelf(FindSelf(d, n), d, n)
<1>1. CASE \E a \in DOMAIN d.hubs : n = d.hubs[a].name
  <2>1. PICK a \in DOMAIN d.hubs : n = d.hubs[a].name
    BY <1>1
  <2> DEFINE ip == d.hubs[a].tunnelIP
  <2>2. ip \in d.cidr
    BY NodesDistinct, Zenon
  <2>3. FindSelf(d, n) = [name |-> n, role |-> "hub", tunnelIP |-> ip, hubName |-> ""]
    BY <2>1, SelfFound, Zenon
  <2>4. HubOf(d, n, ip)
    BY <2>1, Zenon DEF HubOf
  <2> HIDE DEF ip
  <2>5. \A s : s.name = n /\ s.role = "hub" /\ s.tunnelIP = ip => IsSelf(s, d, n)
    BY <2>2, <2>4, Zenon DEF IsSelf
  <2> QED
    BY <2>3, <2>5, Zenon
<1>2. CASE \E b \in DOMAIN d.agents : n = d.agents[b].name
  <2>1. PICK b \in DOMAIN d.agents : n = d.agents[b].name
    BY <1>2
  <2> DEFINE ip == d.agents[b].tunnelIP
             hub == d.agents[b].hub
  <2>2. ip \in d.cidr
    BY NodesDistinct, Zenon
  <2>3. FindSelf(d, n) = [name |-> n, role |-> "spoke", tunnelIP |-> ip, hubName |-> hub]
    BY <2>1, SelfFound, Zenon
  <2>4. AgentOf(d, n, ip, hub)
    BY <2>1, Zenon DEF AgentOf
  <2> HIDE DEF ip, hub
  <2> QED
    BY <2>2, <2>3, <2>4 DEF IsSelf
<1>3. (\E a \in DOMAIN d.hubs : n = d.hubs[a].name) \/ \E b \in DOMAIN d.agents : n = d.agents[b].name
  <2>1. \A m : FindSelf(d, m) # NoSelf => \/ \E a \in DOMAIN d.hubs : m = d.hubs[a].name
                                          \/ \E b \in DOMAIN d.agents : m = d.agents[b].name
    BY SelfFound, Zenon
  <2> QED
    BY <2>1, Zenon
<1> QED
  BY <1>1, <1>2, <1>3, Zenon

-----------------------------------------------------------------------------
(* The registry as the server shows it on commit v, and the routes that    *)
(* PeersFor gives a node by commit c, when the node was resolved at s.     *)
Shown(v) == {[name |-> m, publicKey |-> m, endpoint |-> m] : m \in Declared(v)}
RoutesFrom(n, c, s, v) == [ip \in Address |-> NextHop(DocAt(c), Is(s, n), Shown(v), ip)]

(* Both documents of an edit are ones that the loader accepts. *)
LEMMA DocFacts ==
  ASSUME edit \in DOMAIN Edits, NEW c \in Commit
  PROVE  /\ Parsed(DocAt(c)) /\ DocAt(c).cidr \subseteq Address
         /\ \A i \in DOMAIN DocAt(c).hubs : DocAt(c).hubs[i].name \in Nodes
         /\ \A i \in DOMAIN DocAt(c).agents : DocAt(c).agents[i].name \in Nodes
<1> DEFINE d == DocAt(c)
<1>1. /\ Parsed(d) /\ d.cidr \subseteq Address
      /\ \A h \in Range(d.hubs) : h.name \in Nodes
      /\ \A a \in Range(d.agents) : a.name \in Nodes
  BY EditsAssumption, Zenon DEF DocAt
<1> HIDE DEF d
<1>2. /\ \A i \in DOMAIN d.hubs : d.hubs[i] \in Range(d.hubs)
      /\ \A i \in DOMAIN d.agents : d.agents[i] \in Range(d.agents)
  BY DEF Range
<1> QED
  BY <1>1, <1>2, Zenon DEF d

(* What a commit says of a node is what FindSelf finds in its document. *)
LEMMA IsFound ==
  ASSUME edit \in DOMAIN Edits, NEW c \in Commit
  PROVE  /\ \A n \in Nodes : Is(c, n) = FindSelf(DocAt(c), n)
         /\ \A n \in Declared(c) : n \in Nodes /\ Is(c, n) = FindSelf(DocAt(c), n)
<1>1. ASSUME NEW n \in Nodes PROVE Is(c, n) = FindSelf(DocAt(c), n)
  <2>1. \A T : [m \in Nodes |-> FindSelf(T, m)][n] = FindSelf(T, n)
    OBVIOUS
  <2>2. Selves[edit][c] = [m \in Nodes |-> FindSelf(Edits[edit][c], m)]
    BY Zenon DEF Selves
  <2> QED
    BY <2>1, <2>2, Zenon DEF Is, DocAt
<1> QED
  BY <1>1, Zenon DEF Declared

(* A declared node is a hub or an agent of the document, and they are the  *)
(* declared ones.                                                          *)
LEMMA DeclaredIs ==
  ASSUME edit \in DOMAIN Edits, NEW c \in Commit
  PROVE  /\ \A n \in Declared(c) : IsSelf(Is(c, n), DocAt(c), n)
         /\ \A i \in DOMAIN DocAt(c).hubs : DocAt(c).hubs[i].name \in Declared(c)
         /\ \A i \in DOMAIN DocAt(c).agents : DocAt(c).agents[i].name \in Declared(c)
<1> DEFINE d == DocAt(c)
<1>1. /\ Parsed(d) /\ \A i \in DOMAIN d.hubs : d.hubs[i].name \in Nodes
      /\ \A i \in DOMAIN d.agents : d.agents[i].name \in Nodes
  BY DocFacts, Zenon
<1>2. Declared(c) = {n \in Nodes : FindSelf(d, n) # NoSelf}
  BY IsFound, Zenon DEF Declared
<1> HIDE DEF d
<1>3. \A x, y, z : /\ [name |-> x, role |-> "hub", tunnelIP |-> y, hubName |-> z] # NoSelf
                   /\ [name |-> x, role |-> "spoke", tunnelIP |-> y, hubName |-> z] # NoSelf
  BY Zenon DEF NoSelf
<1>4. ASSUME NEW i \in DOMAIN d.hubs PROVE d.hubs[i].name \in Declared(c)
  <2>1. FindSelf(d, d.hubs[i].name) =
          [name |-> d.hubs[i].name, role |-> "hub", tunnelIP |-> d.hubs[i].tunnelIP, hubName |-> ""]
    BY <1>1, SelfFound, Zenon
  <2>2. FindSelf(d, d.hubs[i].name) # NoSelf
    BY <1>3, <2>1, Zenon
  <2> QED
    BY <1>1, <1>2, <2>2, Zenon
<1>5. ASSUME NEW i \in DOMAIN d.agents PROVE d.agents[i].name \in Declared(c)
  <2>1. FindSelf(d, d.agents[i].name) =
          [name |-> d.agents[i].name, role |-> "spoke", tunnelIP |-> d.agents[i].tunnelIP,
           hubName |-> d.agents[i].hub]
    BY <1>1, SelfFound, Zenon
  <2>2. FindSelf(d, d.agents[i].name) # NoSelf
    BY <1>3, <2>1, Zenon
  <2> QED
    BY <1>1, <1>2, <2>2, Zenon
<1>6. ASSUME NEW n \in Declared(c) PROVE IsSelf(FindSelf(d, n), d, n)
  BY <1>1, <1>2, SelfIs
<1> QED
  BY <1>4, <1>5, <1>6, IsFound, Zenon DEF d

(* Each declared node is registered once, under a key of its own that is   *)
(* its name.                                                               *)
LEMMA ShownFact ==
  ASSUME NEW v
  PROVE  /\ Shown(v) \in SUBSET Entries(Nodes) /\ DistinctEntries(Shown(v))
         /\ DOMAIN byName(Shown(v)) = Declared(v)
         /\ \A m \in Declared(v) : byName(Shown(v))[m] = [name |-> m, publicKey |-> m, endpoint |-> m]
<1> DEFINE r == Shown(v)
           D == Declared(v)
           reg(m) == [name |-> m, publicKey |-> m, endpoint |-> m]
<1>1. D \subseteq Nodes /\ \A m \in D : m \in STRING /\ m # ""
  BY NodesAssumption, Zenon DEF Declared
<1>2. r = {reg(m) : m \in D}
  BY DEF Shown
<1> HIDE DEF r, D
<1>3. \A m : reg(m).name = m /\ reg(m).publicKey = m
  OBVIOUS
<1>4. \A m \in D : reg(m) \in Entries(Nodes)
  BY <1>1, Zenon DEF Entries
<1> HIDE DEF reg
<1>5. /\ \A m \in D : reg(m) \in r
      /\ \A p \in r : p.name \in D /\ p.publicKey = p.name /\ p = reg(p.name)
  BY <1>2, <1>3
<1>6. r \in SUBSET Entries(Nodes)
  BY <1>4, <1>5
<1>7. DistinctEntries(r)
  BY <1>5, Zenon DEF DistinctEntries
<1> DEFINE complete == {p \in r : p.name # "" /\ p.publicKey # ""}
<1>8. complete = r
  BY <1>1, <1>5, Zenon
<1>9. {p.name : p \in r} = D
  BY <1>3, <1>5, Zenon
<1>10. \A m \in D : (CHOOSE p \in r : p.name = m) = reg(m)
  BY <1>3, <1>5, Zenon
<1>11. byName(r) = [n \in {p.name : p \in complete} |-> CHOOSE p \in complete : p.name = n]
  BY DEF byName
<1> HIDE DEF complete
<1>12. byName(r) = [n \in D |-> CHOOSE p \in r : p.name = n]
  <2>1. {p.name : p \in complete} = D
    BY <1>8, <1>9
  <2>2. \A n : (CHOOSE p \in complete : p.name = n) = CHOOSE p \in r : p.name = n
    BY <1>8
  <2> DEFINE pick(n) == CHOOSE p \in complete : p.name = n
             pickR(n) == CHOOSE p \in r : p.name = n
             names == {p.name : p \in complete}
  <2>3. byName(r) = [n \in names |-> pick(n)] /\ names = D /\ \A n : pick(n) = pickR(n)
    BY <1>11, <2>1, <2>2, Zenon
  <2> HIDE DEF pick, pickR, names
  <2>4. byName(r) = [n \in D |-> pickR(n)]
    BY <2>3
  <2> QED
    BY <2>4, Zenon DEF pickR
<1>13. DOMAIN byName(r) = D /\ \A m \in D : byName(r)[m] = reg(m)
  BY <1>10, <1>12, Zenon
<1> QED
  BY <1>6, <1>7, <1>13, Zenon DEF r, D, reg

(* Where peers are dialled. *)
DialledAt == Nodes \cup {NoAddr}

(* What PeersFor makes of them can be installed, and serves each address   *)
(* at its next hop.                                                        *)
LEMMA DesiredListed ==
  ASSUME edit \in DOMAIN Edits, NEW n, NEW c \in Commit, NEW s, NEW v, Desired(n, c, s, v).ok
  PROVE  /\ PeerList(Desired(n, c, s, v).peers, DialledAt)
         /\ AsDeclared(Desired(n, c, s, v).peers, DocAt(c), Is(s, n), Shown(v))
<1> DEFINE d == DocAt(c)
           at == Is(s, n)
           r == Shown(v)
           dns == [m \in Nodes |-> m]
           wanted == PeersFor(d, at, r, d.persistentKeepalive, dns)
<1>1. Desired(n, c, s, v) = wanted
  BY Zenon DEF Desired, Shown
<1>2. Parsed(d)
  BY DocFacts
<1>3. r \in SUBSET Entries(Nodes) /\ DistinctEntries(r)
  BY ShownFact
<1>4. dns \in [Nodes -> Nodes \cup {BadAddr}]
  OBVIOUS
<1>5. wanted.ok
  BY <1>1
<1> HIDE DEF d, at, r, dns
<1>6. PeerList(wanted.peers, Nodes \cup {NoAddr}) /\ AsDeclared(wanted.peers, d, at, r)
  BY <1>2, <1>3, <1>4, <1>5, PeersAsDeclared, Zenon
<1> QED
  BY <1>1, <1>6, Zenon DEF DialledAt, d, at, r

-----------------------------------------------------------------------------
(* By its document, and through the registry of commit v, a cycle of n     *)
(* sends every address of a prefix to a peer.                              *)
Serves(n, o, v, k, x) ==
  /\ n \in Declared(o.self)
  /\ \A ip \in x : NextHop(DocAt(o.doc), Is(o.self, n), Shown(v), ip) = k

(* A device whose peers are from some cycles of n. *)
DeviceOK(n, dv, os) ==
  /\ IsDevice(dv, DialledAt) /\ Disjoint(dv)
  /\ \A k \in DOMAIN dv : \A x \in dv[k].allowed : \E o \in os, v \in Commit : Serves(n, o, v, k, x)

(* A device without peers. *)
LEMMA EmptyOK == \A n, os : DeviceOK(n, EmptyDevice, os)
<1>1. EmptyDevice = [k \in {} |-> <<>>] /\ DOMAIN EmptyDevice = {}
  BY DEF EmptyDevice
<1>2. IsDevice(EmptyDevice, DialledAt) /\ Disjoint(EmptyDevice)
  BY <1>1 DEF IsDevice, Disjoint
<1> QED
  BY <1>1, <1>2, Zenon DEF DeviceOK

(* A device on the way to the wanted peers has nothing but what it had     *)
(* before and what is wanted.                                              *)
LEMMA NothingElse ==
  ASSUME NEW ps, PeerList(ps, DialledAt), NEW new, NEW old, OnTheWay(new, old, ps, DialledAt),
         NEW d, NEW s, NEW r, AsDeclared(ps, d, s, r), NEW k \in DOMAIN new, NEW x \in new[k].allowed
  PROVE  \/ k \in DOMAIN old /\ x \in old[k].allowed
         \/ \A ip \in x : NextHop(d, s, r, ip) = k
<1>1. CASE \E j \in DOMAIN ps : k = ps[j].publicKey /\ new[k].allowed = ps[j].allowed
  <2>1. PICK j \in DOMAIN ps : k = ps[j].publicKey /\ new[k].allowed = ps[j].allowed
    BY <1>1
  <2>2. x \in SUBSET Nat
    <3>1. new[k] \in DevPeer(DialledAt)
      BY DEF OnTheWay, IsDevice
    <3>2. new[k].allowed \in SUBSET Prefixes
      BY <3>1 DEF DevPeer
    <3> QED
      BY <3>2 DEF Prefixes
  <2>3. x \in ps[j].allowed
    BY <2>1
  <2>4. ASSUME NEW ip \in x PROVE NextHop(d, s, r, ip) = k
    BY <2>1, <2>2, <2>3, <2>4 DEF AsDeclared
  <2> QED
    BY <2>4
<1>2. CASE k \in DOMAIN old /\ new[k].allowed \subseteq old[k].allowed
  BY <1>2
<1> QED
  BY <1>1, <1>2, Zenon DEF OnTheWay

(* A request that succeeds leaves the device with the peers its cycle      *)
(* wants and with nothing else (ApplyPeers).                               *)
LEMMA WhollyMade ==
  ASSUME edit \in DOMAIN Edits, NEW n, NEW c \in Commit, NEW s, NEW v, Desired(n, c, s, v).ok,
         NEW old, IsDevice(old, DialledAt), Disjoint(old)
  PROVE  LET new == Configured(old, Desired(n, c, s, v).peers)
         IN  /\ IsDevice(new, DialledAt) /\ Disjoint(new)
             /\ HasPeers(new, Desired(n, c, s, v).peers)
<1> DEFINE ps == Desired(n, c, s, v).peers
           diff == computeDiff(old, ps)
           new == Configured(old, ps)
<1>1. PeerList(ps, DialledAt)
  BY DesiredListed
<1>2. NoAddr \in DialledAt
  BY DEF DialledAt
<1>3. new = IF Empty(diff) THEN old ELSE RemovePeers(ConfigurePeers(old, PeerConfigs(diff)), diff.removed)
  BY DEF Configured
<1> HIDE DEF ps, new
<1>4. IsDiff(diff, old, ps, DialledAt)
  BY <1>1, DiffComputed
<1> HIDE DEF diff
<1>5. OnTheWay(new, old, ps, DialledAt) /\ HasPeers(new, ps)
  BY <1>1, <1>2, <1>3, <1>4, AppliedHasPeers
<1>6. IsDevice(new, DialledAt) /\ Disjoint(new)
  BY <1>5 DEF OnTheWay
<1> QED
  BY <1>5, <1>6, Zenon DEF new, ps

(* So it routes by this cycle alone. *)
LEMMA WhollyRouted ==
  ASSUME edit \in DOMAIN Edits, NEW n, NEW c \in Commit, NEW s, NEW v, Desired(n, c, s, v).ok,
         NEW old, IsDevice(old, DialledAt), Disjoint(old)
  PROVE  RoutesOf(Configured(old, Desired(n, c, s, v).peers)) = RoutesFrom(n, c, s, v)
<1> DEFINE ps == Desired(n, c, s, v).peers
           new == Configured(old, ps)
           d == DocAt(c)
           at == Is(s, n)
           r == Shown(v)
<1>1. PeerList(ps, DialledAt) /\ AsDeclared(ps, d, at, r)
  BY DesiredListed
<1>2. IsDevice(new, DialledAt) /\ Disjoint(new) /\ HasPeers(new, ps)
  BY WhollyMade, Zenon
<1> HIDE DEF ps, new, d, at, r
<1>3. \A ip \in Nat : Route(new, ip) = NextHop(d, at, r, ip)
  BY <1>1, <1>2, RoutesDeclared
<1>4. \A ip \in Address : Route(new, ip) = NextHop(d, at, r, ip)
  BY <1>3, NodesAssumption
<1> QED
  BY <1>4, Zenon DEF RoutesOf, RoutesFrom, new, ps, d, at, r

(* And every prefix of it serves this cycle. *)
LEMMA WhollyServes ==
  ASSUME edit \in DOMAIN Edits, NEW n, NEW c \in Commit, NEW s, NEW v \in Commit, Desired(n, c, s, v).ok,
         n \in Declared(s), NEW old, IsDevice(old, DialledAt), Disjoint(old)
  PROVE  DeviceOK(n, Configured(old, Desired(n, c, s, v).peers), {[doc |-> c, self |-> s]})
<1> DEFINE ps == Desired(n, c, s, v).peers
           new == Configured(old, ps)
           d == DocAt(c)
           at == Is(s, n)
           r == Shown(v)
           o == [doc |-> c, self |-> s]
<1>1. PeerList(ps, DialledAt) /\ AsDeclared(ps, d, at, r)
  BY DesiredListed
<1>2. IsDevice(new, DialledAt) /\ Disjoint(new) /\ HasPeers(new, ps)
  BY WhollyMade, Zenon
<1>3. o.doc = c /\ o.self = s
  OBVIOUS
<1> HIDE DEF ps, new, d, at, r, o
<1>4. ASSUME NEW k \in DOMAIN new, NEW x \in new[k].allowed
      PROVE  \A ip \in x : NextHop(d, at, r, ip) = k
  <2>1. PICK j \in DOMAIN ps : k = ps[j].publicKey
    BY <1>2 DEF HasPeers, KeysOf
  <2>2. x \in ps[j].allowed
    BY <1>2, <2>1 DEF HasPeers
  <2>3. x \in SUBSET Nat
    <3>1. new[k] \in DevPeer(DialledAt)
      BY <1>2 DEF IsDevice
    <3>2. new[k].allowed \in SUBSET Prefixes
      BY <3>1 DEF DevPeer
    <3> QED
      BY <3>2 DEF Prefixes
  <2> QED
    BY <1>1, <2>1, <2>2, <2>3 DEF AsDeclared
<1>5. ASSUME NEW k \in DOMAIN new, NEW x \in new[k].allowed PROVE Serves(n, o, v, k, x)
  BY <1>3, <1>4, Zenon DEF Serves, d, at, r
<1>6. DeviceOK(n, new, {o})
  BY <1>2, <1>5, Zenon DEF DeviceOK
<1> QED
  BY <1>6, Zenon DEF new, ps, o

(* One that fails half-way leaves a mixture of its cycle and of those      *)
(* before.                                                                 *)
LEMMA PartlyMade ==
  ASSUME edit \in DOMAIN Edits, NEW n, NEW c \in Commit, NEW s, NEW v \in Commit,
         Desired(n, c, s, v).ok, n \in Declared(s), NEW old, NEW os, DeviceOK(n, old, os),
         NEW diff, diff = computeDiff(old, Desired(n, c, s, v).peers),
         NEW k \in 0..Len(PeerConfigs(diff)), NEW gone \in SUBSET diff.removed, NEW new,
         new = RemovePeers(ConfigurePeers(old, SubSeq(PeerConfigs(diff), 1, k)), gone)
  PROVE  DeviceOK(n, new, os \cup {[doc |-> c, self |-> s]})
<1> DEFINE ps == Desired(n, c, s, v).peers
           cs == PeerConfigs(diff)
           o == [doc |-> c, self |-> s]
           d == DocAt(c)
           at == Is(s, n)
           r == Shown(v)
<1>1. PeerList(ps, DialledAt) /\ AsDeclared(ps, d, at, r)
  BY DesiredListed
<1>2. NoAddr \in DialledAt
  BY DEF DialledAt
<1>3. IsDevice(old, DialledAt) /\ Disjoint(old)
  BY Zenon DEF DeviceOK
<1> HIDE DEF ps
<1>4. IsDiff(diff, old, ps, DialledAt)
  BY <1>1, DiffComputed DEF ps
<1>5. PICK bt : SentFor(SubSeq(cs, 1, k), bt, ps, old, DialledAt)
  <2>1. PICK ct : SentFor(cs, ct, ps, old, DialledAt)
    BY <1>1, <1>4, DiffSent
  <2>2. k \in 0..Len(cs)
    OBVIOUS
  <2> HIDE DEF cs
  <2> QED
    BY <2>1, <2>2, SomeSent
<1>6. gone \subseteq DOMAIN old \ KeysOf(ps)
  BY <1>4 DEF IsDiff
<1> HIDE DEF cs
<1>7. OnTheWay(new, old, ps, DialledAt)
  BY <1>1, <1>2, <1>3, <1>5, <1>6, PartlyConfigured DEF cs
<1>8. IsDevice(new, DialledAt) /\ Disjoint(new)
  BY <1>7 DEF OnTheWay
<1>9. o.doc = c /\ o.self = s
  OBVIOUS
<1> HIDE DEF o, d, at, r
<1>10. ASSUME NEW l \in DOMAIN new, NEW x \in new[l].allowed
       PROVE  \E q \in os \cup {o}, w \in Commit : Serves(n, q, w, l, x)
  <2>1. \/ l \in DOMAIN old /\ x \in old[l].allowed
        \/ \A ip \in x : NextHop(d, at, r, ip) = l
    BY <1>1, <1>7, NothingElse
  <2>2. CASE l \in DOMAIN old /\ x \in old[l].allowed
    <3>1. \E q \in os, w \in Commit : Serves(n, q, w, l, x)
      BY <2>2, Zenon DEF DeviceOK
    <3> QED
      BY <3>1, Zenon
  <2>3. CASE \A ip \in x : NextHop(d, at, r, ip) = l
    <3>1. Serves(n, o, v, l, x)
      BY <1>9, <2>3, Zenon DEF Serves, d, at, r
    <3> QED
      BY <3>1, Zenon
  <2> QED
    BY <2>1, <2>2, <2>3
<1> QED
  BY <1>8, <1>10, Zenon DEF DeviceOK, o

(* k is the next hop of node n for an address in one of these cycles. *)
HopOf(n, os, k, ip) ==
  \E o \in os, v \in Commit :
    n \in Declared(o.self) /\ k = NextHop(DocAt(o.doc), Is(o.self, n), Shown(v), ip)

(* Where such a device sends an address is the next hop of one of these    *)
(* cycles.                                                                 *)
LEMMA RouteFrom ==
  ASSUME NEW n, NEW dv, NEW os, DeviceOK(n, dv, os), NEW ip, Route(dv, ip) # ""
  PROVE  HopOf(n, os, Route(dv, ip), ip)
<1> DEFINE k == Route(dv, ip)
<1>1. IsDevice(dv, DialledAt)
  BY Zenon DEF DeviceOK
<1>2. k \in Holders(dv, ip)
  BY <1>1, RouteHolds, Zenon
<1> HIDE DEF k
<1>3. PICK x \in dv[k].allowed : k \in DOMAIN dv /\ ip \in x
  BY <1>2, Zenon DEF Holders
<1>4. PICK o \in os, v \in Commit : Serves(n, o, v, k, x)
  BY <1>3, Zenon DEF DeviceOK
<1> QED
  BY <1>3, <1>4, Zenon DEF Serves, HopOf, k

(* What is listed of a sequence is in it. *)
LEMMA ListedFrom ==
  ASSUME NEW t, NEW s, NEW I, Lists(t, s, I)
  PROVE  \A x \in Range(t) : \E i \in I : x = s[i]
<1>1. PICK at \in [DOMAIN t -> I] : \A j \in DOMAIN t : t[j] = s[at[j]]
  BY DEF Lists
<1> QED
  BY <1>1 DEF Range

(* Every node is registered and every hub can be dialled: PeersFor has no  *)
(* reason to fail for a document, a node and a registry of one commit.     *)
LEMMA DesiredOK ==
  ASSUME edit \in DOMAIN Edits, NEW c \in Commit, NEW n \in Declared(c)
  PROVE  Desired(n, c, c, c).ok
<1> DEFINE d == DocAt(c)
           at == Is(c, n)
           infos == byName(Shown(c))
           dns == [m \in Nodes |-> m]
           keepalive == d.persistentKeepalive
<1>1. Desired(n, c, c, c) = PeersFor(d, at, Shown(c), keepalive, dns)
  BY Zenon DEF Desired, Shown
<1>2. /\ DOMAIN infos = Declared(c)
      /\ \A m \in Declared(c) : infos[m] = [name |-> m, publicKey |-> m, endpoint |-> m]
  BY ShownFact
<1>3. Declared(c) \subseteq Nodes
  BY DEF Declared
<1>4. ASSUME NEW m \in DOMAIN infos PROVE infos[m].publicKey # BadKey /\ Dialable(infos[m], dns)
  <2>1. infos[m].publicKey = m /\ infos[m].endpoint = m
    BY <1>2, <1>4
  <2>2. m \in Nodes /\ m # "" /\ m # BadKey /\ m # NoAddr /\ m # BadAddr
    BY <1>2, <1>3, <1>4, NodesAssumption, Zenon
  <2>3. resolveEndpoint(dns, m) = m
    BY <2>2, Zenon DEF resolveEndpoint
  <2> HIDE DEF infos, dns
  <2> QED
    BY <2>1, <2>2, <2>3, Zenon DEF Dialable
<1>5. Parsed(d)
  BY DocFacts
<1>6. IsSelf(at, d, n)
  BY DeclaredIs
<1>7. \A ps : Success(ps).ok
  BY DEF Success
<1> HIDE DEF d, at, infos, dns, keepalive
<1>8. CASE at.role = "spoke"
  <2>1. PICK b \in DOMAIN d.agents : d.agents[b].hub = at.hubName
    BY <1>6, <1>8, Zenon DEF IsSelf, AgentOf
  <2>2. PICK a \in DOMAIN d.hubs : d.hubs[a].name = at.hubName
    BY <1>5, <2>1, AgentsHaveHubs, Zenon
  <2>3. at.hubName \in DOMAIN infos
    BY <1>2, <2>2, DeclaredIs, Zenon DEF d
  <2>4. \E ps : spokePeers(at, infos, d.cidr, keepalive, dns) = Success(ps)
    BY <1>4, <2>3, Zenon DEF spokePeers
  <2>5. PeersFor(d, at, Shown(c), keepalive, dns) = spokePeers(at, infos, d.cidr, keepalive, dns)
    BY <1>8 DEF PeersFor, infos
  <2> QED
    BY <1>1, <1>7, <2>4, <2>5, Zenon
<1>9. CASE at.role # "spoke"
  <2> DEFINE I == {i \in DOMAIN d.hubs : d.hubs[i].name # at.name /\ d.hubs[i].name \in DOMAIN infos}
             J == {i \in DOMAIN d.agents : d.agents[i].hub = at.name /\ d.agents[i].name \in DOMAIN infos}
             hubs == Selected(d.hubs, I)
             spokes == Selected(d.agents, J)
             ok == /\ \A h \in Range(hubs) : Dialable(infos[h.name], dns)
                   /\ \A a \in Range(spokes) : infos[a.name].publicKey # BadKey
  <2>1. ok => \E ps : hubPeers(d, at, infos, keepalive, dns) = Success(ps)
    BY Zenon DEF hubPeers
  <2>2. PeersFor(d, at, Shown(c), keepalive, dns) = hubPeers(d, at, infos, keepalive, dns)
    BY <1>9 DEF PeersFor, infos
  <2>3. /\ d.hubs \in Seq(Range(d.hubs)) /\ d.agents \in Seq(Range(d.agents))
        /\ I \in SUBSET DOMAIN d.hubs /\ J \in SUBSET DOMAIN d.agents
    BY <1>5, AddressesNat
  <2>4. Lists(hubs, d.hubs, I) /\ Lists(spokes, d.agents, J)
    <3> HIDE DEF I, J
    <3> QED  BY <2>3, SelectedLists
  <2> HIDE DEF hubs, spokes
  <2>5. \A h \in Range(hubs) : \E i \in I : h = d.hubs[i]
    BY <2>4, ListedFrom
  <2>6. \A a \in Range(spokes) : \E i \in J : a = d.agents[i]
    BY <2>4, ListedFrom
  <2>7. /\ \A h \in Range(hubs) : h.name \in DOMAIN infos
        /\ \A a \in Range(spokes) : a.name \in DOMAIN infos
    <3>1. \A i \in I : d.hubs[i].name \in DOMAIN infos
      BY Zenon
    <3>2. \A i \in J : d.agents[i].name \in DOMAIN infos
      BY Zenon
    <3> QED
      BY <2>5, <2>6, <3>1, <3>2, Zenon
  <2>8. ok
    BY <1>4, <2>7, Zenon
  <2> QED
    BY <1>1, <1>7, <2>1, <2>2, <2>8, Zenon
<1> QED
  BY <1>8, <1>9

(* A next hop is a node, or none. *)
LEMMA HopTyped ==
  ASSUME NEW d, NEW at, NEW v, NEW ip
  PROVE  NextHop(d, at, Shown(v), ip) \in Nodes \cup {""}
<1>1. \A p \in Shown(v) : p.publicKey \in Nodes
  BY DEF Shown, Declared
<1>2. \E K : /\ \A k \in K : \E p \in Shown(v) : k = p.publicKey
             /\ NextHop(d, at, Shown(v), ip) = IF K = {} THEN "" ELSE CHOOSE k \in K : TRUE
  BY Zenon DEF NextHop
<1>3. PICK K : /\ \A k \in K : \E p \in Shown(v) : k = p.publicKey
               /\ NextHop(d, at, Shown(v), ip) = IF K = {} THEN "" ELSE CHOOSE k \in K : TRUE
  BY <1>2, Zenon
<1>4. \A k \in K : k \in Nodes
  BY <1>1, <1>3, Zenon
<1>5. K # {} => (CHOOSE k \in K : TRUE) \in K
  OBVIOUS
<1> QED
  BY <1>3, <1>4, <1>5, Zenon

(* So is where a device sends an address. *)
LEMMA RoutesTyped ==
  ASSUME NEW n, NEW dv, NEW os, DeviceOK(n, dv, os)
  PROVE  RoutesOf(dv) \in [Address -> Nodes \cup {""}]
<1>1. ASSUME NEW ip PROVE Route(dv, ip) \in Nodes \cup {""}
  <2>1. CASE Route(dv, ip) = ""
    BY <2>1
  <2>2. CASE Route(dv, ip) # ""
    <3>1. PICK o \in os, v \in Commit :
                 Route(dv, ip) = NextHop(DocAt(o.doc), Is(o.self, n), Shown(v), ip)
      <4>1. HopOf(n, os, Route(dv, ip), ip)
        BY <2>2, RouteFrom, Zenon
      <4> QED
        BY <4>1, Zenon DEF HopOf
    <3> QED
      BY <3>1, HopTyped, Zenon
  <2> QED
    BY <2>1, <2>2
<1> QED
  BY <1>1, Zenon DEF RoutesOf

(* An ACL is about flows. *)
LEMMA DropsTyped == \A c : DropsOf(c) \subseteq Flow
BY DEF DropsOf

-----------------------------------------------------------------------------
(* The inductive invariant: the types, and what holds of each node. *)
Typed ==
  /\ edit \in DOMAIN Edits /\ head \in Commit /\ srv \in Commit
  /\ self \in [Nodes -> 0..2] /\ addrs \in [Nodes -> SUBSET Address]
  /\ routed \in [Nodes -> SUBSET Address]
  /\ DOMAIN dev = Nodes /\ cycles \in [Nodes -> SUBSET [doc : Commit, self : Commit]]
  /\ due \in [Nodes -> 0..2] /\ acl \in [Nodes -> 0..2] /\ drops \in [Nodes -> SUBSET Flow]
  /\ faults \in 0..MaxFaults[edit]

NodeOK(n) ==
  /\ self[n] # 0 => n \in Declared(self[n])
  /\ DeviceOK(n, dev[n], cycles[n])
  /\ acl[n] # 0 => drops[n] = DropsOf(acl[n])

IInv == Typed /\ \A n \in Nodes : NodeOK(n)

(* The documents stay as they are, and what is computed from them. *)
LEMMA Unedited ==
  ASSUME edit' = edit
  PROVE  /\ \A c : Declared(c)' = Declared(c) /\ DropsOf(c)' = DropsOf(c)
         /\ \A n, dv, os : DeviceOK(n, dv, os)' <=> DeviceOK(n, dv, os)
<1>1. \A c : DocAt(c)' = DocAt(c)
  BY DEF DocAt
<1>2. \A c, n : Is(c, n)' = Is(c, n)
  BY Zenon DEF Is, Selves
<1>3. \A c : Declared(c)' = Declared(c)
  BY <1>2, Zenon DEF Declared
<1>4. \A c : DropsOf(c)' = DropsOf(c)
  BY <1>1, Zenon DEF DropsOf
<1>5. \A v : Shown(v)' = Shown(v)
  BY <1>3, Zenon DEF Shown
<1>6. \A n, o, v, k, x : Serves(n, o, v, k, x)' <=> Serves(n, o, v, k, x)
  BY <1>1, <1>2, <1>3, <1>5, Zenon DEF Serves
<1>7. ASSUME NEW n, NEW dv, NEW os PROVE DeviceOK(n, dv, os)' <=> DeviceOK(n, dv, os)
  BY <1>6, Zenon DEF DeviceOK
<1> QED
  BY <1>3, <1>4, <1>7, Zenon

(* NodeOK after a step, in terms of the documents as they were. *)
NodeMade(n) ==
  /\ self'[n] # 0 => n \in Declared(self'[n])
  /\ DeviceOK(n, dev'[n], cycles'[n])
  /\ acl'[n] # 0 => drops'[n] = DropsOf(acl'[n])

(* No step changes the documents, so it is NodeOK after the step. *)
LEMMA NodeIsMade ==
  ASSUME edit' = edit, NEW n, NodeMade(n)
  PROVE  NodeOK(n)'
<1>1. /\ \A c : Declared(c)' = Declared(c) /\ DropsOf(c)' = DropsOf(c)
      /\ \A dv, os : DeviceOK(n, dv, os)' <=> DeviceOK(n, dv, os)
  BY Unedited
<1> QED
  BY <1>1, Zenon DEF NodeOK, NodeMade

(* A node that a step leaves alone, or that only ends. *)
LEMMA NodeKept ==
  ASSUME edit' = edit, NEW n, NodeOK(n), self'[n] = self[n] \/ self'[n] = 0,
         dev'[n] = dev[n], cycles'[n] = cycles[n], acl'[n] = acl[n], drops'[n] = drops[n]
  PROVE  NodeOK(n)'
<1>1. self'[n] # 0 => n \in Declared(self'[n])
  BY DEF NodeOK
<1>2. DeviceOK(n, dev'[n], cycles'[n])
  BY Zenon DEF NodeOK
<1>3. acl'[n] # 0 => drops'[n] = DropsOf(acl'[n])
  BY Zenon DEF NodeOK
<1>4. NodeMade(n)
  BY <1>1, <1>2, <1>3, Zenon DEF NodeMade
<1> QED
  BY <1>4, NodeIsMade

(* A node's address is one of the overlay (FindSelf). *)
LEMMA AddressOf ==
  ASSUME edit \in DOMAIN Edits, NEW c \in Commit, NEW n \in Declared(c)
  PROVE  Is(c, n).tunnelIP \in Address /\ Is(c, n).tunnelIP \in DocAt(c).cidr
<1>1. Is(c, n).tunnelIP \in DocAt(c).cidr
  BY DeclaredIs, Zenon DEF IsSelf
<1> QED
  BY <1>1, DocFacts, Zenon

(* The network starts at rest. *)
LEMMA InitOK == Init => IInv
<1> SUFFICES ASSUME Init PROVE IInv
  OBVIOUS
<1>1. edit \in DOMAIN Edits /\ head = 1 /\ srv = 1 /\ faults = 0 /\ 1 \in Commit
  BY DEF Init, Commit
<1>2. MaxFaults[edit] \in Nat
  BY <1>1, EditsAssumption
<1>3. self \in [Nodes -> 0..2] /\ acl \in [Nodes -> 0..2] /\ due \in [Nodes -> 0..2]
  BY DEF Init
<1>4. addrs \in [Nodes -> SUBSET Address]
  <2>1. \A n \in Declared(1) : Is(1, n).tunnelIP \in Address
    BY <1>1, AddressOf
  <2> QED
    BY <2>1 DEF Init
<1>12. routed \in [Nodes -> SUBSET Address]
  <2>1. DocAt(1).cidr \subseteq Address
    BY <1>1, DocFacts
  <2> QED
    BY <2>1 DEF Init
<1>5. drops \in [Nodes -> SUBSET Flow]
  BY DropsTyped DEF Init
<1> DEFINE first == [doc |-> 1, self |-> 1]
<1>6. first \in [doc : Commit, self : Commit]
  BY <1>1
<1>7. cycles = [n \in Nodes |-> IF n \in Declared(1) THEN {first} ELSE {}]
  BY DEF Init
<1> HIDE DEF first
<1>8. cycles \in [Nodes -> SUBSET [doc : Commit, self : Commit]]
  BY <1>6, <1>7
<1>9. /\ DOMAIN dev = Nodes
      /\ \A n \in Nodes : dev[n] = IF n \in Declared(1)
                                   THEN Configured(EmptyDevice, Desired(n, 1, 1, 1).peers) ELSE EmptyDevice
  BY Zenon DEF Init
<1>10. Typed
  <2>1. faults \in 0..MaxFaults[edit]
    BY <1>1, <1>2
  <2> QED
    BY <1>1, <1>3, <1>4, <1>5, <1>8, <1>9, <1>12, <2>1, Zenon DEF Typed
<1>11. ASSUME NEW n \in Nodes PROVE NodeOK(n)
  <2>1. self[n] = IF n \in Declared(1) THEN 1 ELSE 0
    BY DEF Init
  <2>2. self[n] # 0 => self[n] = 1 /\ n \in Declared(1)
    BY <2>1
  <2>3. DeviceOK(n, dev[n], cycles[n])
    <3>1. CASE n \in Declared(1)
      <4>1. Desired(n, 1, 1, 1).ok
        BY <1>1, <3>1, DesiredOK, Zenon
      <4>2. IsDevice(EmptyDevice, DialledAt) /\ Disjoint(EmptyDevice)
        BY EmptyOK, Zenon DEF DeviceOK
      <4>3. dev[n] = Configured(EmptyDevice, Desired(n, 1, 1, 1).peers) /\ cycles[n] = {first}
        BY <1>7, <1>9, <3>1, Zenon
      <4>4. DeviceOK(n, dev[n], {[doc |-> 1, self |-> 1]})
        <5>1. DeviceOK(n, Configured(EmptyDevice, Desired(n, 1, 1, 1).peers), {[doc |-> 1, self |-> 1]})
          BY <1>1, <3>1, <4>1, <4>2, WhollyServes, Zenon
        <5> QED
          BY <4>3, <5>1, Zenon
      <4> QED
        BY <4>3, <4>4, Zenon DEF first
    <3>2. CASE n \notin Declared(1)
      <4>1. dev[n] = EmptyDevice
        BY <1>9, <3>2, Zenon
      <4> QED
        BY <4>1, EmptyOK, Zenon
    <3> QED
      BY <3>1, <3>2
  <2>4. /\ acl[n] = IF Is(1, n).role = "hub" THEN 1 ELSE 0
        /\ drops[n] = IF Is(1, n).role = "hub" THEN DropsOf(1) ELSE {}
    BY Zenon DEF Init
  <2>5. acl[n] # 0 => acl[n] = 1 /\ drops[n] = DropsOf(1)
    BY <2>4
  <2> QED
    BY <2>2, <2>3, <2>5, Zenon DEF NodeOK
<1> QED
  BY <1>10, <1>11 DEF IInv

(* A commit and a node's variables, in the terms a step speaks of. *)
LEMMA CommitFacts ==
  /\ \A c : c \in 0..2 /\ c # 0 => c \in Commit
  /\ \A c \in Commit : c \in 0..2 /\ c # 0
BY DEF Commit

(* The bound on failures is not exceeded. *)
LEMMA FaultsBounded ==
  ASSUME Typed, faults < MaxFaults[edit], faults' = faults + 1
  PROVE  faults' \in 0..MaxFaults[edit]
<1>1. MaxFaults[edit] \in Nat
  BY EditsAssumption, Zenon DEF Typed
<1>2. faults \in 0..MaxFaults[edit]
  BY Zenon DEF Typed
<1> QED
  BY <1>1, <1>2

(* A request makes the peers of one node, wholly or partly. *)
LEMMA PeersMade ==
  ASSUME IInv, NEW n \in Nodes, NEW new, NEW os \in SUBSET [doc : Commit, self : Commit],
         DeviceOK(n, new, os), dev' = [dev EXCEPT ![n] = new], cycles' = [cycles EXCEPT ![n] = os],
         due' \in [Nodes -> 0..2], faults' \in 0..MaxFaults[edit],
         UNCHANGED <<edit, head, srv, self, addrs, routed, acl, drops>>
  PROVE  IInv'
<1>1. Typed /\ \A m \in Nodes : NodeOK(m)
  BY DEF IInv
<1>2. DOMAIN dev = Nodes /\ cycles \in [Nodes -> SUBSET [doc : Commit, self : Commit]]
  BY <1>1, Zenon DEF Typed
<1>3. /\ DOMAIN dev' = Nodes /\ dev'[n] = new /\ \A m \in Nodes : m # n => dev'[m] = dev[m]
      /\ cycles' \in [Nodes -> SUBSET [doc : Commit, self : Commit]]
      /\ cycles'[n] = os /\ \A m \in Nodes : m # n => cycles'[m] = cycles[m]
  BY <1>2, Zenon
<1>4. Typed'
  BY <1>1, <1>3, Zenon DEF Typed
<1>5. ASSUME NEW m \in Nodes PROVE NodeOK(m)'
  <2>1. CASE m = n
    <3>1. NodeMade(m)
      BY <1>1, <1>3, <2>1, Zenon DEF NodeOK, NodeMade
    <3> QED
      BY <3>1, NodeIsMade
  <2>2. CASE m # n
    BY <1>1, <1>3, <2>2, NodeKept, Zenon
  <2> QED
    BY <2>1, <2>2
<1> QED
  BY <1>4, <1>5, Zenon DEF IInv

(* Every action keeps it. *)
LEMMA StepOK == IInv /\ [Next]_vars => IInv'
<1> SUFFICES ASSUME IInv, [Next]_vars PROVE IInv'
  OBVIOUS
<1>0. Typed
  BY DEF IInv
<1>1. /\ edit \in DOMAIN Edits /\ head \in Commit /\ srv \in Commit
      /\ self \in [Nodes -> 0..2] /\ addrs \in [Nodes -> SUBSET Address]
      /\ routed \in [Nodes -> SUBSET Address]
      /\ DOMAIN dev = Nodes /\ cycles \in [Nodes -> SUBSET [doc : Commit, self : Commit]]
      /\ due \in [Nodes -> 0..2] /\ acl \in [Nodes -> 0..2] /\ drops \in [Nodes -> SUBSET Flow]
      /\ faults \in 0..MaxFaults[edit]
  BY <1>0, Zenon DEF Typed
<1>2. \A n \in Nodes : NodeOK(n)
  BY DEF IInv
<1>3. CASE UNCHANGED vars
  <2>1. UNCHANGED <<edit, head, srv, self, addrs, routed, dev, cycles, due, acl, drops, faults>>
    BY <1>3 DEF vars, link, firewall
  <2>2. Typed'
    BY <1>1, <2>1, Zenon DEF Typed
  <2>3. ASSUME NEW n \in Nodes PROVE NodeOK(n)'
    BY <1>2, <2>1, NodeKept, Zenon
  <2> QED
    BY <2>2, <2>3, Zenon DEF IInv
<1>4. CASE Push \/ ServerPulls
  <2>1. /\ UNCHANGED <<edit, self, addrs, routed, dev, cycles, due, acl, drops, faults>>
        /\ head' \in Commit /\ srv' \in Commit
    BY <1>1, <1>4, Zenon DEF Push, ServerPulls, link, firewall, Commit
  <2>2. Typed'
    BY <1>1, <2>1, Zenon DEF Typed
  <2>3. ASSUME NEW n \in Nodes PROVE NodeOK(n)'
    BY <1>2, <2>1, NodeKept, Zenon
  <2> QED
    BY <2>2, <2>3, Zenon DEF IInv
<1>5. ASSUME NEW n \in Nodes, Start(n) PROVE IInv'
  <2>1. /\ UNCHANGED <<edit, head, srv, dev, cycles, due, acl, drops, faults>>
        /\ n \in Declared(head) /\ self' = [self EXCEPT ![n] = head]
        /\ addrs' = [addrs EXCEPT ![n] = @ \cup {Is(head, n).tunnelIP}]
        /\ routed' = [routed EXCEPT ![n] = @ \cup DocAt(head).cidr]
    BY <1>5 DEF Start, firewall
  <2>2. Is(head, n).tunnelIP \in Address
    BY <1>1, <2>1, AddressOf, Zenon
  <2>3. self' \in [Nodes -> 0..2] /\ addrs' \in [Nodes -> SUBSET Address]
    BY <1>1, <2>1, <2>2, CommitFacts, Zenon
  <2>6. routed' \in [Nodes -> SUBSET Address]
    <3>1. DocAt(head).cidr \subseteq Address
      BY <1>1, DocFacts, Zenon
    <3> QED
      BY <1>1, <2>1, <3>1
  <2>4. Typed'
    BY <1>1, <2>1, <2>3, <2>6, Zenon DEF Typed
  <2>5. ASSUME NEW m \in Nodes PROVE NodeOK(m)'
    <3>1. CASE m = n
      <4>1. self'[m] = head /\ m \in Declared(self'[m])
        BY <1>1, <2>1, <3>1, Zenon
      <4>2. NodeMade(m)
        BY <1>2, <2>1, <4>1, Zenon DEF NodeOK, NodeMade
      <4> QED
        BY <2>1, <4>2, NodeIsMade
    <3>2. CASE m # n
      <4>1. self'[m] = self[m]
        BY <1>1, <2>1, <3>2, Zenon
      <4> QED
        BY <1>2, <2>1, <4>1, NodeKept, Zenon
    <3> QED
      BY <3>1, <3>2
  <2> QED
    BY <2>4, <2>5, Zenon DEF IInv
<1>6. ASSUME NEW n \in Nodes, NEW c \in Commit, Cycle(n, c)
      PROVE  /\ self[n] \in Commit /\ n \in Declared(self[n]) /\ DeviceOK(n, dev[n], cycles[n])
             /\ [doc |-> c, self |-> self[n]] \in [doc : Commit, self : Commit]
  <2>1. self[n] # 0
    BY <1>6 DEF Cycle
  <2>2. self[n] \in Commit /\ n \in Declared(self[n]) /\ DeviceOK(n, dev[n], cycles[n])
    BY <1>1, <1>2, <2>1, CommitFacts, Zenon DEF NodeOK
  <2> QED
    BY <2>2
<1>7. ASSUME NEW n \in Nodes, NEW c \in Commit, ApplyPeers(n, c) PROVE IInv'
  <2> DEFINE s == self[n]
             new == Configured(dev[n], Desired(n, c, s, srv).peers)
             os == {[doc |-> c, self |-> s]}
  <2>1. /\ Cycle(n, c) /\ Desired(n, c, s, srv).ok
        /\ dev' = [dev EXCEPT ![n] = new] /\ cycles' = [cycles EXCEPT ![n] = os]
        /\ due' = [due EXCEPT ![n] = IF IsHub(n) THEN c ELSE 0]
        /\ UNCHANGED <<edit, head, srv, self, addrs, routed, acl, drops, faults>>
    BY <1>7, Zenon DEF ApplyPeers, firewall
  <2>2. /\ n \in Declared(s) /\ DeviceOK(n, dev[n], cycles[n])
        /\ os \in SUBSET [doc : Commit, self : Commit]
    BY <1>6, <2>1, Zenon
  <2>3. IsDevice(dev[n], DialledAt) /\ Disjoint(dev[n])
    BY <2>2, Zenon DEF DeviceOK
  <2>4. DeviceOK(n, new, os)
    BY <1>1, <2>1, <2>2, <2>3, WhollyServes, Zenon
  <2>5. due' \in [Nodes -> 0..2]
    <3>1. (IF IsHub(n) THEN c ELSE 0) \in 0..2
      BY DEF Commit
    <3> QED
      BY <1>1, <2>1, <3>1, Zenon
  <2> HIDE DEF new, os
  <2> QED
    BY <1>1, <2>1, <2>2, <2>4, <2>5, PeersMade, Zenon
<1>8. ASSUME NEW n \in Nodes, NEW c \in Commit, ApplyPeersFails(n, c) PROVE IInv'
  <2> DEFINE s == self[n]
             diff == computeDiff(dev[n], Desired(n, c, s, srv).peers)
             made(k, gone) == RemovePeers(ConfigurePeers(dev[n], SubSeq(PeerConfigs(diff), 1, k)), gone)
             os == cycles[n] \cup {[doc |-> c, self |-> s]}
  <2>1. /\ Cycle(n, c) /\ Desired(n, c, s, srv).ok /\ faults < MaxFaults[edit] /\ faults' = faults + 1
        /\ \E k \in 0..Len(PeerConfigs(diff)), gone \in SUBSET diff.removed :
             dev' = [dev EXCEPT ![n] = made(k, gone)]
        /\ cycles' = [cycles EXCEPT ![n] = os]
        /\ UNCHANGED <<edit, head, srv, self, addrs, routed, due, acl, drops>>
    BY <1>8, Zenon DEF ApplyPeersFails, firewall
  <2>2. PICK k \in 0..Len(PeerConfigs(diff)), gone \in SUBSET diff.removed :
               dev' = [dev EXCEPT ![n] = made(k, gone)]
    BY <2>1, Zenon
  <2>3. /\ n \in Declared(s) /\ DeviceOK(n, dev[n], cycles[n])
        /\ [doc |-> c, self |-> s] \in [doc : Commit, self : Commit]
    BY <1>6, <2>1, Zenon
  <2>4. os \in SUBSET [doc : Commit, self : Commit]
    BY <1>1, <2>3
  <2>5. DeviceOK(n, made(k, gone), os)
    BY <1>1, <2>1, <2>3, PartlyMade, Zenon
  <2>6. faults' \in 0..MaxFaults[edit]
    BY <1>0, <2>1, FaultsBounded, Zenon
  <2> HIDE DEF diff, made, os
  <2> QED
    BY <1>1, <2>1, <2>2, <2>4, <2>5, <2>6, PeersMade, Zenon
<1>9. ASSUME NEW n \in Nodes, Enforce(n) PROVE IInv'
  <2>1. /\ UNCHANGED <<edit, head, srv, self, addrs, routed, dev, cycles, faults>>
        /\ acl' = [acl EXCEPT ![n] = due[n]] /\ drops' = [drops EXCEPT ![n] = DropsOf(due[n])]
        /\ due' = [due EXCEPT ![n] = 0]
    BY <1>9 DEF Enforce, link
  <2>2. due' \in [Nodes -> 0..2]
    BY <1>1, <2>1
  <2>3. acl' \in [Nodes -> 0..2] /\ drops' \in [Nodes -> SUBSET Flow]
    BY <1>1, <2>1, DropsTyped, Zenon
  <2>4. Typed'
    BY <1>1, <2>1, <2>2, <2>3, Zenon DEF Typed
  <2>5. ASSUME NEW m \in Nodes PROVE NodeOK(m)'
    <3>1. CASE m = n
      <4>1. acl'[m] = due[m] /\ drops'[m] = DropsOf(due[m])
        BY <1>1, <2>1, <3>1, Zenon
      <4>2. NodeMade(m)
        BY <1>2, <2>1, <4>1, Zenon DEF NodeOK, NodeMade
      <4> QED
        BY <2>1, <4>2, NodeIsMade
    <3>2. CASE m # n
      <4>1. acl'[m] = acl[m] /\ drops'[m] = drops[m]
        BY <1>1, <2>1, <3>2, Zenon
      <4> QED
        BY <1>2, <2>1, <4>1, NodeKept, Zenon
    <3> QED
      BY <3>1, <3>2
  <2> QED
    BY <2>4, <2>5, Zenon DEF IInv
<1>10. ASSUME NEW n \in Nodes, EnforceFails(n) PROVE IInv'
  <2>1. /\ UNCHANGED <<edit, head, srv, self, addrs, routed, dev, cycles>>
        /\ due' = [due EXCEPT ![n] = 0]
        /\ \/ acl' = acl /\ drops' = drops
           \/ acl' = [acl EXCEPT ![n] = 0] /\ drops' = [drops EXCEPT ![n] = {}]
        /\ faults' = faults \/ (faults < MaxFaults[edit] /\ faults' = faults + 1)
    BY <1>10 DEF EnforceFails, link, firewall
  <2>6. faults' \in 0..MaxFaults[edit]
    BY <1>0, <1>1, <2>1, FaultsBounded, Zenon
  <2>2. due' \in [Nodes -> 0..2]
    BY <1>1, <2>1
  <2>3. acl' \in [Nodes -> 0..2] /\ drops' \in [Nodes -> SUBSET Flow]
    <3>1. acl \in [Nodes -> 0..2] /\ drops \in [Nodes -> SUBSET Flow]
      BY <1>1, Zenon
    <3>2. CASE acl' = acl /\ drops' = drops
      BY <3>1, <3>2, Zenon
    <3>3. CASE acl' = [acl EXCEPT ![n] = 0] /\ drops' = [drops EXCEPT ![n] = {}]
      BY <3>1, <3>3
    <3> QED
      BY <2>1, <3>2, <3>3, Zenon
  <2>4. Typed'
    BY <1>1, <2>1, <2>2, <2>3, <2>6, Zenon DEF Typed
  <2>5. ASSUME NEW m \in Nodes PROVE NodeOK(m)'
    <3>1. CASE acl'[m] = acl[m] /\ drops'[m] = drops[m]
      BY <1>2, <2>1, <3>1, NodeKept, Zenon
    <3>2. CASE acl'[m] = 0
      <4>1. NodeMade(m)
        BY <1>2, <2>1, <3>2, Zenon DEF NodeOK, NodeMade
      <4> QED
        BY <2>1, <4>1, NodeIsMade
    <3>3. acl'[m] = 0 \/ (acl'[m] = acl[m] /\ drops'[m] = drops[m])
      BY <1>1, <2>1, Zenon
    <3> QED
      BY <3>1, <3>2, <3>3
  <2> QED
    BY <2>4, <2>5, Zenon DEF IInv
<1>11. ASSUME NEW n \in Nodes, Ends(n)
       PROVE  /\ UNCHANGED <<edit, head, srv>>
              /\ self' \in [Nodes -> 0..2] /\ self'[n] = 0 /\ \A m \in Nodes \ {n} : self'[m] = self[m]
              /\ due' \in [Nodes -> 0..2]
  <2>1. /\ UNCHANGED <<edit, head, srv>>
        /\ self' = [self EXCEPT ![n] = 0] /\ due' = [due EXCEPT ![n] = 0]
    BY <1>11 DEF Ends
  <2>3. self' \in [Nodes -> 0..2] /\ self'[n] = 0 /\ \A m \in Nodes \ {n} : self'[m] = self[m]
    <3>1. self \in [Nodes -> 0..2] /\ self' = [self EXCEPT ![n] = 0]
      BY <1>1, <2>1, Zenon
    <3> QED
      BY <3>1
  <2>4. due' \in [Nodes -> 0..2]
    <3>1. due \in [Nodes -> 0..2] /\ due' = [due EXCEPT ![n] = 0]
      BY <1>1, <2>1, Zenon
    <3> QED
      BY <3>1
  <2> QED
    BY <2>1, <2>3, <2>4, Zenon
<1>12. ASSUME NEW n \in Nodes, Crash(n) PROVE IInv'
  <2>1. /\ Ends(n) /\ UNCHANGED <<addrs, routed, dev, cycles, acl, drops>>
        /\ faults < MaxFaults[edit] /\ faults' = faults + 1
    BY <1>12 DEF Crash, link, firewall
  <2>4. faults' \in 0..MaxFaults[edit]
    BY <1>0, <2>1, FaultsBounded, Zenon
  <2>2. Typed'
    BY <1>1, <1>11, <2>1, <2>4, Zenon DEF Typed
  <2>3. ASSUME NEW m \in Nodes PROVE NodeOK(m)'
    <3>1. self'[m] = self[m] \/ self'[m] = 0
      BY <1>11, <2>1, Zenon
    <3> QED
      BY <1>2, <1>11, <2>1, <3>1, NodeKept, Zenon
  <2> QED
    BY <2>2, <2>3, Zenon DEF IInv
<1>13. ASSUME NEW n \in Nodes, Shutdown(n) PROVE IInv'
  <2>1. /\ Ends(n)
        /\ \/ faults < MaxFaults[edit] /\ faults' = faults + 1
           \/ faults' = faults
        /\ addrs' = [addrs EXCEPT ![n] = {}] /\ routed' = [routed EXCEPT ![n] = {}]
        /\ cycles' = [cycles EXCEPT ![n] = {}] /\ dev' = [dev EXCEPT ![n] = EmptyDevice]
        /\ acl' = [acl EXCEPT ![n] = 0] /\ drops' = [drops EXCEPT ![n] = {}]
    BY <1>13, Zenon DEF Shutdown
  <2>8. faults' \in 0..MaxFaults[edit]
    BY <1>0, <1>1, <2>1, FaultsBounded, Zenon
  <2>2. addrs' \in [Nodes -> SUBSET Address] /\ routed' \in [Nodes -> SUBSET Address]
    <3>1. /\ addrs \in [Nodes -> SUBSET Address] /\ addrs' = [addrs EXCEPT ![n] = {}]
          /\ routed \in [Nodes -> SUBSET Address] /\ routed' = [routed EXCEPT ![n] = {}]
      BY <1>1, <2>1, Zenon
    <3> QED
      BY <3>1
  <2>3. /\ DOMAIN dev' = Nodes /\ dev'[n] = EmptyDevice
        /\ \A m \in Nodes : m # n => dev'[m] = dev[m] /\ cycles'[m] = cycles[m]
    BY <1>1, <2>1, Zenon
  <2>4. cycles' \in [Nodes -> SUBSET [doc : Commit, self : Commit]]
    <3>1. \A S : cycles \in [Nodes -> SUBSET S] => [cycles EXCEPT ![n] = {}] \in [Nodes -> SUBSET S]
      OBVIOUS
    <3> QED
      BY <1>1, <2>1, <3>1, Zenon
  <2>5. acl' \in [Nodes -> 0..2] /\ drops' \in [Nodes -> SUBSET Flow]
    <3>1. /\ acl \in [Nodes -> 0..2] /\ acl' = [acl EXCEPT ![n] = 0]
          /\ drops \in [Nodes -> SUBSET Flow] /\ drops' = [drops EXCEPT ![n] = {}]
      BY <1>1, <2>1, Zenon
    <3> QED
      BY <3>1
  <2>6. Typed'
    BY <1>1, <1>11, <2>1, <2>2, <2>3, <2>4, <2>5, <2>8, Zenon DEF Typed
  <2>7. ASSUME NEW m \in Nodes PROVE NodeOK(m)'
    <3>1. CASE m = n
      <4>1. acl'[m] = 0 /\ self'[m] = 0
        BY <1>1, <1>11, <2>1, <3>1, Zenon
      <4>2. NodeMade(m)
        BY <2>3, <3>1, <4>1, EmptyOK, Zenon DEF NodeMade
      <4> QED
        BY <1>11, <2>1, <4>2, NodeIsMade
    <3>2. CASE m # n
      <4>1. acl'[m] = acl[m] /\ drops'[m] = drops[m]
        BY <1>1, <2>1, <3>2, Zenon
      <4>2. self'[m] = self[m] /\ edit' = edit
        BY <1>11, <2>1, <3>2, Zenon
      <4> QED
        BY <1>2, <2>3, <3>2, <4>1, <4>2, NodeKept, Zenon
    <3> QED
      BY <3>1, <3>2
  <2> QED
    BY <2>6, <2>7, Zenon DEF IInv
<1> QED
  BY <1>3, <1>4, <1>5, <1>7, <1>8, <1>9, <1>10, <1>12, <1>13, Zenon DEF Next

(* The invariant holds in every reachable state. *)
LEMMA Invariant == Spec => []IInv
BY InitOK, StepOK, PTL DEF Spec

(* Every variable keeps its type, whatever the documents and however often *)
(* the nodes pull, restart and fail (FindSelf's error is not ignored).     *)
THEOREM TypeCorrect == Spec => []TypeOK
<1>1. IInv => TypeOK
  <2> SUFFICES ASSUME IInv PROVE TypeOK
    OBVIOUS
  <2>1. Typed /\ \A n \in Nodes : DeviceOK(n, dev[n], cycles[n])
    BY DEF IInv, NodeOK
  <2>2. \A n \in Nodes : RoutesOf(dev[n]) \in [Address -> Nodes \cup {""}]
    BY <2>1, RoutesTyped, Zenon
  <2> QED
    BY <2>1, <2>2, Zenon DEF Typed, TypeOK
<1> QED
  BY <1>1, Invariant, PTL

-----------------------------------------------------------------------------
(* To a spoke's hub, or to a hub's next hop by a document. *)
Leads(n, c, s, x, ip) ==
  \/ Is(s, n).role = "spoke" /\ x = Is(s, n).hubName
  \/ Is(s, n).role = "hub" /\ Hop(DocAt(c), n, x, ip)

(* That is where a node sends what it has a route for. *)
LEMMA RouteLeads ==
  ASSUME edit \in DOMAIN Edits, NEW c \in Commit, NEW s \in Commit, NEW v, NEW n \in Declared(s),
         NEW ip, NEW x, x = NextHop(DocAt(c), Is(s, n), Shown(v), ip), x # ""
  PROVE  Leads(n, c, s, x, ip)
<1> DEFINE d == DocAt(c)
           at == Is(s, n)
           r == Shown(v)
<1>1. x = NextHop(d, at, r, ip)
  BY Zenon
<1>2. Parsed(d)
  BY DocFacts, Zenon
<1>3. /\ DistinctEntries(r) /\ DOMAIN byName(r) = Declared(v)
      /\ \A m \in Declared(v) : byName(r)[m] = [name |-> m, publicKey |-> m, endpoint |-> m]
  BY ShownFact, Zenon
<1>4. \A m \in DOMAIN byName(r) : byName(r)[m].publicKey = m
  <2>1. \A m : [name |-> m, publicKey |-> m, endpoint |-> m].publicKey = m
    BY Zenon
  <2> QED
    BY <1>3, <2>1, Zenon
<1>5. at.name = n /\ at.role \in {"hub", "spoke"}
  BY DeclaredIs, Zenon DEF IsSelf
<1>6. \A p \in r : p.publicKey = p.name
  <2>1. \A m : /\ [name |-> m, publicKey |-> m, endpoint |-> m].publicKey = m
               /\ [name |-> m, publicKey |-> m, endpoint |-> m].name = m
    BY Zenon
  <2>2. \A p \in r : \E m : p = [name |-> m, publicKey |-> m, endpoint |-> m]
    BY Zenon DEF Shown
  <2> QED
    BY <2>1, <2>2, Zenon
<1> HIDE DEF d, at, r
<1>7. CASE at.role = "spoke"
  <2> DEFINE nodes == IF ip \in d.cidr THEN {at.hubName} ELSE {}
             keys == {p.publicKey : p \in {q \in r : q.name \in nodes}}
  <2>1. x = IF keys = {} THEN "" ELSE CHOOSE k \in keys : TRUE
    BY <1>1, <1>7, Zenon DEF NextHop
  <2>2. x \in keys
    BY <2>1, Zenon
  <2>3. x = at.hubName
    BY <1>6, <2>2, Zenon
  <2> QED
    BY <1>7, <2>3, Zenon DEF at, Leads
<1>8. CASE at.role = "hub"
  <2> DEFINE hop == NextHop(d, at, r, ip)
             infos == byName(r)
  <2>1. /\ (~\E m : Hop(d, at.name, m, ip)) => hop = ""
        /\ \A m : Hop(d, at.name, m, ip) => hop = IF m \in DOMAIN infos THEN infos[m].publicKey ELSE ""
    <3>1. at.role # "spoke"
      BY <1>8, Zenon
    <3>2. DistinctEntries(r)
      BY <1>3, Zenon
    <3> HIDE DEF hop
    <3> QED
      BY <1>2, <3>1, <3>2, HubNextHop, Zenon DEF hop
  <2> HIDE DEF hop, infos
  <2>2. hop = x /\ \A m \in DOMAIN infos : infos[m].publicKey = m
    BY <1>1, <1>4, Zenon DEF hop, infos
  <2>3. PICK m : Hop(d, n, m, ip)
    BY <1>5, <2>1, <2>2, Zenon
  <2>4. x = m
    BY <1>5, <2>1, <2>2, <2>3, Zenon
  <2>5. Hop(d, n, x, ip)
    BY <2>3, <2>4, Zenon
  <2> QED
    BY <1>8, <2>5, Zenon DEF at, d, Leads
<1> QED
  BY <1>5, <1>7, <1>8, Zenon

(* A next hop speaks for the node that the address is of. *)
LEMMA HopBehind ==
  ASSUME edit \in DOMAIN Edits, NEW c \in Commit, NEW me, NEW x, NEW ip, Hop(DocAt(c), me, x, ip)
  PROVE  \E m \in Behind(c, x) : Is(c, m).tunnelIP = ip
<1> DEFINE d == DocAt(c)
<1>1. Parsed(d)
  BY DocFacts
<1>2. Behind(c, x) = {m \in Declared(c) : x = m \/ x = Is(c, m).hubName}
  BY DEF Behind
<1>3. CASE \E b \in DOMAIN d.agents :
             /\ d.agents[b].tunnelIP = ip
             /\ x = IF d.agents[b].hub = me THEN d.agents[b].name ELSE d.agents[b].hub
  <2>1. PICK b \in DOMAIN d.agents :
               /\ d.agents[b].tunnelIP = ip
               /\ x = IF d.agents[b].hub = me THEN d.agents[b].name ELSE d.agents[b].hub
    BY <1>3
  <2> DEFINE m == d.agents[b].name
             hub == d.agents[b].hub
  <2>2. m \in Declared(c)
    BY DeclaredIs, Zenon
  <2>3. Is(c, m) = [name |-> m, role |-> "spoke", tunnelIP |-> d.agents[b].tunnelIP, hubName |-> hub]
    BY <1>1, <2>2, SelfFound, IsFound, Zenon
  <2>4. x = m \/ x = hub
    BY <2>1, Zenon
  <2>5. Is(c, m) = [name |-> m, role |-> "spoke", tunnelIP |-> ip, hubName |-> hub]
    BY <2>1, <2>3, Zenon
  <2> HIDE DEF m, hub
  <2>6. Is(c, m).tunnelIP = ip /\ Is(c, m).hubName = hub
    BY <2>5
  <2> QED
    BY <1>2, <2>2, <2>4, <2>6, Zenon
<1>4. CASE \E a \in DOMAIN d.hubs : d.hubs[a].tunnelIP = ip /\ d.hubs[a].name # me /\ x = d.hubs[a].name
  <2>1. PICK a \in DOMAIN d.hubs : d.hubs[a].tunnelIP = ip /\ x = d.hubs[a].name
    BY <1>4
  <2>2. x \in Declared(c)
    BY <2>1, DeclaredIs, Zenon
  <2>3. Is(c, x) = [name |-> x, role |-> "hub", tunnelIP |-> ip, hubName |-> ""]
    BY <1>1, <2>1, <2>2, SelfFound, IsFound, Zenon
  <2>4. Is(c, x).tunnelIP = ip
    <3>1. \A m, y : [name |-> m, role |-> "hub", tunnelIP |-> y, hubName |-> ""].tunnelIP = y
      OBVIOUS
    <3> QED
      BY <2>3, <3>1, Zenon
  <2> QED
    BY <1>2, <2>2, <2>4, Zenon
<1> QED
  BY <1>3, <1>4, Zenon DEF Hop

(* A way visits no node twice, so that nothing is lost by looking only at  *)
(* the paths: a device takes the packets of one source from one peer only, *)
(* and the kernel takes none from itself.                                  *)
LEMMA NoNodeTwice ==
  ASSUME NEW k \in Nat, NEW p \in [1..k -> Nodes], NEW f, f[1] \in addrs[p[1]],
         \A i \in 1..(k - 1) : Hands(p[i], p[i + 1], f)
  PROVE  \A i, j \in 1..k : p[i] = p[j] => i = j
<1> DEFINE Again == {i \in 1..k : \E j \in 1..k : i < j /\ p[i] = p[j]}
<1>1. SUFFICES Again = {}
  BY DEF Again
<1>2. SUFFICES ASSUME Again # {} PROVE FALSE
  OBVIOUS
<1>3. PICK i \in Again : \A l \in Again : i <= l
  <2>1. Again \in SUBSET Nat
    OBVIOUS
  <2> HIDE DEF Again
  <2> QED
    BY <1>2, <2>1, LeastExists, Zenon
<1>4. PICK j \in 1..k : i < j /\ p[i] = p[j]
  OBVIOUS
<1>5. i \in 1..k
  OBVIOUS
<1>6. Hands(p[j - 1], p[j], f)
  <2>1. j - 1 \in 1..(k - 1) /\ j - 1 + 1 = j
    BY <1>4, <1>5
  <2> QED
    BY <2>1, Zenon
<1>7. i # 1
  BY <1>4, <1>6 DEF Hands
<1>8. Hands(p[i - 1], p[i], f)
  <2>1. i - 1 \in 1..(k - 1) /\ i - 1 + 1 = i
    BY <1>5, <1>7
  <2> QED
    BY <2>1, Zenon
<1>9. p[i - 1] = p[j - 1]
  BY <1>4, <1>6, <1>8, Zenon DEF Hands
<1>10. i - 1 \in Again
  <2>1. /\ i - 1 \in 1..k /\ j - 1 \in 1..k
        /\ i - 1 < j - 1
    BY <1>4, <1>5, <1>7
  <2> QED
    BY <1>9, <2>1, Zenon DEF Again
<1> QED
  BY <1>3, <1>5, <1>10

(* A path is a list of different nodes. *)
LEMMA PathFacts ==
  ASSUME NEW p \in Paths
  PROVE  /\ Len(p) \in Nat /\ Len(p) >= 2 /\ p \in [1..Len(p) -> Nodes]
         /\ \A i, j \in 1..Len(p) : p[i] = p[j] => i = j
<1>1. Cardinality(Nodes) \in Nat
  BY NodesAssumption, FS_CardinalityType, Zenon
<1>2. PICK k \in 2..Cardinality(Nodes) : p \in Injection(1..k, Nodes)
  BY DEF Paths
<1>3. p \in [1..k -> Nodes] /\ \A i, j \in 1..k : p[i] = p[j] => i = j
  BY <1>2 DEF Injection, IsInjective
<1>4. k \in Nat /\ k >= 2
  BY <1>1
<1>5. Len(p) = k
  BY <1>3, <1>4, IsList
<1> QED
  BY <1>3, <1>4, <1>5

(* The node at place i knows its neighbours on the path under the          *)
(* addresses of a packet.                                                  *)
KnowsNeighbours(p, i, src, dst) ==
  /\ src # dst /\ src \in Address /\ dst \in Address
  /\ Knows(p[i], p[i - 1], src) /\ Knows(p[i], p[i + 1], dst)

(* The hub of a node is a name; a hub's is none. *)
LEMMA HubNames ==
  ASSUME edit \in DOMAIN Edits, NEW s \in Commit, NEW n \in Declared(s), Is(s, n).role = "hub"
  PROVE  Is(s, n).hubName = ""
<1> DEFINE d == DocAt(s)
<1>1. Parsed(d) /\ IsSelf(Is(s, n), d, n) /\ "hub" # "spoke"
  BY DocFacts, DeclaredIs, Zenon
<1>2. PICK a \in DOMAIN d.hubs : d.hubs[a].name = n
  BY <1>1, Zenon DEF IsSelf, HubOf
<1>3. Is(s, n) = [name |-> n, role |-> "hub", tunnelIP |-> d.hubs[a].tunnelIP, hubName |-> ""]
  BY <1>1, <1>2, SelfFound, IsFound, Zenon
<1>4. \A x, y : [name |-> x, role |-> "hub", tunnelIP |-> y, hubName |-> ""].hubName = ""
  OBVIOUS
<1> QED
  BY <1>3, <1>4, Zenon

(* A node that forwards has its peers from a cycle as a hub, or is between *)
(* two places: a spoke would hand the packet back to the node it came      *)
(* from.                                                                   *)
LEMMA Forwards ==
  ASSUME IInv, NEW p \in Paths, NEW src \in addrs[p[1]], NEW dst \in addrs[p[Len(p)]],
         Carried(p, <<src, dst>>), NEW i \in 2..(Len(p) - 1)
  PROVE  KnowsNeighbours(p, i, src, dst)
<1> DEFINE h == p[i]
           from == p[i - 1]
           to == p[i + 1]
<1>1. /\ Len(p) \in Nat /\ Len(p) >= 2 /\ p \in [1..Len(p) -> Nodes]
      /\ \A k, l \in 1..Len(p) : p[k] = p[l] => k = l
  BY PathFacts
<1>2. from \in Nodes /\ h \in Nodes /\ to \in Nodes /\ from # to
  BY <1>1
<1>3. \A k \in 1..Len(p) - 1 : Hands(p[k], p[k + 1], <<src, dst>>)
  BY DEF Carried
<1>4. Hands(from, h, <<src, dst>>) /\ Hands(h, to, <<src, dst>>) /\ Hands(p[1], p[2], <<src, dst>>)
  <2>1. /\ i - 1 \in 1..Len(p) - 1 /\ i \in 1..Len(p) - 1 /\ 1 \in 1..Len(p) - 1
        /\ i - 1 + 1 = i /\ 1 + 1 = 2
    BY <1>1
  <2>2. /\ Hands(p[i - 1], p[i - 1 + 1], <<src, dst>>) /\ Hands(p[i], p[i + 1], <<src, dst>>)
        /\ Hands(p[1], p[1 + 1], <<src, dst>>)
    BY <1>3, <2>1
  <2> QED
    BY <2>1, <2>2
<1>5. Route(dev[h], src) = from /\ Route(dev[h], dst) = to /\ dst \notin addrs[p[1]]
  BY <1>4 DEF Hands
<1>6. src # dst
  BY <1>5
<1>7. /\ edit \in DOMAIN Edits /\ addrs \in [Nodes -> SUBSET Address]
      /\ cycles[h] \in SUBSET [doc : Commit, self : Commit]
      /\ DeviceOK(h, dev[h], cycles[h]) /\ "" \notin Nodes
  BY <1>2, NodesAssumption, Zenon DEF IInv, Typed, NodeOK
<1>8. src \in Address /\ dst \in Address
  <2>1. p[1] \in Nodes /\ p[Len(p)] \in Nodes
    BY <1>1
  <2> QED
    BY <1>7, <2>1, Zenon
<1>9. \A o \in cycles[h] : o.doc \in Commit /\ o.self \in Commit
  BY <1>7
<1> HIDE DEF h, from, to
<1>10. from # "" /\ to # ""
  BY <1>2, <1>7, Zenon
<1>11. ASSUME NEW x, x # "", NEW ip, Route(dev[h], ip) = x
       PROVE  \E o \in cycles[h] : h \in Declared(o.self) /\ Leads(h, o.doc, o.self, x, ip)
  <2>1. PICK o \in cycles[h], v \in Commit :
               h \in Declared(o.self) /\ x = NextHop(DocAt(o.doc), Is(o.self, h), Shown(v), ip)
    <3>1. Route(dev[h], ip) # "" /\ DeviceOK(h, dev[h], cycles[h])
      BY <1>7, <1>11, Zenon
    <3>2. HopOf(h, cycles[h], Route(dev[h], ip), ip)
      BY <3>1, RouteFrom, Zenon
    <3> QED
      BY <1>11, <3>2, Zenon DEF HopOf
  <2>2. Leads(h, o.doc, o.self, x, ip)
    BY <1>7, <1>9, <1>11, <2>1, RouteLeads, Zenon
  <2> QED
    BY <2>1, <2>2, Zenon
<1>12. PICK o \in cycles[h] : h \in Declared(o.self) /\ Leads(h, o.doc, o.self, from, src)
  BY <1>5, <1>10, <1>11, Zenon
<1>13. PICK q \in cycles[h] : h \in Declared(q.self) /\ Leads(h, q.doc, q.self, to, dst)
  BY <1>5, <1>10, <1>11, Zenon
<1>14. ASSUME NEW u \in cycles[h], NEW x, NEW ip, Hop(DocAt(u.doc), h, x, ip) PROVE Knows(h, x, ip)
  <2>1. u.doc \in Commit
    BY <1>9, Zenon
  <2>2. \A me, y, a : Hop(DocAt(u.doc), me, y, a) => \E m \in Behind(u.doc, y) : Is(u.doc, m).tunnelIP = a
    BY <1>7, <2>1, HopBehind, Zenon
  <2>3. \E m \in Behind(u.doc, x) : Is(u.doc, m).tunnelIP = ip
    BY <1>14, <2>2, Zenon
  <2> QED
    BY <2>3, Zenon DEF Knows
<1>15. CASE BetweenPlaces(h)
  <2>1. ASSUME NEW u \in cycles[h], NEW x, NEW ip, Leads(h, u.doc, u.self, x, ip) PROVE Knows(h, x, ip)
    <3>1. CASE x = Is(u.self, h).hubName
      BY <1>15, <3>1, Zenon DEF Knows
    <3>2. CASE Hop(DocAt(u.doc), h, x, ip)
      BY <1>14, <3>2, Zenon
    <3> QED
      BY <2>1, <3>1, <3>2, Zenon DEF Leads
  <2>2. Knows(h, from, src) /\ Knows(h, to, dst)
    BY <1>12, <1>13, <2>1, Zenon
  <2> QED
    BY <1>6, <1>8, <2>2, Zenon DEF KnowsNeighbours, h, from, to
<1>16. CASE ~BetweenPlaces(h)
  <2>1. Is(o.self, h).hubName = Is(q.self, h).hubName
    BY <1>16, Zenon DEF BetweenPlaces
  <2>2. /\ Is(o.self, h).role = "hub" => Is(o.self, h).hubName = ""
        /\ Is(q.self, h).role = "hub" => Is(q.self, h).hubName = ""
    BY <1>7, <1>9, <1>12, <1>13, HubNames, Zenon
  <2>3. Hop(DocAt(o.doc), h, from, src) /\ Hop(DocAt(q.doc), h, to, dst)
    BY <1>2, <1>10, <1>12, <1>13, <2>1, <2>2, Zenon DEF Leads
  <2>4. Knows(h, from, src) /\ Knows(h, to, dst)
    BY <1>14, <2>3, Zenon
  <2> QED
    BY <1>6, <1>8, <2>4, Zenon DEF KnowsNeighbours, h, from, to
<1> QED
  BY <1>15, <1>16

(* Whatever the documents, the number of hubs on the way, the commits of   *)
(* the nodes and the requests that failed half-way: a packet that is       *)
(* forwarded and arrives came from and went to nodes that the forwarding   *)
(* hubs know under these addresses (hubPeers, ApplyPeers).                 *)
THEOREM EndsKnown == Spec => []EndsAreKnown
<1>1. IInv => EndsAreKnown
  <2> SUFFICES ASSUME IInv, NEW p \in Paths, NEW f \in addrs[p[1]] \X addrs[p[Len(p)]],
                      Len(p) > 2, Carried(p, f)
               PROVE  Knows(p[2], p[1], f[1]) /\ Knows(p[Len(p) - 1], p[Len(p)], f[2])
    BY DEF EndsAreKnown
  <2>1. PICK src \in addrs[p[1]], dst \in addrs[p[Len(p)]] : f = <<src, dst>>
    OBVIOUS
  <2>2. f[1] = src /\ f[2] = dst /\ Carried(p, <<src, dst>>)
    BY <2>1
  <2>3. /\ 2 \in 2..Len(p) - 1 /\ Len(p) - 1 \in 2..Len(p) - 1
        /\ 2 - 1 = 1 /\ Len(p) - 1 + 1 = Len(p)
    BY PathFacts
  <2>4. \A i \in 2..Len(p) - 1 : KnowsNeighbours(p, i, src, dst)
    BY <2>2, Forwards
  <2>5. Knows(p[2], p[2 - 1], src) /\ Knows(p[Len(p) - 1], p[Len(p) - 1 + 1], dst)
    BY <2>3, <2>4, Zenon DEF KnowsNeighbours
  <2> QED
    BY <2>2, <2>3, <2>5, Zenon
<1> QED
  BY <1>1, Invariant, PTL

(* What an ACL does not drop its document does not forbid. *)
LEMMA NotDropped ==
  ASSUME edit \in DOMAIN Edits, NEW c \in Commit, NEW f \in Flow
  PROVE  f \in DropsOf(c) <=> Policy(DocAt(c), f) = "DROP"
<1>1. Compiled(DocAt(c))
  BY DocFacts, CompiledAsMeant
<1>2. Verdict(RulesFor(DocAt(c)), f) = Policy(DocAt(c), f)
  BY <1>1, Zenon DEF Compiled, DecidesAsPolicy
<1> QED
  BY <1>2, Zenon DEF DropsOf

(* Whatever the documents and the mixture of commits: hubs that have both  *)
(* peers and ACL of one commit pass nothing between nodes that its ACL     *)
(* keeps apart (reconcileOnce, Firewall.Reconcile).                        *)
THEOREM PolicyKept == Spec => []PolicyByName
<1>1. IInv => PolicyByName
  <2> SUFFICES ASSUME IInv, NEW p \in Paths, NEW f \in addrs[p[1]] \X addrs[p[Len(p)]],
                      Len(p) > 2, Carried(p, f), NEW c \in Commit,
                      \A i \in 2..Len(p) - 1 : /\ acl[p[i]] = c /\ ~BetweenPlaces(p[i])
                                               /\ \A o \in cycles[p[i]] : o.doc = c
               PROVE  \E n \in Behind(c, p[1]), m \in Behind(c, p[Len(p)]) :
                        f = <<Is(c, n).tunnelIP, Is(c, m).tunnelIP>> /\ AsNamed(c, n, m) # "DROP"
    BY Zenon DEF PolicyByName
  <2>1. PICK src \in addrs[p[1]], dst \in addrs[p[Len(p)]] : f = <<src, dst>>
    OBVIOUS
  <2>2. Carried(p, <<src, dst>>)
    BY <2>1
  <2>3. /\ 2 \in 2..Len(p) - 1 /\ Len(p) - 1 \in 2..Len(p) - 1
        /\ 2 - 1 = 1 /\ Len(p) - 1 + 1 = Len(p)
    BY PathFacts
  <2>4. \A i \in 2..Len(p) - 1 : KnowsNeighbours(p, i, src, dst)
    BY <2>2, Forwards
  <2>5. Knows(p[2], p[2 - 1], src) /\ Knows(p[Len(p) - 1], p[Len(p) - 1 + 1], dst)
    BY <2>3, <2>4, Zenon DEF KnowsNeighbours
  <2>6. /\ \E m \in Behind(c, p[1]) : Is(c, m).tunnelIP = src
        /\ \E m \in Behind(c, p[Len(p)]) : Is(c, m).tunnelIP = dst
    <3>1. /\ ~BetweenPlaces(p[2]) /\ \A o \in cycles[p[2]] : o.doc = c
          /\ ~BetweenPlaces(p[Len(p) - 1]) /\ \A o \in cycles[p[Len(p) - 1]] : o.doc = c
      BY <2>3, Zenon
    <3>2. Knows(p[2], p[1], src) /\ Knows(p[Len(p) - 1], p[Len(p)], dst)
      BY <2>3, <2>5, Zenon
    <3>3. \E m \in Behind(c, p[1]) : Is(c, m).tunnelIP = src
      BY <3>1, <3>2, Zenon DEF Knows
    <3>4. \E m \in Behind(c, p[Len(p)]) : Is(c, m).tunnelIP = dst
      BY <3>1, <3>2, Zenon DEF Knows
    <3> QED
      BY <3>3, <3>4
  <2>7. PICK n \in Behind(c, p[1]), m \in Behind(c, p[Len(p)]) :
               Is(c, n).tunnelIP = src /\ Is(c, m).tunnelIP = dst
    BY <2>6, Zenon
  <2>8. f \in Flow
    <3>1. src # dst /\ src \in Address /\ dst \in Address
      BY <2>3, <2>4, Zenon DEF KnowsNeighbours
    <3> QED
      BY <2>1, <3>1 DEF Flow
  <2>9. f \notin drops[p[2]] /\ acl[p[2]] = c
    BY <2>3, Zenon DEF Carried
  <2>10. p[2] \in Nodes /\ c # 0
    BY PathFacts, CommitFacts
  <2>11. edit \in DOMAIN Edits /\ drops[p[2]] = DropsOf(c)
    BY <2>9, <2>10, Zenon DEF IInv, Typed, NodeOK
  <2>12. Policy(DocAt(c), f) # "DROP"
    BY <2>8, <2>9, <2>11, NotDropped
  <2>13. f = <<Is(c, n).tunnelIP, Is(c, m).tunnelIP>>
    BY <2>1, <2>7, Zenon
  <2>14. AsNamed(c, n, m) # "DROP"
    BY <2>12, <2>13, Zenon DEF AsNamed
  <2> QED
    BY <2>13, <2>14, Zenon
<1> QED
  BY <1>1, Invariant, PTL

-----------------------------------------------------------------------------
(* The hub of a node; a hub is its own. *)
Up(c, n) == IF Is(c, n).role = "spoke" THEN Is(c, n).hubName ELSE n

(* Every node is under a hub that is declared, and no two have one address *)
(* (ValidateNodes, ValidateAgents).                                        *)
LEMMA UpFacts ==
  ASSUME edit \in DOMAIN Edits, NEW c \in Commit, NEW n \in Declared(c)
  PROVE  /\ Up(c, n) \in Declared(c) /\ Is(c, Up(c, n)).role = "hub" /\ Up(c, Up(c, n)) = Up(c, n)
         /\ \/ Is(c, n).role = "hub" /\ Up(c, n) = n
            \/ Is(c, n).role = "spoke" /\ Up(c, n) # n
<1> DEFINE d == DocAt(c)
           at == Is(c, n)
<1>1. Parsed(d)
  BY DocFacts
<1>2. IsSelf(at, d, n)
  BY DeclaredIs
<1>3. \A a \in DOMAIN d.hubs : d.hubs[a].name \in Declared(c) /\ Is(c, d.hubs[a].name).role = "hub"
  <2>1. ASSUME NEW a \in DOMAIN d.hubs PROVE Is(c, d.hubs[a].name).role = "hub"
    <3>1. Is(c, d.hubs[a].name) =
            [name |-> d.hubs[a].name, role |-> "hub", tunnelIP |-> d.hubs[a].tunnelIP, hubName |-> ""]
      BY <1>1, SelfFound, IsFound, DeclaredIs, Zenon
    <3>2. \A x, y : [name |-> x, role |-> "hub", tunnelIP |-> y, hubName |-> ""].role = "hub"
      OBVIOUS
    <3> QED
      BY <3>1, <3>2, Zenon
  <2> QED
    BY <2>1, DeclaredIs, Zenon
<1>4. "hub" # "spoke"
  OBVIOUS
<1>5. \A m : Is(c, m).role = "hub" => Up(c, m) = m
  BY <1>4, Zenon DEF Up
<1>6. CASE at.role = "hub"
  BY <1>5, <1>6, Zenon
<1>7. CASE at.role = "spoke"
  <2>1. Up(c, n) = at.hubName
    BY <1>7, Zenon DEF Up
  <2>2. PICK b \in DOMAIN d.agents : d.agents[b].hub = at.hubName
    BY <1>2, <1>4, <1>7, Zenon DEF IsSelf, AgentOf
  <2>3. PICK a \in DOMAIN d.hubs : d.hubs[a].name = at.hubName
    BY <1>1, <2>2, AgentsHaveHubs, Zenon
  <2>4. Up(c, n) \in Declared(c) /\ Is(c, Up(c, n)).role = "hub"
    BY <1>3, <2>1, <2>3, Zenon
  <2> QED
    BY <1>4, <1>5, <1>7, <2>4, Zenon
<1> QED
  BY <1>2, <1>6, <1>7, Zenon DEF IsSelf

(* No two nodes have one address (ValidateNodes). *)
LEMMA AddressesApart ==
  ASSUME edit \in DOMAIN Edits, NEW c \in Commit, NEW n \in Declared(c), NEW m \in Declared(c), n # m
  PROVE  Is(c, n).tunnelIP # Is(c, m).tunnelIP
<1> DEFINE d == DocAt(c)
           hname(i) == d.hubs[i].name
           aname(i) == d.agents[i].name
           hip(i) == d.hubs[i].tunnelIP
           aip(i) == d.agents[i].tunnelIP
           H == DOMAIN d.hubs
           A == DOMAIN d.agents
<1>1. Parsed(d)
  BY DocFacts
<1>2. /\ \A i, j \in H : hname(i) = hname(j) \/ hip(i) = hip(j) => i = j
      /\ \A i, j \in A : aname(i) = aname(j) \/ aip(i) = aip(j) => i = j
      /\ \A i \in H, j \in A : hname(i) # aname(j) /\ hip(i) # aip(j)
  BY <1>1, NodesDistinct, Zenon
<1>3. ASSUME NEW x \in Declared(c)
      PROVE  \/ \E i \in H : hname(i) = x /\ hip(i) = Is(c, x).tunnelIP
             \/ \E i \in A : aname(i) = x /\ aip(i) = Is(c, x).tunnelIP
  <2>1. IsSelf(Is(c, x), d, x)
    BY DeclaredIs
  <2> QED
    BY <2>1, Zenon DEF IsSelf, HubOf, AgentOf
<1> HIDE DEF hname, aname, hip, aip, H, A
<1> QED
  BY <1>2, <1>3, Zenon

(* The routes of a node, by one commit and a registry with all its nodes. *)
LEMMA RoutesAtRest ==
  ASSUME edit \in DOMAIN Edits, NEW c \in Commit, NEW n \in Declared(c), NEW m \in Declared(c), n # m
  PROVE  RoutesFrom(n, c, c, c)[Is(c, m).tunnelIP] =
           IF Up(c, n) # n THEN Up(c, n) ELSE IF Up(c, m) = n THEN m ELSE Up(c, m)
<1> DEFINE d == DocAt(c)
           at == Is(c, n)
           r == Shown(c)
           ip == Is(c, m).tunnelIP
           infos == byName(r)
<1>1. Parsed(d) /\ IsSelf(at, d, n) /\ IsSelf(Is(c, m), d, m)
  BY DocFacts, DeclaredIs
<1>2. ip \in Address
  BY AddressOf
<1>3. RoutesFrom(n, c, c, c)[ip] = NextHop(d, at, r, ip)
  BY <1>2 DEF RoutesFrom
<1>4. DistinctEntries(r) /\ DOMAIN infos = Declared(c)
  BY ShownFact
<1>5. \A x \in Declared(c) : infos[x].publicKey = x
  <2>1. \A x \in Declared(c) : infos[x] = [name |-> x, publicKey |-> x, endpoint |-> x]
    BY ShownFact, Zenon
  <2>2. \A x : [name |-> x, publicKey |-> x, endpoint |-> x].publicKey = x
    OBVIOUS
  <2> QED
    BY <2>1, <2>2, Zenon
<1>6. /\ Up(c, n) \in Declared(c)
      /\ \/ at.role = "hub" /\ Up(c, n) = n
         \/ at.role = "spoke" /\ Up(c, n) # n
  BY UpFacts
<1>7. /\ Up(c, m) \in Declared(c)
      /\ \/ Is(c, m).role = "hub" /\ Up(c, m) = m
         \/ Is(c, m).role = "spoke" /\ Up(c, m) # m
  BY UpFacts
<1>8. "hub" # "spoke"
  OBVIOUS
<1>9. CASE at.role = "spoke"
  <2>1. Up(c, n) = at.hubName /\ Up(c, n) # n
    BY <1>6, <1>8, <1>9, Zenon DEF Up
  <2>2. Via(r, at.hubName) = {at.hubName}
    <3>1. at.hubName \in DOMAIN infos => Via(r, at.hubName) = {infos[at.hubName].publicKey}
      BY <1>4, ByNameFact, Zenon
    <3> QED
      BY <1>4, <1>5, <1>6, <2>1, <3>1, Zenon
  <2>3. ip \in d.cidr
    BY <1>1, Zenon DEF IsSelf
  <2> HIDE DEF d, at, r, ip
  <2>4. NextHop(d, at, r, ip) = at.hubName
    BY <1>9, <2>2, <2>3, SpokeNextHop, Zenon
  <2> QED
    BY <1>3, <2>1, <2>4, Zenon DEF ip
<1>10. CASE at.role = "hub"
  <2> DEFINE x == IF Up(c, m) = n THEN m ELSE Up(c, m)
             hop == NextHop(d, at, r, ip)
  <2>1. Up(c, n) = n /\ at.name = n
    BY <1>1, <1>6, <1>8, <1>10, Zenon DEF IsSelf
  <2>2. Hop(d, n, x, ip)
    <3>1. CASE Is(c, m).role = "hub"
      <4>1. HubOf(d, m, ip) /\ x = m
        BY <1>1, <1>7, <1>8, <3>1, Zenon DEF IsSelf
      <4> QED
        BY <4>1, Zenon DEF HubOf, Hop
    <3>2. CASE Is(c, m).role = "spoke"
      <4>1. AgentOf(d, m, ip, Up(c, m))
        BY <1>1, <1>8, <3>2, Zenon DEF IsSelf, Up
      <4>2. PICK b \in DOMAIN d.agents :
              d.agents[b].name = m /\ d.agents[b].tunnelIP = ip /\ d.agents[b].hub = Up(c, m)
        BY <4>1, Zenon DEF AgentOf
      <4>3. x = IF d.agents[b].hub = n THEN d.agents[b].name ELSE d.agents[b].hub
        BY <4>2, Zenon
      <4> QED
        BY <4>2, <4>3, Zenon DEF Hop
    <3> QED
      BY <1>7, <3>1, <3>2, Zenon
  <2>3. x \in Declared(c)
    BY <1>7, Zenon
  <2>4. \A y : Hop(d, at.name, y, ip) => hop = IF y \in DOMAIN infos THEN infos[y].publicKey ELSE ""
    <3>1. at.role # "spoke"
      BY <1>10
    <3>2. Parsed(d) /\ DistinctEntries(r)
      BY <1>1, <1>4, Zenon
    <3> HIDE DEF hop, d, at, r, ip
    <3> QED
      BY <3>1, <3>2, HubNextHop, Zenon DEF hop
  <2> HIDE DEF x, hop, infos
  <2>5. hop = x
    BY <1>4, <1>5, <2>1, <2>2, <2>3, <2>4, Zenon
  <2> QED
    BY <1>3, <2>1, <2>5, Zenon DEF x, hop
<1> QED
  BY <1>6, <1>9, <1>10, Zenon

(* The ACL decides on every two nodes, and accepts what has a hub at one   *)
(* end.                                                                    *)
LEMMA AsNamedDecides ==
  ASSUME edit \in DOMAIN Edits, NEW c \in Commit, NEW n \in Declared(c), NEW m \in Declared(c)
  PROVE  /\ AsNamed(c, n, m) \in {"ACCEPT", "DROP"}
         /\ Is(c, n).role = "hub" \/ Is(c, m).role = "hub" => AsNamed(c, n, m) = "ACCEPT"
<1> DEFINE d == DocAt(c)
           src == Is(c, n).tunnelIP
           dst == Is(c, m).tunnelIP
<1>1. IsSelf(Is(c, n), d, n) /\ IsSelf(Is(c, m), d, m)
  BY DeclaredIs
<1>2. src \in d.cidr /\ dst \in d.cidr
  BY <1>1, Zenon DEF IsSelf
<1>3. "hub" # "spoke"
  OBVIOUS
<1>4. Is(c, n).role = "hub" => \E h \in Range(d.hubs) : h.tunnelIP = src
  <2>1. Is(c, n).role = "hub" => HubOf(d, n, src)
    BY <1>1, <1>3, Zenon DEF IsSelf
  <2>2. \A i \in DOMAIN d.hubs : d.hubs[i] \in Range(d.hubs)
    BY DEF Range
  <2> QED
    BY <2>1, <2>2, Zenon DEF HubOf
<1>5. Is(c, m).role = "hub" => \E h \in Range(d.hubs) : h.tunnelIP = dst
  <2>1. Is(c, m).role = "hub" => HubOf(d, m, dst)
    BY <1>1, <1>3, Zenon DEF IsSelf
  <2>2. \A i \in DOMAIN d.hubs : d.hubs[i] \in Range(d.hubs)
    BY DEF Range
  <2> QED
    BY <2>1, <2>2, Zenon DEF HubOf
<1> DEFINE f == <<src, dst>>
           rules(action) == {r \in Range(d.acls) : r.action = action /\ Covers(d, r, f)}
<1>6. f[1] = src /\ f[2] = dst
  OBVIOUS
<1>7. AsNamed(c, n, m) = Policy(d, f)
  BY DEF AsNamed
<1> HIDE DEF src, dst, f
<1>8. Policy(d, f) = IF \E h \in Range(d.hubs) : h.tunnelIP \in {src, dst} THEN "ACCEPT"
                     ELSE IF rules("deny") # {} THEN "DROP"
                     ELSE IF rules("allow") # {} THEN "ACCEPT"
                     ELSE IF src \in d.cidr /\ dst \in d.cidr THEN "DROP"
                     ELSE "RETURN"
  BY <1>6, Zenon DEF Policy
<1> HIDE DEF rules
<1>9. Policy(d, f) \in {"ACCEPT", "DROP"}
  BY <1>2, <1>8, Zenon
<1>10. Is(c, n).role = "hub" \/ Is(c, m).role = "hub" => Policy(d, f) = "ACCEPT"
  BY <1>4, <1>5, <1>8, Zenon DEF src, dst
<1> QED
  BY <1>7, <1>9, <1>10, Zenon

(* Different nodes in a row are a path. *)
LEMMA IsPath ==
  ASSUME NEW k \in Nat, k >= 2, NEW p \in [1..k -> Nodes], \A i, j \in 1..k : p[i] = p[j] => i = j
  PROVE  p \in Paths /\ Len(p) = k
<1>1. p \in Injection(1..k, Nodes)
  BY DEF Injection, IsInjective
<1>2. Cardinality(Nodes) \in Nat
  BY NodesAssumption, FS_CardinalityType, Zenon
<1>3. Cardinality(1..k) <= Cardinality(Nodes)
  BY <1>1, NodesAssumption, FS_Injection, Zenon
<1>4. Cardinality(1..k) = k
  BY FS_Interval
<1>5. k \in 2..Cardinality(Nodes)
  BY <1>2, <1>3, <1>4
<1>6. Len(p) = k
  BY IsList
<1> QED
  BY <1>1, <1>5, <1>6, Zenon DEF Paths

(* A packet gets from one node to another. *)
Reaches(n, m, f) == \E p \in Paths : p[1] = n /\ p[Len(p)] = m /\ Carried(p, f)

(* It does when the one hands it to the other, *)
LEMMA PathOfTwo ==
  ASSUME NEW n \in Nodes, NEW m \in Nodes, n # m, NEW f,
         f[1] \in addrs[n], f[2] \in addrs[m], Hands(n, m, f)
  PROVE  Reaches(n, m, f)
<1> DEFINE p == <<n, m>>
<1>1. p \in [1..2 -> Nodes] /\ p[1] = n /\ p[2] = m /\ \A i, j \in 1..2 : p[i] = p[j] => i = j
  OBVIOUS
<1> HIDE DEF p
<1>2. p \in Paths /\ Len(p) = 2
  <2>1. 2 \in Nat /\ 2 >= 2
    OBVIOUS
  <2> QED
    BY <1>1, <2>1, IsPath, Zenon
<1>3. \A i \in 1..Len(p) - 1 : Hands(p[i], p[i + 1], f)
  <2>1. \A i \in 1..Len(p) - 1 : i = 1 /\ i + 1 = 2
    BY <1>2
  <2> QED
    BY <1>1, <2>1, Zenon
<1>4. \A i \in 2..Len(p) - 1 : f \notin drops[p[i]]
  BY <1>2
<1>5. Carried(p, f)
  BY <1>1, <1>2, <1>3, <1>4, Zenon DEF Carried
<1> QED
  BY <1>1, <1>2, <1>5, Zenon DEF Reaches

(* or to a hub in between that does not drop it, *)
LEMMA PathOfThree ==
  ASSUME NEW n \in Nodes, NEW h \in Nodes, NEW m \in Nodes, n # h, n # m, h # m, NEW f,
         f[1] \in addrs[n], f[2] \in addrs[m], Hands(n, h, f), Hands(h, m, f), f \notin drops[h]
  PROVE  Reaches(n, m, f)
<1> DEFINE p == <<n, h, m>>
<1>1. /\ p \in [1..3 -> Nodes] /\ p[1] = n /\ p[2] = h /\ p[3] = m
      /\ \A i, j \in 1..3 : p[i] = p[j] => i = j
  OBVIOUS
<1> HIDE DEF p
<1>2. p \in Paths /\ Len(p) = 3
  <2>1. 3 \in Nat /\ 3 >= 2
    OBVIOUS
  <2> QED
    BY <1>1, <2>1, IsPath, Zenon
<1>3. \A i \in 1..Len(p) - 1 : Hands(p[i], p[i + 1], f)
  <2>1. \A i \in 1..Len(p) - 1 : (i = 1 /\ i + 1 = 2) \/ (i = 2 /\ i + 1 = 3)
    BY <1>2
  <2> QED
    BY <1>1, <2>1, Zenon
<1>4. \A i \in 2..Len(p) - 1 : f \notin drops[p[i]]
  <2>1. \A i \in 2..Len(p) - 1 : i = 2
    BY <1>2
  <2> QED
    BY <1>1, <2>1, Zenon
<1>5. Carried(p, f)
  BY <1>1, <1>2, <1>3, <1>4, Zenon DEF Carried
<1> QED
  BY <1>1, <1>2, <1>5, Zenon DEF Reaches

(* or to two of them. *)
LEMMA PathOfFour ==
  ASSUME NEW n \in Nodes, NEW h \in Nodes, NEW g \in Nodes, NEW m \in Nodes,
         n # h, n # g, n # m, h # g, h # m, g # m, NEW f,
         f[1] \in addrs[n], f[2] \in addrs[m], Hands(n, h, f), Hands(h, g, f), Hands(g, m, f),
         f \notin drops[h], f \notin drops[g]
  PROVE  Reaches(n, m, f)
<1> DEFINE p == <<n, h, g, m>>
<1>1. /\ p \in [1..4 -> Nodes] /\ p[1] = n /\ p[2] = h /\ p[3] = g /\ p[4] = m
      /\ \A i, j \in 1..4 : p[i] = p[j] => i = j
  OBVIOUS
<1> HIDE DEF p
<1>2. p \in Paths /\ Len(p) = 4
  <2>1. 4 \in Nat /\ 4 >= 2
    OBVIOUS
  <2> QED
    BY <1>1, <2>1, IsPath, Zenon
<1>3. \A i \in 1..Len(p) - 1 : Hands(p[i], p[i + 1], f)
  <2>1. \A i \in 1..Len(p) - 1 : (i = 1 /\ i + 1 = 2) \/ (i = 2 /\ i + 1 = 3) \/ (i = 3 /\ i + 1 = 4)
    BY <1>2
  <2> QED
    BY <1>1, <2>1, Zenon
<1>4. \A i \in 2..Len(p) - 1 : f \notin drops[p[i]]
  <2>1. \A i \in 2..Len(p) - 1 : i = 2 \/ i = 3
    BY <1>2
  <2> QED
    BY <1>1, <2>1, Zenon
<1>5. Carried(p, f)
  BY <1>1, <1>2, <1>3, <1>4, Zenon DEF Carried
<1> QED
  BY <1>1, <1>2, <1>5, Zenon DEF Reaches

(* Whatever the documents and whatever happened before: once the network   *)
(* has settled, two nodes reach each other exactly when the ACL of the tip *)
(* accepts it.  The way is up to the source's hub, across to the           *)
(* destination's and down, without the steps that lead nowhere (PeersFor,  *)
(* ApplyPeers, Firewall.Reconcile).                                        *)
THEOREM SettledCorrect == Spec => []SettledAsDeclared
<1>1. IInv => SettledAsDeclared
  <2> SUFFICES ASSUME IInv, Settled, NEW n \in Declared(head), NEW m \in Declared(head), n # m
               PROVE  LET f == <<Is(head, n).tunnelIP, Is(head, m).tunnelIP>>
                      IN  (\E p \in Paths : p[1] = n /\ p[Len(p)] = m /\ Carried(p, f))
                            <=> (AsNamed(head, n, m) = "ACCEPT")
    BY Zenon DEF SettledAsDeclared
  <2> DEFINE c == head
             D == Declared(c)
             ip(x) == Is(c, x).tunnelIP
             up(x) == Up(c, x)
             f == <<ip(n), ip(m)>>
             arrives == Reaches(n, m, f)
             allowed == AsNamed(c, n, m) = "ACCEPT"
  <2>1. edit \in DOMAIN Edits /\ c \in Commit /\ c # 0 /\ D \subseteq Nodes
    BY CommitFacts, Zenon DEF IInv, Typed, Declared
  <2>2. \A x \in D : up(x) \in D /\ up(up(x)) = up(x) /\ (up(x) = x <=> Is(c, x).role = "hub")
    <3>1. ASSUME NEW x \in D
          PROVE  /\ up(x) \in D /\ up(up(x)) = up(x)
                 /\ \/ Is(c, x).role = "hub" /\ up(x) = x
                    \/ Is(c, x).role = "spoke" /\ up(x) # x
      BY <2>1, UpFacts, Zenon
    <3>2. "hub" # "spoke"
      OBVIOUS
    <3> QED
      BY <3>1, <3>2, Zenon
  <2>3. \A x, y \in D : x # y => ip(x) # ip(y)
    BY <2>1, AddressesApart, Zenon
  <2>4. \A x \in D : addrs[x] = {ip(x)} /\ DocAt(c).cidr \subseteq routed[x]
    BY Zenon DEF Settled, UpToDate
  <2>5. \A x, y \in D : x # y =>
          Route(dev[x], ip(y)) = IF up(x) # x THEN up(x) ELSE IF up(y) = x THEN y ELSE up(y)
    <3>1. ASSUME NEW x \in D PROVE \A y \in D : Route(dev[x], ip(y)) = RoutesFrom(x, c, c, c)[ip(y)]
      <4> DEFINE new == Configured(dev[x], Desired(x, c, c, c).peers)
      <4>1. RoutesOf(new) = RoutesOf(dev[x])
        BY Zenon DEF Settled
      <4>2. Desired(x, c, c, c).ok
        BY <2>1, DesiredOK, Zenon
      <4>3. IsDevice(dev[x], DialledAt) /\ Disjoint(dev[x])
        BY <2>1, Zenon DEF IInv, NodeOK, DeviceOK
      <4>4. RoutesOf(new) = RoutesFrom(x, c, c, c)
        <5> HIDE DEF c
        <5> QED
          BY <2>1, <4>2, <4>3, WhollyRouted, Zenon
      <4>5. \A y \in D : ip(y) \in Address
        BY <2>1, AddressOf, Zenon
      <4> HIDE DEF new, ip
      <4> QED
        BY <4>1, <4>4, <4>5, Zenon DEF RoutesOf
    <3>2. \A x, y \in D : x # y => RoutesFrom(x, c, c, c)[ip(y)] =
            IF up(x) # x THEN up(x) ELSE IF up(y) = x THEN y ELSE up(y)
      BY <2>1, RoutesAtRest, Zenon
    <3>3. \A x, y \in D : Route(dev[x], ip(y)) = RoutesFrom(x, c, c, c)[ip(y)]
      BY <3>1, Zenon
    <3> HIDE DEF c, D, ip, up
    <3> SUFFICES ASSUME NEW x \in D, NEW y \in D, x # y
                 PROVE  Route(dev[x], ip(y)) = IF up(x) # x THEN up(x) ELSE IF up(y) = x THEN y ELSE up(y)
      BY Zenon
    <3>4. Route(dev[x], ip(y)) = RoutesFrom(x, c, c, c)[ip(y)]
      BY <3>3, Zenon
    <3>5. RoutesFrom(x, c, c, c)[ip(y)] = IF up(x) # x THEN up(x) ELSE IF up(y) = x THEN y ELSE up(y)
      BY <3>2, Zenon
    <3> QED
      BY <3>4, <3>5, Zenon
  <2>6. \A x \in D : up(x) = x => drops[x] = DropsOf(c)
    <3>1. ASSUME NEW x \in D, up(x) = x PROVE drops[x] = DropsOf(c)
      <4>1. Is(c, x).role = "hub"
        BY <2>2, <3>1, Zenon
      <4>2. self[x] # 0 /\ Is(self[x], x) = Is(c, x)
        BY Zenon DEF Settled, UpToDate
      <4>3. IsHub(x)
        BY <4>1, <4>2, Zenon DEF IsHub
      <4>4. acl[x] = c
        BY <4>3, Zenon DEF Settled
      <4> QED
        BY <2>1, <4>4, Zenon DEF IInv, NodeOK
    <3> QED
      BY <3>1, Zenon
  <2>14. ip(m) \in DocAt(c).cidr
    BY <2>1, AddressOf, Zenon
  <2>7. f[1] = ip(n) /\ f[2] = ip(m)
    OBVIOUS
  <2>8. f \in Flow
    <3>1. ip(n) \in Address /\ ip(m) \in Address
      BY <2>1, AddressOf
    <3> QED
      BY <2>3, <3>1 DEF Flow
  <2>9. f \in DropsOf(c) <=> AsNamed(c, n, m) = "DROP"
    <3>1. AsNamed(c, n, m) = Policy(DocAt(c), f)
      BY Zenon DEF AsNamed
    <3> HIDE DEF f, c
    <3> QED
      BY <2>1, <2>8, <3>1, NotDropped
  <2>10. /\ f \notin DropsOf(c) <=> allowed
         /\ up(n) = n \/ up(m) = m => allowed
    <3>1. /\ AsNamed(c, n, m) = "ACCEPT" \/ AsNamed(c, n, m) = "DROP"
          /\ Is(c, n).role = "hub" \/ Is(c, m).role = "hub" => AsNamed(c, n, m) = "ACCEPT"
      BY <2>1, AsNamedDecides
    <3>2. "ACCEPT" # "DROP"
      OBVIOUS
    <3> QED
      BY <2>2, <2>9, <3>1, <3>2, Zenon
  <2> HIDE DEF c, D, ip, up, f, allowed
  <2>11. n \in D /\ m \in D /\ n \in Nodes /\ m \in Nodes /\ up(n) \in Nodes /\ up(m) \in Nodes
    BY <2>1, <2>2, Zenon DEF D, c
  <2>12. ASSUME arrives PROVE allowed
    <3>1. CASE up(n) = n \/ up(m) = m
      BY <2>10, <3>1, Zenon
    <3>2. CASE up(n) # n /\ up(m) # m
      <4>1. PICK p \in Paths : p[1] = n /\ p[Len(p)] = m /\ Carried(p, f)
        BY <2>12, Zenon DEF Reaches
      <4>2. Len(p) \in Nat /\ Len(p) >= 2
        BY PathFacts
      <4>3. Hands(p[1], p[2], f)
        <5>1. 1 \in 1..Len(p) - 1 /\ 1 + 1 = 2
          BY <4>2
        <5>2. Hands(p[1], p[1 + 1], f)
          BY <4>1, <5>1, Zenon DEF Carried
        <5> QED
          BY <5>1, <5>2, Zenon
      <4>4. p[2] = up(n)
        <5>1. Route(dev[n], ip(m)) = up(n)
          BY <2>5, <2>11, <3>2, Zenon
        <5>2. Route(dev[n], f[2]) = p[2]
          BY <4>1, <4>3, Zenon DEF Hands
        <5> QED
          BY <2>7, <5>1, <5>2, Zenon
      <4>5. up(n) # m
        BY <2>2, <2>11, <3>2, Zenon
      <4>6. 2 \in 2..Len(p) - 1
        BY <4>1, <4>2, <4>4, <4>5
      <4>7. f \notin drops[up(n)]
        BY <4>1, <4>4, <4>6, Zenon DEF Carried
      <4> QED
        BY <2>2, <2>6, <2>10, <2>11, <4>7, Zenon
    <3> QED
      BY <3>1, <3>2, Zenon
  <2>13. ASSUME allowed PROVE arrives
    <3>1. \A x \in {up(n), up(m)} : f \notin drops[x]
      BY <2>2, <2>6, <2>10, <2>11, <2>13, Zenon
    <3>2. f[1] \in addrs[n] /\ f[2] \in addrs[m]
      BY <2>4, <2>7, <2>11, Zenon
    <3>3. ASSUME NEW x \in D, NEW y \in D, x # m, y # n, Route(dev[x], ip(m)) = y, Route(dev[y], ip(n)) = x
          PROVE  Hands(x, y, f)
      <4>1. ip(m) \notin addrs[x] /\ ip(n) \notin addrs[y]
        <5>1. addrs[x] = {ip(x)} /\ addrs[y] = {ip(y)} /\ ip(m) # ip(x) /\ ip(n) # ip(y)
          BY <2>3, <2>4, <2>11, <3>3, Zenon
        <5> QED
          BY <5>1, Zenon
      <4>2. ip(m) \in routed[x]
        BY <2>4, <2>14, <3>3, Zenon
      <4> QED
        BY <2>7, <3>3, <4>1, <4>2, Zenon DEF Hands
    <3>4. up(n) \in D /\ up(m) \in D /\ up(up(n)) = up(n) /\ up(up(m)) = up(m)
      BY <2>2, <2>11, Zenon
    <3>5. ASSUME up(n) # n PROVE Hands(n, up(n), f)
      <4>1. Route(dev[n], ip(m)) = up(n) /\ Route(dev[up(n)], ip(n)) = n
        BY <2>5, <2>11, <3>4, <3>5, Zenon
      <4> QED
        BY <2>11, <3>3, <3>4, <3>5, <4>1, Zenon
    <3>6. ASSUME up(n) # up(m) PROVE Hands(up(n), up(m), f)
      <4>1. up(n) # m /\ up(m) # n
        BY <3>4, <3>6, Zenon
      <4>2. Route(dev[up(n)], ip(m)) = up(m) /\ Route(dev[up(m)], ip(n)) = up(n)
        BY <2>5, <2>11, <3>4, <3>6, <4>1, Zenon
      <4> QED
        BY <3>3, <3>4, <4>1, <4>2, Zenon
    <3>7. ASSUME up(m) # m PROVE Hands(up(m), m, f)
      <4>1. Route(dev[up(m)], ip(m)) = m /\ Route(dev[m], ip(n)) = up(m)
        BY <2>5, <2>11, <3>4, <3>7, Zenon
      <4> QED
        BY <2>11, <3>3, <3>4, <3>7, <4>1, Zenon
    <3>8. f \notin drops[up(n)] /\ f \notin drops[up(m)]
      BY <3>1, Zenon
    <3>9. CASE (up(n) = n /\ up(m) = m) \/ (up(n) = n /\ up(m) = n) \/ (up(n) = m /\ up(m) = m)
      <4>1. Hands(n, m, f)
        <5>1. CASE up(n) = n /\ up(m) = m
          BY <3>6, <5>1, Zenon
        <5>2. CASE up(n) = n /\ up(m) = n
          BY <3>7, <5>2, Zenon
        <5>3. CASE up(n) = m /\ up(m) = m
          BY <3>5, <5>3, Zenon
        <5> QED
          BY <3>9, <5>1, <5>2, <5>3, Zenon
      <4> QED
        BY <2>11, <3>2, <4>1, PathOfTwo
    <3>10. CASE up(n) = n /\ up(m) # m /\ up(m) # n
      <4>1. Hands(n, up(m), f) /\ Hands(up(m), m, f)
        BY <3>6, <3>7, <3>10, Zenon
      <4> QED
        BY <2>11, <3>2, <3>8, <3>10, <4>1, PathOfThree
    <3>11. CASE up(n) # n /\ up(m) = m /\ up(n) # m
      <4>1. Hands(n, up(n), f) /\ Hands(up(n), m, f)
        BY <3>5, <3>6, <3>11, Zenon
      <4> QED
        BY <2>11, <3>2, <3>8, <3>11, <4>1, PathOfThree
    <3>12. CASE up(n) # n /\ up(m) # m
      <4>1. Hands(n, up(n), f) /\ Hands(up(m), m, f)
        BY <3>5, <3>7, <3>12, Zenon
      <4>2. up(n) # m /\ up(m) # n
        BY <3>4, <3>12, Zenon
      <4>3. CASE up(n) = up(m)
        <5>1. Hands(up(n), m, f)
          BY <4>1, <4>3, Zenon
        <5> QED
          BY <2>11, <3>2, <3>8, <3>12, <4>1, <4>2, <5>1, PathOfThree
      <4>4. CASE up(n) # up(m)
        <5>1. Hands(up(n), up(m), f)
          BY <3>6, <4>4, Zenon
        <5> QED
          BY <2>11, <3>2, <3>8, <3>12, <4>1, <4>2, <4>4, <5>1, PathOfFour
      <4> QED
        BY <4>3, <4>4, Zenon
    <3> QED
      BY <3>9, <3>10, <3>11, <3>12, Zenon
  <2> QED
    BY <2>12, <2>13, Zenon DEF f, c, ip, allowed, Reaches
<1> QED
  BY <1>1, Invariant, PTL
=============================================================================
