------------------------------ MODULE Overlay -------------------------------
(***************************************************************************)
(* The network as a whole: every node pulls the repository on its own and  *)
(* configures its device (Topology, WgDevice) and, on a hub, its ACL       *)
(* (NetPolicy) from the commit it has reached, with the registry as the    *)
(* server's commit shows it.  Nodes on different commits, nodes that still *)
(* are what an older commit made of them, and links that a dead process    *)
(* left behind carry the same packets.                                     *)
(*                                                                         *)
(* A cycle is two steps: peers, then ACL, either of which may fail and     *)
(* leave a part of its work behind.  A node is known by its own key        *)
(* (AgentIdentity!TokenSpeaksForKey), written here as its name; every node *)
(* is registered and every hub can be dialled; where WireGuard last heard  *)
(* from a peer is left to AgentPeers, for it routes nothing.               *)
(***************************************************************************)
EXTENDS WgDevice, NetPolicy

CONSTANTS Nodes,    \* names, which stand for the public keys, too
          Edits,    \* pairs of documents: the repository before and after
          MaxFaults \* bound, for each edit: processes that end without need,
                    \* requests that fail half-way

Commit == {1, 2}

ASSUME NodesAssumption ==
  /\ Nodes \subseteq STRING \ {"", BadKey, NoAddr, BadAddr} /\ IsFiniteSet(Nodes)
  /\ Address \subseteq Nat

ASSUME EditsAssumption ==
  \A e \in DOMAIN Edits : /\ MaxFaults[e] \in Nat
                          /\ \A c \in Commit : /\ Parsed(Edits[e][c])
                                               /\ Edits[e][c].cidr \subseteq Address
                                               /\ \A h \in Range(Edits[e][c].hubs) : h.name \in Nodes
                                               /\ \A a \in Range(Edits[e][c].agents) : a.name \in Nodes

VARIABLES
  edit,    \* the pair at hand, which never changes
  head,    \* the commit at the tip
  srv,     \* the commit the server has cached
  self,    \* node -> the commit that told its process what it is; 0: no process
  addrs,   \* node -> the addresses of its link
  routed,  \* node -> the destinations the kernel sends to its link: the networks of
           \* these addresses, by the prefix length each was given with
  dev,     \* node -> the peers of its device
  cycles,  \* node -> the cycles these are from, by the commits of document and self;
           \* more than one after a request that failed half-way
  due,     \* node -> the commit whose ACL the running cycle has still to apply; 0: none
  acl,     \* node -> the commit its rules are from; 0: not one's alone
  drops,   \* node -> the flows they drop
  faults   \* processes that have ended without need, requests that have failed half-way

link == <<addrs, routed, dev, cycles>>
firewall == <<acl, drops>>
vars == <<edit, head, srv, self, link, due, firewall, faults>>

DocAt(c) == Edits[edit][c]

(* FindSelf for each edit, commit and node. *)
Selves ==
  [e \in DOMAIN Edits |-> [c \in Commit |-> [n \in Nodes |-> FindSelf(Edits[e][c], n)]]]

Is(c, n) == Selves[edit][c][n]
Declared(c) == {n \in Nodes : Is(c, n) # NoSelf}

-----------------------------------------------------------------------------
(* What PeersFor makes of the document of commit c for a node that was     *)
(* resolved at commit s, when the server shows the names of commit v.      *)
Desired(n, c, s, v) ==
  PeersFor(DocAt(c), Is(s, n),
           {[name |-> m, publicKey |-> m, endpoint |-> m] : m \in Declared(v)},
           DocAt(c).persistentKeepalive, [m \in Nodes |-> m])

(* Configurator.ApplyPeers: the peers of a device after a request that has *)
(* succeeded.                                                              *)
Configured(old, peers) ==
  LET diff == computeDiff(old, peers)
  IN  IF Empty(diff) THEN old
      ELSE RemovePeers(ConfigurePeers(old, PeerConfigs(diff)), diff.removed)

(* The peer a device has for each address; "": none. *)
RoutesOf(device) == [ip \in Address |-> Route(device, ip)]

DropsOf(c) ==
  LET rules == RulesFor(DocAt(c)) IN {f \in Flow : Verdict(rules, f) = "DROP"}

(* The network at rest on the first commit. *)
Init ==
  /\ edit \in DOMAIN Edits /\ head = 1 /\ srv = 1 /\ faults = 0
  /\ self = [n \in Nodes |-> IF n \in Declared(1) THEN 1 ELSE 0]
  /\ addrs = [n \in Nodes |-> IF n \in Declared(1) THEN {Is(1, n).tunnelIP} ELSE {}]
  /\ routed = [n \in Nodes |-> IF n \in Declared(1) THEN DocAt(1).cidr ELSE {}]
  /\ dev = [n \in Nodes |-> IF n \in Declared(1)
                            THEN Configured(EmptyDevice, Desired(n, 1, 1, 1).peers)
                            ELSE EmptyDevice]
  /\ cycles = [n \in Nodes |-> IF n \in Declared(1) THEN {[doc |-> 1, self |-> 1]} ELSE {}]
  /\ due = [n \in Nodes |-> 0]
  /\ acl = [n \in Nodes |-> IF Is(1, n).role = "hub" THEN 1 ELSE 0]
  /\ drops = [n \in Nodes |-> IF Is(1, n).role = "hub" THEN DropsOf(1) ELSE {}]

Push ==
  /\ head = 1 /\ head' = 2
  /\ UNCHANGED <<edit, srv, self, link, due, firewall, faults>>

ServerPulls ==
  /\ srv # head /\ srv' = head
  /\ UNCHANGED <<edit, head, self, link, due, firewall, faults>>

(* Mutant of Start: FindSelf's error is ignored. *)
StartUnknown(n) ==
  /\ self[n] = 0
  /\ self' = [self EXCEPT ![n] = head]
  /\ addrs' = [addrs EXCEPT ![n] = @ \cup {Is(head, n).tunnelIP}]
  /\ routed' = [routed EXCEPT ![n] = @ \cup DocAt(head).cidr]
  /\ UNCHANGED <<edit, head, srv, dev, cycles, due, firewall, faults>>

(* Run up to the loop: the first pull, FindSelf, and bringUp, which adds   *)
(* the address to a link that is already there (AddrReplace).  Its prefix  *)
(* length is that of the overlay and makes the kernel send the overlay to  *)
(* the link; nothing changes it before the next start.  The operator gives *)
(* the --mode the document asks for.                                       *)
Start(n) ==
  /\ self[n] = 0 /\ n \in Declared(head)
  /\ self' = [self EXCEPT ![n] = head]
  /\ addrs' = [addrs EXCEPT ![n] = @ \cup {Is(head, n).tunnelIP}]
  /\ routed' = [routed EXCEPT ![n] = @ \cup DocAt(head).cidr]
  /\ UNCHANGED <<edit, head, srv, dev, cycles, due, firewall, faults>>

IsHub(n) == self[n] # 0 /\ Is(self[n], n).role = "hub"

(* reconcileOnce up to ApplyPeers, on any commit the watcher may have      *)
(* cached since the last one; a cycle that fails before changes nothing.   *)
(* A reply of the server that is old by the time it is applied adds no     *)
(* state: the cycle could as well have been over before the server moved.  *)
Cycle(n, c) ==
  /\ self[n] # 0 /\ due[n] = 0
  /\ c \in self[n]..head /\ \A o \in cycles[n] : o.doc <= c

ApplyPeers(n, c) ==
  /\ Cycle(n, c)
  /\ LET desired == Desired(n, c, self[n], srv)
     IN  desired.ok /\ dev' = [dev EXCEPT ![n] = Configured(@, desired.peers)]
  /\ cycles' = [cycles EXCEPT ![n] = {[doc |-> c, self |-> self[n]]}]
  /\ due' = [due EXCEPT ![n] = IF IsHub(n) THEN c ELSE 0]
  /\ UNCHANGED <<edit, head, srv, self, addrs, routed, firewall, faults>>

(* The request fails after its first k peers, or after all of them and     *)
(* some removals, and with it the cycle.                                   *)
ApplyPeersFails(n, c) ==
  /\ faults < MaxFaults[edit] /\ faults' = faults + 1
  /\ Cycle(n, c)
  /\ LET desired == Desired(n, c, self[n], srv)
         diff == computeDiff(dev[n], desired.peers)
         configs == PeerConfigs(diff)
     IN  /\ desired.ok
         /\ \E k \in 0..Len(configs), gone \in SUBSET diff.removed :
              /\ IF gone = {} THEN k > 0 ELSE k = Len(configs)
              /\ dev' = [dev EXCEPT ![n] = RemovePeers(ConfigurePeers(@, SubSeq(configs, 1, k)), gone)]
  /\ cycles' = [cycles EXCEPT ![n] = @ \cup {[doc |-> c, self |-> self[n]]}]
  /\ UNCHANGED <<edit, head, srv, self, addrs, routed, due, firewall>>

(* Mutant of Enforce: the ACL is compiled once, from the first document. *)
EnforceFirst(n) ==
  /\ due[n] # 0
  /\ acl' = [acl EXCEPT ![n] = due[n]]
  /\ drops' = [drops EXCEPT ![n] = DropsOf(self[n])]
  /\ due' = [due EXCEPT ![n] = 0]
  /\ UNCHANGED <<edit, head, srv, self, link, faults>>

(* Firewall.Reconcile with the document of the cycle. *)
Enforce(n) ==
  /\ due[n] # 0
  /\ acl' = [acl EXCEPT ![n] = due[n]]
  /\ drops' = [drops EXCEPT ![n] = DropsOf(due[n])]
  /\ due' = [due EXCEPT ![n] = 0]
  /\ UNCHANGED <<edit, head, srv, self, link, faults>>

(* It fails before the chain is flushed, or after.  Rules that are not     *)
(* complete drop less than the whole (Firewall!NeverOverblocks); here,     *)
(* nothing.                                                                *)
EnforceFails(n) ==
  /\ due[n] # 0
  /\ due' = [due EXCEPT ![n] = 0]
  /\ \/ UNCHANGED <<firewall, faults>>
     \/ /\ faults < MaxFaults[edit] /\ faults' = faults + 1
        /\ acl' = [acl EXCEPT ![n] = 0] /\ drops' = [drops EXCEPT ![n] = {}]
  /\ UNCHANGED <<edit, head, srv, self, link>>

(* The process of a node is what the tip says of the node, and so is its   *)
(* link, up to peers: it has no other address and leads to all of the      *)
(* overlay.                                                                *)
UpToDate(n) ==
  /\ self[n] # 0 /\ Is(self[n], n) = Is(head, n)
  /\ addrs[n] = {Is(head, n).tunnelIP} /\ DocAt(head).cidr \subseteq routed[n]

Ends(n) ==
  /\ self[n] # 0
  /\ self' = [self EXCEPT ![n] = 0] /\ due' = [due EXCEPT ![n] = 0]
  /\ UNCHANGED <<edit, head, srv>>

(* Teardown and iface.Down.  A node that the edit makes it necessary to    *)
(* restart may be stopped in any case.                                     *)
Shutdown(n) ==
  /\ Ends(n)
  /\ IF UpToDate(n) THEN faults < MaxFaults[edit] /\ faults' = faults + 1
     ELSE UNCHANGED faults
  /\ addrs' = [addrs EXCEPT ![n] = {}] /\ routed' = [routed EXCEPT ![n] = {}]
  /\ cycles' = [cycles EXCEPT ![n] = {}] /\ dev' = [dev EXCEPT ![n] = EmptyDevice]
  /\ acl' = [acl EXCEPT ![n] = 0] /\ drops' = [drops EXCEPT ![n] = {}]

(* The kernel goes on with what the process has configured. *)
Crash(n) ==
  /\ Ends(n)
  /\ faults < MaxFaults[edit] /\ faults' = faults + 1
  /\ UNCHANGED <<link, firewall>>

Next ==
  \/ Push \/ ServerPulls
  \/ \E n \in Nodes : \/ Start(n) \/ Enforce(n) \/ EnforceFails(n) \/ Shutdown(n) \/ Crash(n)
                      \/ \E c \in Commit : ApplyPeers(n, c) \/ ApplyPeersFails(n, c)

Spec == Init /\ [][Next]_vars

-----------------------------------------------------------------------------
(* The way of a packet f, from its source f[1] to its destination f[2].    *)
(* The kernel sends it to the link if a network of the link contains the   *)
(* destination.  WireGuard sends it to the peer that owns the destination  *)
(* and takes it only from the peer that owns the source; the kernel        *)
(* refuses one that bears an address of its own as the source.             *)
Hands(n, m, f) ==
  /\ f[2] \notin addrs[n] /\ f[2] \in routed[n] /\ Route(dev[n], f[2]) = m
  /\ f[1] \notin addrs[m] /\ Route(dev[m], f[1]) = n

(* A node takes packets from one source from one neighbour only, so that a *)
(* way has no cycle.                                                       *)
Paths == UNION {Injection(1..k, Nodes) : k \in 2..Cardinality(Nodes)}

(* The first node of the path sends f, the last one gets it and those in   *)
(* between forward it (EnsureIPForwarding on hubs, the host's setting      *)
(* elsewhere), through the ACL where there is one.                         *)
Carried(p, f) ==
  /\ f[1] \in addrs[p[1]] /\ f[2] \in addrs[p[Len(p)]]
  /\ \A i \in 1..Len(p) - 1 : Hands(p[i], p[i + 1], f)
  /\ \A i \in 2..Len(p) - 1 : f \notin drops[p[i]]

(* Every variable keeps its type: a running process was told what it is by *)
(* a commit that declares it (FindSelf), so a link only has addresses of   *)
(* the overlay.                                                            *)
TypeOK ==
  /\ edit \in DOMAIN Edits /\ head \in Commit /\ srv \in Commit
  /\ self \in [Nodes -> 0..2] /\ addrs \in [Nodes -> SUBSET Address]
  /\ routed \in [Nodes -> SUBSET Address]
  /\ cycles \in [Nodes -> SUBSET [doc : Commit, self : Commit]]
  /\ DOMAIN dev = Nodes /\ \A n \in Nodes : RoutesOf(dev[n]) \in [Address -> Nodes \cup {""}]
  /\ due \in [Nodes -> 0..2] /\ acl \in [Nodes -> 0..2] /\ drops \in [Nodes -> SUBSET Flow]
  /\ faults \in 0..MaxFaults[edit]

(* The nodes that a node speaks for by a commit: itself and, as a hub, its *)
(* agents.                                                                 *)
Behind(c, n) == {m \in Declared(c) : n \in {m, Is(c, m).hubName}}

(* What a document's ACL says of two nodes, by name. *)
AsNamed(c, n, m) == Policy(DocAt(c), <<Is(c, n).tunnelIP, Is(c, m).tunnelIP>>)

(* The peers of n are from cycles in which it had different places in the  *)
(* network: a request failed half-way after a restart that moved it.       *)
BetweenPlaces(n) ==
  \E o, q \in cycles[n] : Is(o.self, n).hubName # Is(q.self, n).hubName

(* Of those that n's peers are from, a document says that m speaks for the *)
(* node with an address.                                                   *)
Knows(n, m, ip) ==
  \E o \in cycles[n] : \/ \E k \in Behind(o.doc, m) : Is(o.doc, k).tunnelIP = ip
                       \/ BetweenPlaces(n) /\ m = Is(o.self, n).hubName

(* However the commits of the nodes are mixed and whatever requests failed *)
(* half-way, a packet that is forwarded and arrives came from the node     *)
(* that the first hub's document gives its source to, or from that node's  *)
(* hub, and went to the one that the last hub's gives its destination to,  *)
(* or to that node's hub: an address that has changed hands is never used  *)
(* for its former owner by a hub that has moved on (hubPeers, ApplyPeers). *)
(* Only one that is half-way to being a spoke takes its hub's word.        *)
EndsAreKnown ==
  \A p \in Paths : Len(p) > 2 =>
    \A f \in addrs[p[1]] \X addrs[p[Len(p)]] : Carried(p, f) =>
      Knows(p[2], p[1], f[1]) /\ Knows(p[Len(p) - 1], p[Len(p)], f[2])

(* When the hubs on the way have both peers and ACL of one commit, no      *)
(* packet passes between two nodes that its ACL keeps apart, whatever      *)
(* commit these two are on, whatever addresses they still have and whoever *)
(* had these addresses before; only a hub that has kept an address which   *)
(* is now its agent's is taken for that agent.  The condition is needed:   *)
(* reconcileOnce applies the peers before the ACL, hubs pull on their own, *)
(* and a hub that is half-way to being a spoke, or back, sends what it     *)
(* still has of its agents through its hub.                                *)
PolicyByName ==
  \A p \in Paths, c \in Commit :
    /\ Len(p) > 2
    /\ \A i \in 2..Len(p) - 1 : /\ acl[p[i]] = c /\ ~BetweenPlaces(p[i])
                                /\ \A o \in cycles[p[i]] : o.doc = c
    => \A f \in addrs[p[1]] \X addrs[p[Len(p)]] : Carried(p, f) =>
           \E n \in Behind(c, p[1]), m \in Behind(c, p[Len(p)]) :
             f = <<Is(c, n).tunnelIP, Is(c, m).tunnelIP>> /\ AsNamed(c, n, m) # "DROP"

(* Nothing is left to do: the server and every declared node are on the    *)
(* tip, process and link of a node are what the tip makes of them, and     *)
(* another cycle would change neither its peers nor its ACL.               *)
Settled ==
  /\ srv = head
  /\ \A n \in Declared(head) : UpToDate(n) /\ (IsHub(n) => acl[n] = head)
  /\ \A n \in Declared(head) :
       RoutesOf(Configured(dev[n], Desired(n, head, head, head).peers)) = RoutesOf(dev[n])

(* Once the network has settled, two nodes reach each other exactly when   *)
(* the ACL accepts it, whatever restarts, leftovers and mixtures of        *)
(* commits led there: PeersFor on every node, the devices and the rules on *)
(* the hubs together are what the document declares.                       *)
SettledAsDeclared ==
  Settled =>
    \A n, m \in Declared(head) : n # m =>
      LET f == <<Is(head, n).tunnelIP, Is(head, m).tunnelIP>>
      IN  (\E p \in Paths : p[1] = n /\ p[Len(p)] = m /\ Carried(p, f))
            <=> (AsNamed(head, n, m) = "ACCEPT")
=============================================================================
