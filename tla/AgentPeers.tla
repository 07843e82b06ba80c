----------------------------- MODULE AgentPeers -----------------------------
(***************************************************************************)
(* The peer half of a running agent (internal/agentcore, Run and           *)
(* reconcileOnce up to ApplyPeers) with the WireGuard device it manages.   *)
(* The document, the server's reply and DNS change under its hands,        *)
(* handshakes teach the device endpoints, configuring the device may fail  *)
(* half-way, and the device survives the process.                          *)
(***************************************************************************)
EXTENDS WgDevice

CONSTANTS
  Modes,     \* names of agents, with their --mode: "hub" or "spoke"
  Docs,      \* documents its watcher may cache
  Replies,   \* for each of them, the registries a Heartbeat may return
  Endpoints, \* endpoints found in Replies
  Addrs,     \* addresses a name resolves to or a handshake comes from
  NoDoc      \* no document

ASSUME DocsAssumption == NoDoc \notin Docs /\ \A d \in Docs : Parsed(d)

(* The server keeps one entry for each name, and every agent generated a   *)
(* key of its own.                                                         *)
ASSUME RepliesAssumption ==
  \A n \in DOMAIN Modes : \A r \in Replies[n] :
    /\ r \in SUBSET [name : STRING, publicKey : STRING, endpoint : Endpoints \cup {""}]
    /\ DistinctEntries(r)

VARIABLES
  me,        \* the name of the agent at hand, which never changes
  doc,       \* the document Current returns
  registry,  \* what the server would answer now
  pc,        \* where the agent is
  self,      \* a.self, resolved when Run starts
  reply,     \* the registry of the running cycle
  cycle,     \* the document, the desired peers and the diff of the running cycle
  dev,       \* the peers of the kernel device
  applied    \* history: the document, self, registry and desired peers that the
             \* device was last completely configured with

NoCycle == [doc |-> NoDoc, desired |-> <<>>, diff |-> [added |-> <<>>, updated |-> <<>>, removed |-> {}]]
NotApplied == [doc |-> NoDoc, self |-> NoSelf, registry |-> {}, desired |-> <<>>]

vars == <<me, doc, registry, pc, self, reply, cycle, dev, applied>>

Init ==
  /\ me \in DOMAIN Modes /\ doc \in Docs /\ registry \in Replies[me]
  /\ pc = "exited" /\ self = NoSelf /\ reply = {} /\ cycle = NoCycle
  /\ dev = EmptyDevice /\ applied = NotApplied

SpecChanges(d) ==
  /\ doc' = d
  /\ UNCHANGED <<me, registry, pc, self, reply, cycle, dev, applied>>

RegistryChanges(r) ==
  /\ registry' = r
  /\ UNCHANGED <<me, doc, pc, self, reply, cycle, dev, applied>>

(* A peer's authenticated packet moves its endpoint. *)
Learn(k, addr) ==
  /\ k \in DOMAIN dev
  /\ dev' = [dev EXCEPT ![k].endpoint = addr]
  /\ UNCHANGED <<me, doc, registry, pc, self, reply, cycle, applied>>

-----------------------------------------------------------------------------
(* FindSelf, the check of the mode, and bringUp, which keeps the peers of  *)
(* a link that is already there.                                           *)
Start ==
  /\ pc = "exited"
  /\ FindSelf(doc, me) # NoSelf
  /\ (FindSelf(doc, me).role = "hub") = (Modes[me] = "hub")
  /\ self' = FindSelf(doc, me)
  /\ pc' = "loop"
  /\ UNCHANGED <<me, doc, registry, reply, cycle, dev, applied>>

(* A heartbeat that fails ends the cycle with nothing changed. *)
Heartbeat ==
  /\ pc = "loop"
  /\ reply' = registry
  /\ pc' = "compute"
  /\ UNCHANGED <<me, doc, registry, self, cycle, dev, applied>>

Compute(dns) ==
  LET desired == PeersFor(doc, self, reply, doc.persistentKeepalive, dns)
  IN  /\ pc = "compute"
      /\ IF desired.ok
         THEN /\ cycle' = [doc |-> doc, desired |-> desired.peers,
                           diff |-> computeDiff(dev, desired.peers)]
              /\ pc' = "configure"
              /\ UNCHANGED reply
         ELSE /\ pc' = "loop" /\ reply' = {} /\ cycle' = NoCycle
      /\ UNCHANGED <<me, doc, registry, self, dev, applied>>

Applied == [doc |-> cycle.doc, self |-> self, registry |-> reply, desired |-> cycle.desired]

EndCycle == pc' = "loop" /\ reply' = {} /\ cycle' = NoCycle

ApplyPeers ==
  /\ pc = "configure"
  /\ dev' = IF Empty(cycle.diff) THEN dev
            ELSE RemovePeers(ConfigurePeers(dev, PeerConfigs(cycle.diff)), cycle.diff.removed)
  /\ applied' = Applied
  /\ EndCycle
  /\ UNCHANGED <<me, doc, registry, self>>

(* Mutant of ApplyPeersFails: a device rewritten from nothing (ReplacePeers). *)
ApplyPeersFailsAnew(n, gone) ==
  /\ pc = "configure"
  /\ gone = {}
  /\ dev' = ConfigurePeers(EmptyDevice, SubSeq(PeerConfigs(cycle.diff), 1, n))
  /\ applied' = NotApplied
  /\ EndCycle
  /\ UNCHANGED <<me, doc, registry, self>>

(* ConfigureDevice fails after the first n peers and some removals. *)
ApplyPeersFails(n, gone) ==
  /\ pc = "configure"
  /\ n < Len(PeerConfigs(cycle.diff)) => gone = {}
  /\ dev' = RemovePeers(ConfigurePeers(dev, SubSeq(PeerConfigs(cycle.diff), 1, n)), gone)
  /\ applied' = IF n = 0 /\ gone = {} THEN applied ELSE NotApplied
  /\ EndCycle
  /\ UNCHANGED <<me, doc, registry, self>>

(* The process stops and iface.Down deletes the link ... *)
Shutdown ==
  /\ pc = "loop"
  /\ dev' = EmptyDevice /\ applied' = NotApplied
  /\ pc' = "exited" /\ self' = NoSelf
  /\ UNCHANGED <<me, doc, registry, reply, cycle>>

(* ... or dies, or fails to delete it. *)
Crash ==
  /\ pc # "exited"
  /\ pc' = "exited" /\ self' = NoSelf /\ reply' = {} /\ cycle' = NoCycle
  /\ UNCHANGED <<me, doc, registry, dev, applied>>

Next ==
  \/ \E d \in Docs : SpecChanges(d)
  \/ \E r \in Replies[me] : RegistryChanges(r)
  \/ \E k \in DOMAIN dev, addr \in Addrs : Learn(k, addr)
  \/ Start \/ Heartbeat
  \/ \E dns \in [Endpoints -> Addrs \cup {BadAddr}] : Compute(dns)
  \/ ApplyPeers
  \/ \E n \in 0..Len(PeerConfigs(cycle.diff)), gone \in SUBSET cycle.diff.removed :
       ApplyPeersFails(n, gone)
  \/ Shutdown \/ Crash

Spec == Init /\ [][Next]_vars

(* The ticker keeps waking the loop, and a call returns. *)
Fairness ==
  /\ WF_vars(Heartbeat)
  /\ WF_vars(\E dns \in [Endpoints -> Addrs \cup {BadAddr}] : Compute(dns))
  /\ WF_vars(ApplyPeers)

FairSpec == Spec /\ Fairness

-----------------------------------------------------------------------------
Addresses == UNION {d.cidr : d \in Docs}

RoutesAs(d, s, r) == \A ip \in Addresses : Route(dev, ip) = NextHop(d, s, r, ip)

(* Every variable stays in its range; in particular the peers of a device  *)
(* never share a prefix.                                                   *)
TypeOK ==
  /\ me \in DOMAIN Modes /\ doc \in Docs /\ registry \in Replies[me]
  /\ pc \in {"exited", "loop", "compute", "configure"}
  /\ self \in {FindSelf(d, me) : d \in Docs} \cup {NoSelf}
  /\ reply \in Replies[me] \cup {{}}
  /\ pc = "configure" <=> cycle.doc # NoDoc
  /\ \A k \in DOMAIN dev :
       /\ k # BadKey
       /\ dev[k].endpoint \in Addrs \cup {NoAddr}
       /\ dev[k].keepalive % 1000 = 0
       /\ \A l \in DOMAIN dev \ {k} : dev[k].allowed \cap dev[l].allowed = {}

(* A completed ApplyPeers leaves exactly the wanted peers in the device,   *)
(* and every overlay address leads to the peer that the document and the   *)
(* registry of that cycle make its next hop; whatever the device held      *)
(* before (addresses that moved between peers, keys that were replaced, a  *)
(* half-written configuration, the peers of an earlier process).  It stays *)
(* so until the next configuration.                                        *)
DeviceAsDeclared ==
  applied.doc # NoDoc =>
    /\ DOMAIN dev = {p.publicKey : p \in Range(applied.desired)}
    /\ RoutesAs(applied.doc, applied.self, applied.registry)

(* While a device is reconfigured, and when that fails half-way, a packet  *)
(* goes to a peer that had its address before or to its next hop of this   *)
(* cycle, or nowhere, and it is not disturbed where only the next hop had  *)
(* the address: added peers before updated ones before removed ones never  *)
(* misdirect a packet.                                                     *)
RoutesMoveDirectly ==
  [][pc = "configure" /\ pc' = "loop" =>
       \A ip \in Addresses :
         LET before == Holders(dev, ip)
             after == NextHop(cycle.doc, self, reply, ip)
         IN  Route(dev', ip) \in before \cup {after} \cup IF before = {after} THEN {} ELSE {""}]_vars

(* Once document and registry rest and calls succeed, a running agent that *)
(* is what the document says it is ends up with the declared routes and    *)
(* keeps them, though DNS answers and handshakes go on changing endpoints. *)
CallsSucceed ==
  /\ pc = "compute" /\ pc' # "compute" => pc' = "configure"
  /\ pc = "configure" /\ pc' # "configure" => applied' = Applied

RoutesConverge ==
  <>[][UNCHANGED <<doc, registry>> /\ pc' # "exited" /\ CallsSucceed]_vars
    => <>[](pc # "exited" /\ self = FindSelf(doc, me) => RoutesAs(doc, self, registry))
=============================================================================
