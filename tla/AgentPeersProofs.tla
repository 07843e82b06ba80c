-------------------------- MODULE AgentPeersProofs --------------------------
(***************************************************************************)
(* The routes of the device an agent manages, proved for every set of      *)
(* documents, replies and addresses.  The invariant adds to TypeOK what    *)
(* the running cycle knows (its wanted peers are those of its document,    *)
(* and its diff still leads from the device to them, though the kernel     *)
(* learned endpoints meanwhile) and what the last complete configuration   *)
(* left in the device.                                                     *)
(***************************************************************************)
EXTENDS AgentPeers, PeersProofs

PeerAddrs == Addrs \cup {NoAddr}

CycleOK ==
  IF pc = "configure"
  THEN /\ cycle.doc \in Docs
       /\ PeerList(cycle.desired, PeerAddrs)
       /\ AsDeclared(cycle.desired, cycle.doc, self, reply)
       /\ IsDiff(cycle.diff, dev, cycle.desired, PeerAddrs)
  ELSE cycle = NoCycle

AppliedOK ==
  applied.doc # NoDoc =>
    /\ HasPeers(dev, applied.desired)
    /\ PeerList(applied.desired, PeerAddrs)
    /\ AsDeclared(applied.desired, applied.doc, applied.self, applied.registry)

VarsOK ==
  /\ me \in DOMAIN Modes /\ doc \in Docs /\ registry \in Replies[me]
  /\ pc \in {"exited", "loop", "compute", "configure"}
  /\ self \in {FindSelf(d, me) : d \in Docs} \cup {NoSelf}
  /\ reply \in Replies[me] \cup {{}}

DeviceOK == IsDevice(dev, PeerAddrs) /\ Disjoint(dev)

IInv == VarsOK /\ DeviceOK /\ CycleOK /\ AppliedOK

-----------------------------------------------------------------------------
(* Two devices with the same peers and the same prefixes. *)
SamePrefixes(new, old) ==
  DOMAIN new = DOMAIN old /\ \A k \in DOMAIN old : new[k].allowed = old[k].allowed

(* Learn touches endpoints only. *)
LEMMA LearnsEndpoint ==
  ASSUME NEW E, NEW old, IsDevice(old, E), NEW k \in DOMAIN old, NEW addr \in E, NEW new,
         new = [old EXCEPT ![k].endpoint = addr]
  PROVE  IsDevice(new, E) /\ SamePrefixes(new, old)
<1>1. old \in [DOMAIN old -> DevPeer(E)]
  BY DEF IsDevice
<1>2. \A l \in DOMAIN old : new[l] = IF l = k THEN [old[k] EXCEPT !.endpoint = addr] ELSE old[l]
  BY <1>1
<1>3. DOMAIN new = DOMAIN old /\ new = [l \in DOMAIN old |-> new[l]]
  BY <1>1, Zenon
<1>4. [old[k] EXCEPT !.endpoint = addr] \in DevPeer(E)
      /\ [old[k] EXCEPT !.endpoint = addr].allowed = old[k].allowed
  BY <1>1 DEF DevPeer
<1>5. \A l \in DOMAIN old : new[l] \in DevPeer(E) /\ new[l].allowed = old[l].allowed
  BY <1>1, <1>2, <1>4
<1>6. new \in [DOMAIN new -> DevPeer(E)]
  BY <1>3, <1>5, Zenon
<1> QED
  BY <1>3, <1>5, <1>6 DEF IsDevice, SamePrefixes

(* Neither the separation of the peers, nor a diff, nor the wanted peers   *)
(* depend on endpoints.                                                    *)
LEMMA EndpointsDoNotMatter ==
  ASSUME NEW new, NEW old, SamePrefixes(new, old), NEW E, NEW ps, NEW diff
  PROVE  /\ Disjoint(old) => Disjoint(new)
         /\ HasPeers(old, ps) => HasPeers(new, ps)
         /\ IsDiff(diff, old, ps, E) => IsDiff(diff, new, ps, E)
<1>1. DOMAIN new = DOMAIN old /\ \A k \in DOMAIN old : new[k].allowed = old[k].allowed
  BY DEF SamePrefixes
<1>2. Disjoint(old) => Disjoint(new)
  BY <1>1 DEF Disjoint
<1>3. HasPeers(old, ps) => HasPeers(new, ps)
  <2>1. \A j \in DOMAIN ps : ps[j].publicKey \in KeysOf(ps)
    BY DEF KeysOf
  <2> QED
    BY <1>1, <2>1 DEF HasPeers
<1>4. ASSUME IsDiff(diff, old, ps, E) PROVE IsDiff(diff, new, ps, E)
  <2>1. /\ diff.added \in Seq(WantedPeer(E)) /\ diff.updated \in Seq(WantedPeer(E))
        /\ diff.removed = DOMAIN new \ KeysOf(ps)
    BY <1>1, <1>4 DEF IsDiff
  <2>2. PICK add \in SUBSET DOMAIN ps, changed \in SUBSET DOMAIN ps :
          /\ Lists(diff.added, ps, add) /\ Lists(diff.updated, ps, changed)
          /\ add \cap changed = {}
          /\ \A i \in add : ps[i].publicKey \notin DOMAIN old
          /\ \A i \in DOMAIN ps \ add : ps[i].publicKey \in DOMAIN old
          /\ \A i \in DOMAIN ps \ (add \cup changed) : old[ps[i].publicKey].allowed = ps[i].allowed
    BY <1>4, Zenon DEF IsDiff
  <2>3. \A i \in DOMAIN ps \ (add \cup changed) : new[ps[i].publicKey].allowed = ps[i].allowed
    BY <1>1, <2>2
  <2>4. /\ \A i \in add : ps[i].publicKey \notin DOMAIN new
        /\ \A i \in DOMAIN ps \ add : ps[i].publicKey \in DOMAIN new
    BY <1>1, <2>2
  <2> QED
    BY <2>1, <2>2, <2>3, <2>4, Zenon DEF IsDiff
<1> QED
  BY <1>2, <1>3, <1>4

-----------------------------------------------------------------------------
Fails == \E n \in 0..Len(PeerConfigs(cycle.diff)), gone \in SUBSET cycle.diff.removed :
           ApplyPeersFails(n, gone)

(* A completed ApplyPeers leaves the wanted peers. *)
LEMMA Completes ==
  ASSUME DeviceOK, CycleOK, ApplyPeers
  PROVE  OnTheWay(dev', dev, cycle.desired, PeerAddrs) /\ HasPeers(dev', cycle.desired)
<1>1. /\ IsDevice(dev, PeerAddrs) /\ Disjoint(dev) /\ PeerList(cycle.desired, PeerAddrs)
      /\ IsDiff(cycle.diff, dev, cycle.desired, PeerAddrs)
      /\ dev' = IF Empty(cycle.diff) THEN dev
                ELSE RemovePeers(ConfigurePeers(dev, PeerConfigs(cycle.diff)), cycle.diff.removed)
  BY DEF DeviceOK, CycleOK, ApplyPeers
<1>2. NoAddr \in PeerAddrs
  BY DEF PeerAddrs
<1> QED
  BY <1>1, <1>2, AppliedHasPeers

(* One that fails leaves the device on the way to them, or as it was. *)
LEMMA FailsHalfWay ==
  ASSUME DeviceOK, CycleOK, NEW n \in 0..Len(PeerConfigs(cycle.diff)),
         NEW gone \in SUBSET cycle.diff.removed, ApplyPeersFails(n, gone)
  PROVE  OnTheWay(dev', dev, cycle.desired, PeerAddrs) /\ (n = 0 /\ gone = {} => dev' = dev)
<1> DEFINE cs == PeerConfigs(cycle.diff)
           ps == cycle.desired
<1>1. /\ IsDevice(dev, PeerAddrs) /\ Disjoint(dev) /\ PeerList(ps, PeerAddrs)
      /\ IsDiff(cycle.diff, dev, ps, PeerAddrs) /\ NoAddr \in PeerAddrs
      /\ dev' = RemovePeers(ConfigurePeers(dev, SubSeq(cs, 1, n)), gone)
  BY DEF DeviceOK, CycleOK, ApplyPeersFails, PeerAddrs
<1>2. PICK at : SentFor(cs, at, ps, dev, PeerAddrs)
  BY <1>1, DiffSent
<1>3. PICK bt : SentFor(SubSeq(cs, 1, n), bt, ps, dev, PeerAddrs)
  <2> HIDE DEF cs
  <2>1. n \in 0..Len(cs)
    BY DEF cs
  <2> QED
    BY <1>2, <2>1, SomeSent
<1>4. gone \subseteq DOMAIN dev \ KeysOf(ps)
  BY <1>1 DEF IsDiff
<1> HIDE DEF cs, ps
<1>5. OnTheWay(dev', dev, ps, PeerAddrs)
  BY <1>1, <1>3, <1>4, PartlyConfigured
<1>6. ASSUME n = 0, gone = {} PROVE dev' = dev
  <2>1. SubSeq(cs, 1, 0) = <<>>
    BY <1>2 DEF SentFor
  <2>2. ConfigurePeers(dev, <<>>) = dev
    <3>1. PICK g : InOrder(g, dev, <<>>)
      BY ConfiguredInOrder, Zenon
    <3> QED
      BY <3>1 DEF InOrder
  <2>3. RemovePeers(dev, {}) = dev
    BY <1>1 DEF RemovePeers, Restrict, IsDevice
  <2> QED
    BY <1>1, <1>6, <2>1, <2>2, <2>3, Zenon
<1> QED
  BY <1>5, <1>6 DEF ps

(* Compute makes a cycle. *)
LEMMA CycleMade ==
  ASSUME VarsOK, NEW dns \in [Endpoints -> Addrs \cup {BadAddr}], NEW desired,
         desired = PeersFor(doc, self, reply, doc.persistentKeepalive, dns), desired.ok
  PROVE  /\ PeerList(desired.peers, PeerAddrs) /\ AsDeclared(desired.peers, doc, self, reply)
         /\ IsDiff(computeDiff(dev, desired.peers), dev, desired.peers, PeerAddrs)
<1>1. Parsed(doc)
  BY DocsAssumption DEF VarsOK
<1>2. reply \in SUBSET Entries(Endpoints) /\ DistinctEntries(reply)
  BY RepliesAssumption, Zenon DEF VarsOK, Entries, DistinctEntries
<1>3. PeerList(desired.peers, PeerAddrs) /\ AsDeclared(desired.peers, doc, self, reply)
  BY <1>1, <1>2, PeersAsDeclared, Zenon DEF PeerAddrs
<1>4. IsDiff(computeDiff(dev, desired.peers), dev, desired.peers, PeerAddrs)
  BY <1>3, DiffComputed
<1> QED
  BY <1>3, <1>4

-----------------------------------------------------------------------------
(* The invariant holds at the start. *)
LEMMA InitOK == Init => IInv
<1> SUFFICES ASSUME Init PROVE IInv
  OBVIOUS
<1>1. VarsOK
  BY DEF Init, VarsOK
<1>2. DeviceOK
  BY DEF Init, DeviceOK, IsDevice, Disjoint, EmptyDevice
<1>3. CycleOK
  BY DEF Init, CycleOK
<1>4. AppliedOK
  BY DEF Init, AppliedOK, NotApplied
<1> QED
  BY <1>1, <1>2, <1>3, <1>4 DEF IInv

(* Every step keeps it. *)
LEMMA StepOK == IInv /\ [Next]_vars => IInv'
<1> SUFFICES ASSUME IInv, [Next]_vars PROVE IInv'
  OBVIOUS
<1>0. VarsOK /\ DeviceOK /\ CycleOK /\ AppliedOK
  BY DEF IInv
<1>1. ASSUME NEW d \in Docs, SpecChanges(d) PROVE IInv'
  BY <1>0, <1>1 DEF IInv, SpecChanges, VarsOK, DeviceOK, CycleOK, AppliedOK
<1>2. ASSUME NEW r \in Replies[me], RegistryChanges(r) PROVE IInv'
  BY <1>0, <1>2 DEF IInv, RegistryChanges, VarsOK, DeviceOK, CycleOK, AppliedOK
<1>3. ASSUME NEW k \in DOMAIN dev, NEW addr \in Addrs, Learn(k, addr) PROVE IInv'
  <2>1. IsDevice(dev', PeerAddrs) /\ SamePrefixes(dev', dev)
    <3>1. IsDevice(dev, PeerAddrs) /\ addr \in PeerAddrs
      BY <1>0 DEF DeviceOK, PeerAddrs
    <3>2. dev' = [dev EXCEPT ![k].endpoint = addr]
      BY <1>3, Zenon DEF Learn
    <3> QED
      BY <3>1, <3>2, LearnsEndpoint, Zenon
  <2>2. VarsOK'
    BY <1>0, <1>3 DEF Learn, VarsOK
  <2>3. DeviceOK'
    BY <1>0, <2>1, EndpointsDoNotMatter DEF DeviceOK
  <2>4. CycleOK'
    <3>1. pc' = pc /\ cycle' = cycle /\ self' = self /\ reply' = reply
      BY <1>3 DEF Learn
    <3>2. IsDiff(cycle.diff, dev, cycle.desired, PeerAddrs)
            => IsDiff(cycle.diff, dev', cycle.desired, PeerAddrs)
      BY <2>1, EndpointsDoNotMatter
    <3> QED
      BY <1>0, <3>1, <3>2 DEF CycleOK
  <2>5. AppliedOK'
    <3>1. applied' = applied
      BY <1>3 DEF Learn
    <3>2. HasPeers(dev, applied.desired) => HasPeers(dev', applied.desired)
      BY <2>1, EndpointsDoNotMatter
    <3> QED
      BY <1>0, <3>1, <3>2 DEF AppliedOK
  <2> QED
    BY <2>2, <2>3, <2>4, <2>5 DEF IInv
<1>4. ASSUME Start PROVE IInv'
  BY <1>0, <1>4 DEF IInv, Start, VarsOK, DeviceOK, CycleOK, AppliedOK
<1>5. ASSUME Heartbeat PROVE IInv'
  BY <1>0, <1>5 DEF IInv, Heartbeat, VarsOK, DeviceOK, CycleOK, AppliedOK
<1>6. ASSUME NEW dns \in [Endpoints -> Addrs \cup {BadAddr}], Compute(dns) PROVE IInv'
  <2> DEFINE desired == PeersFor(doc, self, reply, doc.persistentKeepalive, dns)
  <2>1. /\ pc = "compute"
        /\ IF desired.ok
           THEN /\ cycle' = [doc |-> doc, desired |-> desired.peers,
                             diff |-> computeDiff(dev, desired.peers)]
                /\ pc' = "configure"
                /\ reply' = reply
           ELSE /\ pc' = "loop" /\ reply' = {} /\ cycle' = NoCycle
        /\ UNCHANGED <<me, doc, registry, self, dev, applied>>
    BY <1>6, Zenon DEF Compute
  <2>2. \A x : x = desired /\ x.ok =>
          /\ PeerList(x.peers, PeerAddrs) /\ AsDeclared(x.peers, doc, self, reply)
          /\ IsDiff(computeDiff(dev, x.peers), dev, x.peers, PeerAddrs)
    BY <1>0, CycleMade
  <2> HIDE DEF desired
  <2>3. VarsOK'
    BY <1>0, <2>1 DEF VarsOK
  <2>4. CycleOK'
    BY <1>0, <2>1, <2>2 DEF CycleOK, VarsOK
  <2>5. DeviceOK' /\ AppliedOK'
    BY <1>0, <2>1 DEF DeviceOK, AppliedOK
  <2> QED
    BY <2>3, <2>4, <2>5 DEF IInv
<1>7. ASSUME ApplyPeers PROVE IInv'
  <2>1. OnTheWay(dev', dev, cycle.desired, PeerAddrs) /\ HasPeers(dev', cycle.desired)
    BY <1>0, <1>7, Completes
  <2>2. VarsOK' /\ CycleOK'
    BY <1>0, <1>7 DEF ApplyPeers, EndCycle, VarsOK, CycleOK
  <2>3. DeviceOK'
    BY <2>1 DEF OnTheWay, DeviceOK
  <2>4. AppliedOK'
    BY <1>0, <1>7, <2>1 DEF ApplyPeers, Applied, AppliedOK, CycleOK
  <2> QED
    BY <2>2, <2>3, <2>4 DEF IInv
<1>8. ASSUME Fails PROVE IInv'
  <2>1. PICK n \in 0..Len(PeerConfigs(cycle.diff)), gone \in SUBSET cycle.diff.removed :
          ApplyPeersFails(n, gone)
    BY <1>8 DEF Fails
  <2>2. OnTheWay(dev', dev, cycle.desired, PeerAddrs) /\ (n = 0 /\ gone = {} => dev' = dev)
    BY <1>0, <2>1, FailsHalfWay
  <2>3. VarsOK' /\ CycleOK'
    BY <1>0, <2>1 DEF ApplyPeersFails, EndCycle, VarsOK, CycleOK
  <2>4. DeviceOK'
    BY <2>2 DEF OnTheWay, DeviceOK
  <2>5. AppliedOK'
    BY <1>0, <2>1, <2>2 DEF ApplyPeersFails, NotApplied, AppliedOK
  <2> QED
    BY <2>3, <2>4, <2>5 DEF IInv
<1>9. ASSUME Shutdown PROVE IInv'
  <2>1. DeviceOK'
    BY <1>9 DEF Shutdown, DeviceOK, IsDevice, Disjoint, EmptyDevice
  <2> QED
    BY <1>0, <1>9, <2>1 DEF IInv, Shutdown, VarsOK, CycleOK, AppliedOK, NotApplied
<1>10. ASSUME Crash PROVE IInv'
  BY <1>0, <1>10 DEF IInv, Crash, VarsOK, DeviceOK, CycleOK, AppliedOK
<1>11. ASSUME UNCHANGED vars PROVE IInv'
  BY <1>0, <1>11 DEF vars, IInv, VarsOK, DeviceOK, CycleOK, AppliedOK
<1> QED
  BY <1>1, <1>2, <1>3, <1>4, <1>5, <1>6, <1>7, <1>8, <1>9, <1>10, <1>11 DEF Next, Fails

(* The invariant holds in every run. *)
LEMMA Invariant == Spec => []IInv
BY InitOK, StepOK, PTL DEF Spec

-----------------------------------------------------------------------------
(* The variables stay in their ranges and the peers of the device share no *)
(* prefix, whatever sequence of documents, replies, failures, handshakes   *)
(* and restarts the agent lives through.                                   *)
THEOREM TypeCorrect == Spec => []TypeOK
<1>1. IInv => TypeOK
  <2> SUFFICES ASSUME IInv PROVE TypeOK
    OBVIOUS
  <2>1. pc = "configure" <=> cycle.doc # NoDoc
    BY DocsAssumption DEF IInv, CycleOK, NoCycle
  <2>2. ASSUME NEW k \in DOMAIN dev
        PROVE  /\ k # BadKey /\ dev[k].endpoint \in Addrs \cup {NoAddr} /\ dev[k].keepalive % 1000 = 0
               /\ \A l \in DOMAIN dev \ {k} : dev[k].allowed \cap dev[l].allowed = {}
    <3>1. k \in PublicKeys /\ dev[k] \in DevPeer(PeerAddrs)
      BY DEF IInv, DeviceOK, IsDevice
    <3>2. dev[k].keepalive \in WholeSeconds
      BY <3>1 DEF DevPeer
    <3> QED
      BY <3>1, <3>2, Zenon DEF IInv, DeviceOK, Disjoint, PublicKeys, DevPeer, PeerAddrs, WholeSeconds
  <2> QED
    BY <2>1, <2>2 DEF IInv, VarsOK, TypeOK
<1> QED
  BY <1>1, Invariant, PTL

(* The addresses of the documents are naturals. *)
LEMMA AddressesAreNat == Addresses \subseteq Nat
<1>1. \A d \in Docs : d.cidr \subseteq Nat
  BY DocsAssumption, AddressesNat DEF Prefixes
<1> QED
  BY <1>1 DEF Addresses

(* After a completed ApplyPeers the device has exactly the wanted peers and *)
(* leads every overlay address to its next hop, until the next              *)
(* configuration: addition before update before removal repairs whatever    *)
(* was in the device.                                                       *)
THEOREM DeclaredCorrect == Spec => []DeviceAsDeclared
<1>1. IInv => DeviceAsDeclared
  <2> SUFFICES ASSUME IInv, applied.doc # NoDoc
               PROVE  /\ DOMAIN dev = {p.publicKey : p \in Range(applied.desired)}
                      /\ RoutesAs(applied.doc, applied.self, applied.registry)
    BY DEF DeviceAsDeclared
  <2>1. /\ IsDevice(dev, PeerAddrs) /\ HasPeers(dev, applied.desired)
        /\ AsDeclared(applied.desired, applied.doc, applied.self, applied.registry)
    BY DEF IInv, DeviceOK, AppliedOK
  <2>2. DOMAIN dev = {p.publicKey : p \in Range(applied.desired)}
    BY <2>1 DEF HasPeers, KeysOf, Range
  <2>3. \A ip \in Nat : Route(dev, ip) = NextHop(applied.doc, applied.self, applied.registry, ip)
    BY <2>1, RoutesDeclared
  <2> QED
    BY <2>2, <2>3, AddressesAreNat DEF RoutesAs
<1> QED
  BY <1>1, Invariant, PTL

(* While a device is configured, completely or half-way, no packet goes    *)
(* astray: it goes where it could go before or where the cycle wants it,   *)
(* and a route that is right already is never interrupted.                 *)
THEOREM MovesCorrect == Spec => RoutesMoveDirectly
<1>1. IInv /\ [Next]_vars => [pc = "configure" /\ pc' = "loop" =>
        \A ip \in Addresses :
          LET before == Holders(dev, ip)
              after == NextHop(cycle.doc, self, reply, ip)
          IN  Route(dev', ip) \in before \cup {after} \cup IF before = {after} THEN {} ELSE {""}]_vars
  <2> SUFFICES ASSUME IInv, Next, pc = "configure", pc' = "loop", NEW ip \in Addresses
               PROVE  LET before == Holders(dev, ip)
                          after == NextHop(cycle.doc, self, reply, ip)
                      IN  Route(dev', ip) \in before \cup {after} \cup IF before = {after} THEN {} ELSE {""}
    BY Zenon DEF vars
  <2>1. ApplyPeers \/ Fails
    BY DEF Next, Fails, SpecChanges, RegistryChanges, Learn, Start, Heartbeat, Compute, Shutdown, Crash
  <2>2. OnTheWay(dev', dev, cycle.desired, PeerAddrs)
    BY <2>1, Completes, FailsHalfWay DEF IInv, Fails
  <2>3. AsDeclared(cycle.desired, cycle.doc, self, reply)
    BY DEF IInv, CycleOK
  <2>4. ip \in Nat
    BY AddressesAreNat
  <2> QED
    BY <2>2, <2>3, <2>4, RoutesOnTheWay, Zenon
<1> QED
  BY <1>1, Invariant, PTL DEF Spec, RoutesMoveDirectly
=============================================================================
