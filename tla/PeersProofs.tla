---------------------------- MODULE PeersProofs ----------------------------
(***************************************************************************)
(* A device that is configured with what PeersFor makes of a document      *)
(* routes as the document and the registry say, completely configured or   *)
(* half-way: computeDiff lists what is missing, PeerConfigs sends it, and  *)
(* the wanted peers serve each address at its next hop.                    *)
(***************************************************************************)
EXTENDS DocumentProofs

(* Peers to be installed: different keys, different prefixes. *)
WantedPeer(E) == [publicKey : PublicKeys, endpoint : E, allowed : SUBSET Prefixes, keepalive : Int]

KeysOf(ps) == {ps[i].publicKey : i \in DOMAIN ps}

PeerList(ps, E) ==
  /\ ps \in Seq(WantedPeer(E))
  /\ \A i, j \in DOMAIN ps :
       i # j => ps[i].publicKey # ps[j].publicKey /\ ps[i].allowed \cap ps[j].allowed = {}

(* A diff between a device and the wanted peers, of which those at places  *)
(* new are missing and those at places changed may differ.  It stays one   *)
(* while the kernel learns endpoints.                                      *)
IsDiff(diff, dev, ps, E) ==
  /\ diff.added \in Seq(WantedPeer(E)) /\ diff.updated \in Seq(WantedPeer(E))
  /\ diff.removed = DOMAIN dev \ KeysOf(ps)
  /\ \E new, changed \in SUBSET DOMAIN ps :
       /\ Lists(diff.added, ps, new) /\ Lists(diff.updated, ps, changed)
       /\ new \cap changed = {}
       /\ \A i \in new : ps[i].publicKey \notin DOMAIN dev
       /\ \A i \in DOMAIN ps \ new : ps[i].publicKey \in DOMAIN dev
       /\ \A i \in DOMAIN ps \ (new \cup changed) : dev[ps[i].publicKey].allowed = ps[i].allowed

(* computeDiff finds what differs. *)
LEMMA DiffComputed ==
  ASSUME NEW E, NEW dev, NEW ps, PeerList(ps, E)
  PROVE  IsDiff(computeDiff(dev, ps), dev, ps, E)
<1> DEFINE key(i) == ps[i].publicKey
           new == {i \in DOMAIN ps : key(i) \notin DOMAIN dev}
           changed == {i \in DOMAIN ps \ new : ~peersEqual(dev[key(i)], ps[i])}
           diff == computeDiff(dev, ps)
<1>1. ps \in Seq(WantedPeer(E))
  BY DEF PeerList
<1>2. /\ diff.added = Selected(ps, new) /\ diff.updated = Selected(ps, changed)
      /\ diff.removed = DOMAIN dev \ {p.publicKey : p \in Range(ps)}
  BY DEF computeDiff
<1>3. {p.publicKey : p \in Range(ps)} = {key(i) : i \in DOMAIN ps}
  BY DEF Range
<1>4. new \in SUBSET DOMAIN ps /\ changed \in SUBSET DOMAIN ps /\ new \cap changed = {}
  OBVIOUS
<1>5. /\ Selected(ps, new) \in Seq(WantedPeer(E)) /\ Lists(Selected(ps, new), ps, new)
      /\ Selected(ps, changed) \in Seq(WantedPeer(E)) /\ Lists(Selected(ps, changed), ps, changed)
  <2> HIDE DEF new, changed
  <2> QED  BY <1>1, <1>4, SelectedLists
<1>6. \A i \in DOMAIN ps \ (new \cup changed) : dev[key(i)].allowed = ps[i].allowed
  BY Zenon DEF peersEqual
<1>7. /\ \A i \in new : key(i) \notin DOMAIN dev
      /\ \A i \in DOMAIN ps \ new : key(i) \in DOMAIN dev
  OBVIOUS
<1> HIDE DEF new, changed, diff
<1>8. Lists(diff.added, ps, new) /\ Lists(diff.updated, ps, changed)
  BY <1>2, <1>5
<1>9. diff.removed = DOMAIN dev \ KeysOf(ps)
  BY <1>2, <1>3 DEF KeysOf
<1>10. diff.added \in Seq(WantedPeer(E)) /\ diff.updated \in Seq(WantedPeer(E))
  BY <1>2, <1>5
<1> QED
  BY <1>4, <1>6, <1>7, <1>8, <1>9, <1>10, Zenon DEF IsDiff, key, diff

(* The requests cs, of which the i-th installs the peer at place at[i]. *)
SentFor(cs, at, ps, dev, E) ==
  /\ cs \in Seq(Config(E))
  /\ at \in [DOMAIN cs -> DOMAIN ps]
  /\ \A i, j \in DOMAIN cs : at[i] = at[j] => i = j
  /\ \A i \in DOMAIN cs : /\ cs[i].publicKey = ps[at[i]].publicKey
                          /\ cs[i].allowed = ps[at[i]].allowed
                          /\ cs[i].replace \/ cs[i].publicKey \notin DOMAIN dev

(* A peer for which there is no request is as wanted. *)
Complete(cs, at, ps, dev) ==
  \A j \in DOMAIN ps : \/ \E i \in DOMAIN cs : at[i] = j
                       \/ ps[j].publicKey \in DOMAIN dev /\ dev[ps[j].publicKey].allowed = ps[j].allowed

(* peerToConfig copies the key and the prefixes. *)
LEMMA ConfigOfPeer ==
  ASSUME NEW E, NEW p \in WantedPeer(E), NEW b \in BOOLEAN
  PROVE  /\ peerToConfig(p, b) \in Config(E)
         /\ peerToConfig(p, b).publicKey = p.publicKey
         /\ peerToConfig(p, b).allowed = p.allowed
         /\ peerToConfig(p, b).replace = b
BY DEF peerToConfig, WantedPeer, Config

(* ApplyPeers asks for what the diff says. *)
LEMMA DiffSent ==
  ASSUME NEW E, NEW dev, NEW ps, PeerList(ps, E), NEW diff, IsDiff(diff, dev, ps, E)
  PROVE  \E at : SentFor(PeerConfigs(diff), at, ps, dev, E) /\ Complete(PeerConfigs(diff), at, ps, dev)
<1> DEFINE A == [i \in DOMAIN diff.added |-> peerToConfig(diff.added[i], FALSE)]
           U == [i \in DOMAIN diff.updated |-> peerToConfig(diff.updated[i], TRUE)]
           cs == A \o U
           key(i) == ps[i].publicKey
           wants(i) == ps[i].allowed
<1>1. PICK new, changed \in SUBSET DOMAIN ps :
        /\ Lists(diff.added, ps, new) /\ Lists(diff.updated, ps, changed)
        /\ new \cap changed = {}
        /\ \A i \in new : key(i) \notin DOMAIN dev
        /\ \A i \in DOMAIN ps \ new : key(i) \in DOMAIN dev
        /\ \A i \in DOMAIN ps \ (new \cup changed) : dev[key(i)].allowed = wants(i)
  BY Zenon DEF IsDiff
<1>2. PICK a \in [DOMAIN diff.added -> new] :
        /\ \A j \in DOMAIN diff.added : diff.added[j] = ps[a[j]]
        /\ \A i \in new : \E j \in DOMAIN diff.added : a[j] = i
        /\ \A j, k \in DOMAIN diff.added : a[j] = a[k] => j = k
  BY <1>1, Zenon DEF Lists
<1>3. PICK u \in [DOMAIN diff.updated -> changed] :
        /\ \A j \in DOMAIN diff.updated : diff.updated[j] = ps[u[j]]
        /\ \A i \in changed : \E j \in DOMAIN diff.updated : u[j] = i
        /\ \A j, k \in DOMAIN diff.updated : u[j] = u[k] => j = k
  BY <1>1, Zenon DEF Lists
<1>4. /\ diff.added \in Seq(WantedPeer(E)) /\ diff.updated \in Seq(WantedPeer(E))
  BY DEF IsDiff
<1>5. /\ Len(diff.added) \in Nat /\ DOMAIN diff.added = 1..Len(diff.added)
      /\ \A i \in DOMAIN diff.added : diff.added[i] \in WantedPeer(E)
  BY <1>4
<1>6. /\ Len(diff.updated) \in Nat /\ DOMAIN diff.updated = 1..Len(diff.updated)
      /\ \A i \in DOMAIN diff.updated : diff.updated[i] \in WantedPeer(E)
  BY <1>4
<1>7. A \in [1..Len(diff.added) -> Config(E)] /\ U \in [1..Len(diff.updated) -> Config(E)]
  BY <1>5, <1>6, ConfigOfPeer, Zenon
<1>8. /\ DOMAIN A = DOMAIN diff.added /\ DOMAIN U = DOMAIN diff.updated
      /\ \A i \in DOMAIN A : A[i].publicKey = key(a[i]) /\ A[i].allowed = wants(a[i])
      /\ \A i \in DOMAIN U : U[i].publicKey = key(u[i]) /\ U[i].allowed = wants(u[i]) /\ U[i].replace
  <2>1. DOMAIN A = DOMAIN diff.added /\ DOMAIN U = DOMAIN diff.updated
    OBVIOUS
  <2>2. ASSUME NEW i \in DOMAIN diff.added
        PROVE  A[i].publicKey = key(a[i]) /\ A[i].allowed = wants(a[i])
    <3>1. A[i] = peerToConfig(diff.added[i], FALSE) /\ diff.added[i] = ps[a[i]]
      BY <1>2, Zenon
    <3>2. diff.added[i] \in WantedPeer(E)
      BY <1>5
    <3> QED
      BY <3>1, <3>2, ConfigOfPeer, Zenon
  <2>3. ASSUME NEW i \in DOMAIN diff.updated
        PROVE  U[i].publicKey = key(u[i]) /\ U[i].allowed = wants(u[i]) /\ U[i].replace
    <3>1. U[i] = peerToConfig(diff.updated[i], TRUE) /\ diff.updated[i] = ps[u[i]]
      BY <1>3, Zenon
    <3>2. diff.updated[i] \in WantedPeer(E)
      BY <1>6
    <3> QED
      BY <3>1, <3>2, ConfigOfPeer, Zenon
  <2> HIDE DEF A, U
  <2> QED
    BY <2>1, <2>2, <2>3
<1>9. PeerConfigs(diff) = cs
  BY DEF PeerConfigs
<1> HIDE DEF A, U
<1>10. /\ A \in Seq(Config(E)) /\ U \in Seq(Config(E))
       /\ Len(A) = Len(diff.added) /\ Len(U) = Len(diff.updated)
  BY <1>5, <1>6, <1>7, IsList, Zenon
<1> DEFINE m == Len(A)
           n == Len(U)
           at == [i \in 1..(m + n) |-> IF i <= m THEN a[i] ELSE u[i - m]]
<1>11. m \in Nat /\ n \in Nat /\ DOMAIN A = 1..m /\ DOMAIN U = 1..n
  BY <1>5, <1>6, <1>8, <1>10
<1>12. /\ cs \in Seq(Config(E)) /\ DOMAIN cs = 1..(m + n)
       /\ \A i \in 1..m : cs[i] = A[i]
       /\ \A i \in 1..n : cs[m + i] = U[i]
  <2> HIDE DEF at, key, wants
  <2>1. A \in Seq(Config(E)) /\ U \in Seq(Config(E))
    BY <1>10
  <2> QED
    BY <2>1, Joined
<1> HIDE DEF cs, m, n, key, wants
<1>13. ASSUME NEW i \in 1..(m + n)
       PROVE  \/ i \in 1..m /\ cs[i] = A[i] /\ at[i] = a[i]
              \/ i - m \in 1..n /\ cs[i] = U[i - m] /\ at[i] = u[i - m] /\ ~(i <= m)
  <2>1. CASE i <= m
    BY <1>11, <1>12, <2>1
  <2>2. CASE ~(i <= m)
    <3>1. i - m \in 1..n /\ m + (i - m) = i
      BY <1>11, <2>2
    <3>2. cs[m + (i - m)] = U[i - m]
      BY <1>12, <3>1
    <3> QED
      BY <2>2, <3>1, <3>2
  <2> QED
    BY <2>1, <2>2
<1>14. /\ \A i \in 1..m : i \in 1..(m + n) /\ at[i] = a[i]
       /\ \A i \in 1..n : m + i \in 1..(m + n) /\ at[m + i] = u[i]
  <2>1. ASSUME NEW i \in 1..n PROVE m + i \in 1..(m + n) /\ ~(m + i <= m) /\ m + i - m = i
    BY <1>11
  <2> QED
    BY <1>11, <2>1
<1> HIDE DEF at
<1>15. /\ \A i \in 1..m : a[i] \in new
       /\ \A i \in 1..n : u[i] \in changed
       /\ \A i, j \in 1..m : a[i] = a[j] => i = j
       /\ \A i, j \in 1..n : u[i] = u[j] => i = j
  <2>1. DOMAIN diff.added = 1..m /\ DOMAIN diff.updated = 1..n
    BY <1>8, <1>11
  <2> QED
    BY <1>2, <1>3, <2>1
<1>16. at \in [DOMAIN cs -> DOMAIN ps]
  <2>1. \A i \in 1..(m + n) : at[i] \in DOMAIN ps
    BY <1>1, <1>13, <1>15
  <2> QED
    BY <1>12, <2>1 DEF at
<1>17. ASSUME NEW i \in 1..(m + n), NEW j \in 1..(m + n), at[i] = at[j] PROVE i = j
  <2> DEFINE First(l) == l \in 1..m /\ at[l] = a[l]
             Second(l) == l - m \in 1..n /\ at[l] = u[l - m]
  <2>1. (First(i) \/ Second(i)) /\ (First(j) \/ Second(j))
    BY <1>13
  <2>2. CASE First(i) /\ First(j)
    BY <1>15, <1>17, <2>2, Zenon
  <2>3. CASE Second(i) /\ Second(j)
    <3>1. i - m = j - m
      BY <1>15, <1>17, <2>3, Zenon
    <3> QED
      BY <1>11, <3>1
  <2>4. CASE (First(i) /\ Second(j)) \/ (Second(i) /\ First(j))
    BY <1>1, <1>15, <1>17, <2>4
  <2> QED
    BY <2>1, <2>2, <2>3, <2>4
<1>18. ASSUME NEW i \in 1..(m + n)
       PROVE  /\ cs[i].publicKey = key(at[i]) /\ cs[i].allowed = wants(at[i])
              /\ cs[i].replace \/ cs[i].publicKey \notin DOMAIN dev
  <2>1. CASE i \in 1..m /\ cs[i] = A[i] /\ at[i] = a[i]
    <3>1. A[i].publicKey = key(a[i]) /\ A[i].allowed = wants(a[i])
      BY <1>8, <1>11, <2>1
    <3>2. key(a[i]) \notin DOMAIN dev
      BY <1>1, <1>15, <2>1
    <3> QED
      BY <2>1, <3>1, <3>2
  <2>2. CASE i - m \in 1..n /\ cs[i] = U[i - m] /\ at[i] = u[i - m] /\ ~(i <= m)
    BY <1>8, <1>11, <2>2
  <2> QED
    BY <1>13, <2>1, <2>2
<1>19. ASSUME NEW j \in DOMAIN ps
       PROVE  (\E i \in 1..(m + n) : at[i] = j) \/ (key(j) \in DOMAIN dev /\ dev[key(j)].allowed = wants(j))
  <2>1. CASE j \in new
    <3>1. PICK i \in 1..m : a[i] = j
      BY <1>2, <1>8, <1>11, <2>1
    <3> QED
      BY <1>14, <3>1
  <2>2. CASE j \in changed
    <3>1. PICK i \in 1..n : u[i] = j
      BY <1>3, <1>8, <1>11, <2>2
    <3> QED
      BY <1>14, <3>1
  <2>3. CASE j \notin new \cup changed
    BY <1>1, <2>3
  <2> QED
    BY <2>1, <2>2, <2>3
<1>20. SentFor(cs, at, ps, dev, E)
  BY <1>12, <1>16, <1>17, <1>18 DEF SentFor, key, wants
<1>21. Complete(cs, at, ps, dev)
  BY <1>12, <1>19 DEF Complete, key, wants
<1> QED
  BY <1>9, <1>20, <1>21

(* They are requests for different peers with different prefixes. *)
LEMMA SentRequests ==
  ASSUME NEW E, NEW dev, NEW ps, PeerList(ps, E), NEW cs, NEW at, SentFor(cs, at, ps, dev, E)
  PROVE  Requests(cs, dev, E)
<1> DEFINE key(i) == ps[i].publicKey
           wants(i) == ps[i].allowed
<1>1. \A i, j \in DOMAIN ps : i # j => key(i) # key(j) /\ wants(i) \cap wants(j) = {}
  BY DEF PeerList
<1>2. /\ at \in [DOMAIN cs -> DOMAIN ps]
      /\ \A i, j \in DOMAIN cs : at[i] = at[j] => i = j
      /\ \A i \in DOMAIN cs : cs[i].publicKey = key(at[i]) /\ cs[i].allowed = wants(at[i])
  BY Zenon DEF SentFor
<1> HIDE DEF key, wants
<1>3. ASSUME NEW i \in DOMAIN cs, NEW j \in DOMAIN cs, i # j
      PROVE  cs[i].publicKey # cs[j].publicKey /\ cs[i].allowed \cap cs[j].allowed = {}
  <2>1. at[i] \in DOMAIN ps /\ at[j] \in DOMAIN ps /\ at[i] # at[j]
    BY <1>2, <1>3
  <2> QED
    BY <1>1, <1>2, <2>1
<1> QED
  BY <1>3, Zenon DEF Requests, SentFor

(* So is the part of them that was sent before a failure. *)
LEMMA SomeSent ==
  ASSUME NEW E, NEW dev, NEW ps, NEW cs, NEW at, SentFor(cs, at, ps, dev, E), NEW n \in 0..Len(cs)
  PROVE  \E bt : SentFor(SubSeq(cs, 1, n), bt, ps, dev, E)
<1> DEFINE some == SubSeq(cs, 1, n)
           bt == [i \in 1..n |-> at[i]]
<1>1. cs \in Seq(Config(E))
  BY DEF SentFor
<1>2. /\ some \in Seq(Config(E)) /\ DOMAIN some = 1..n /\ 1..n \subseteq DOMAIN cs
      /\ \A i \in 1..n : some[i] = cs[i]
  BY <1>1
<1> HIDE DEF some
<1>3. /\ at \in [DOMAIN cs -> DOMAIN ps]
      /\ \A i, j \in DOMAIN cs : at[i] = at[j] => i = j
      /\ \A i \in DOMAIN cs : /\ cs[i].publicKey = ps[at[i]].publicKey
                              /\ cs[i].allowed = ps[at[i]].allowed
                              /\ cs[i].replace \/ cs[i].publicKey \notin DOMAIN dev
  BY Zenon DEF SentFor
<1>4. bt \in [DOMAIN some -> DOMAIN ps] /\ \A i \in 1..n : bt[i] = at[i]
  BY <1>2, <1>3
<1> HIDE DEF bt
<1>5. \A i, j \in DOMAIN some : bt[i] = bt[j] => i = j
  BY <1>2, <1>3, <1>4
<1>6. ASSUME NEW i \in DOMAIN some
      PROVE  /\ some[i].publicKey = ps[bt[i]].publicKey
             /\ some[i].allowed = ps[bt[i]].allowed
             /\ some[i].replace \/ some[i].publicKey \notin DOMAIN dev
  <2>1. i \in DOMAIN cs /\ some[i] = cs[i] /\ bt[i] = at[i]
    BY <1>2, <1>4
  <2> QED
    BY <1>3, <2>1, Zenon
<1> QED
  BY <1>2, <1>4, <1>5, <1>6, Zenon DEF SentFor, some

(* A device on its way to the wanted peers: each peer is as wanted or has  *)
(* lost only prefixes that others are to have, and no wanted peer is gone. *)
OnTheWay(new, dev, ps, E) ==
  /\ IsDevice(new, E) /\ Disjoint(new)
  /\ \A k \in DOMAIN new :
       \/ \E j \in DOMAIN ps : k = ps[j].publicKey /\ new[k].allowed = ps[j].allowed
       \/ /\ k \in DOMAIN dev /\ new[k].allowed \subseteq dev[k].allowed
          /\ \A x \in dev[k].allowed \ new[k].allowed :
               \E j \in DOMAIN ps : ps[j].publicKey # k /\ x \in ps[j].allowed
  /\ \A j \in DOMAIN ps : ps[j].publicKey \in DOMAIN dev => ps[j].publicKey \in DOMAIN new

(* The device has the wanted peers and no other. *)
HasPeers(dev, ps) ==
  /\ DOMAIN dev = KeysOf(ps)
  /\ \A j \in DOMAIN ps : dev[ps[j].publicKey].allowed = ps[j].allowed

(* What any part of the requests and of the removals makes of a device. *)
LEMMA PartlyConfigured ==
  ASSUME NEW E, NoAddr \in E, NEW dev, IsDevice(dev, E), Disjoint(dev), NEW ps, PeerList(ps, E),
         NEW cs, NEW at, SentFor(cs, at, ps, dev, E),
         NEW gone, gone \subseteq DOMAIN dev \ KeysOf(ps)
  PROVE  OnTheWay(RemovePeers(ConfigurePeers(dev, cs), gone), dev, ps, E)
<1> DEFINE n == Len(cs)
           full == ConfigurePeers(dev, cs)
           new == RemovePeers(full, gone)
           key(i) == cs[i].publicKey
           gets(i) == cs[i].allowed
           held(k) == dev[k].allowed
           has(k) == full[k].allowed
<1>1. Requests(cs, dev, E)
  BY SentRequests
<1>2. HasConfigured(full, dev, cs, n, E)
  BY <1>1, AllConfigured
<1>3. Disjoint(full)
  BY <1>1, <1>2, ConfiguredDisjoint
<1> HIDE DEF full
<1>4. /\ DOMAIN new = DOMAIN full \ gone /\ \A k \in DOMAIN new : new[k] = full[k]
      /\ new = [k \in DOMAIN full \ gone |-> full[k]]
  BY DEF RemovePeers, Restrict
<1> HIDE DEF new
<1>5. IsDevice(new, E)
  <2>1. IsDevice(full, E)
    BY <1>2 DEF HasConfigured
  <2> QED
    BY <1>4, <2>1 DEF IsDevice
<1>6. Disjoint(new)
  BY <1>3, <1>4 DEF Disjoint
<1>7. DOMAIN cs = 1..n
  BY <1>1 DEF Requests
<1>8. /\ DOMAIN full = DOMAIN dev \cup {key(i) : i \in 1..n}
      /\ \A i \in 1..n : has(key(i)) = gets(i)
      /\ \A k \in DOMAIN dev : (\A i \in 1..n : key(i) # k) =>
           \A x : x \in has(k) <=> x \in held(k) /\ \A i \in 1..n : x \notin gets(i)
  BY <1>2, Zenon DEF HasConfigured
<1> DEFINE wkey(j) == ps[j].publicKey
           wants(j) == ps[j].allowed
<1>9. /\ at \in [1..n -> DOMAIN ps]
      /\ \A i \in 1..n : key(i) = wkey(at[i]) /\ gets(i) = wants(at[i])
  BY <1>7, Zenon DEF SentFor
<1>10. \A j \in DOMAIN ps : wkey(j) \notin gone
  BY DEF KeysOf
<1> HIDE DEF n, key, gets, held, has, wkey, wants
<1>11. ASSUME NEW k \in DOMAIN new
       PROVE  \/ \E j \in DOMAIN ps : k = wkey(j) /\ has(k) = wants(j)
              \/ /\ k \in DOMAIN dev /\ has(k) \subseteq held(k)
                 /\ \A x \in held(k) \ has(k) : \E j \in DOMAIN ps : wkey(j) # k /\ x \in wants(j)
  <2>1. CASE \E i \in 1..n : key(i) = k
    BY <1>8, <1>9, <2>1
  <2>2. CASE \A i \in 1..n : key(i) # k
    <3>1. k \in DOMAIN dev
      BY <1>4, <1>8, <2>2
    <3>2. \A x : x \in has(k) <=> x \in held(k) /\ \A i \in 1..n : x \notin gets(i)
      BY <1>8, <2>2, <3>1
    <3>3. ASSUME NEW x \in held(k) \ has(k)
          PROVE  \E j \in DOMAIN ps : wkey(j) # k /\ x \in wants(j)
      <4>1. PICK i \in 1..n : x \in gets(i)
        BY <3>2
      <4> QED
        BY <1>9, <2>2, <4>1
    <3> QED
      BY <3>1, <3>2, <3>3
  <2> QED
    BY <2>1, <2>2
<1>12. \A j \in DOMAIN ps : wkey(j) \in DOMAIN dev => wkey(j) \in DOMAIN new
  BY <1>4, <1>8, <1>10
<1>13. \A k \in DOMAIN new : has(k) = new[k].allowed
  BY <1>4 DEF has
<1>14. ASSUME NEW k \in DOMAIN new
       PROVE  \/ \E j \in DOMAIN ps : k = ps[j].publicKey /\ new[k].allowed = ps[j].allowed
              \/ /\ k \in DOMAIN dev /\ new[k].allowed \subseteq dev[k].allowed
                 /\ \A x \in dev[k].allowed \ new[k].allowed :
                      \E j \in DOMAIN ps : ps[j].publicKey # k /\ x \in ps[j].allowed
  <2>1. has(k) = new[k].allowed
    BY <1>13
  <2> HIDE DEF has
  <2> QED
    BY <1>11, <2>1, Zenon DEF wkey, wants, held
<1> QED
  BY <1>5, <1>6, <1>12, <1>14, Zenon DEF OnTheWay, new, full, wkey

(* All requests and all removals leave the wanted peers. *)
LEMMA WhollyConfigured ==
  ASSUME NEW E, NoAddr \in E, NEW dev, IsDevice(dev, E), NEW ps, PeerList(ps, E),
         NEW cs, NEW at, SentFor(cs, at, ps, dev, E), Complete(cs, at, ps, dev),
         NEW gone, gone = DOMAIN dev \ KeysOf(ps)
  PROVE  HasPeers(RemovePeers(ConfigurePeers(dev, cs), gone), ps)
<1> DEFINE n == Len(cs)
           full == ConfigurePeers(dev, cs)
           new == RemovePeers(full, gone)
           key(i) == cs[i].publicKey
           gets(i) == cs[i].allowed
           held(k) == dev[k].allowed
           has(k) == full[k].allowed
           wkey(j) == ps[j].publicKey
           wants(j) == ps[j].allowed
<1>1. Requests(cs, dev, E)
  BY SentRequests
<1>2. HasConfigured(full, dev, cs, n, E)
  BY <1>1, AllConfigured
<1> HIDE DEF full
<1>3. DOMAIN new = DOMAIN full \ gone /\ \A k \in DOMAIN new : new[k] = full[k]
  BY DEF RemovePeers, Restrict
<1> HIDE DEF new
<1>4. DOMAIN cs = 1..n
  BY <1>1 DEF Requests
<1>5. /\ DOMAIN full = DOMAIN dev \cup {key(i) : i \in 1..n}
      /\ \A i \in 1..n : has(key(i)) = gets(i)
      /\ \A k \in DOMAIN dev : (\A i \in 1..n : key(i) # k) =>
           \A x : x \in has(k) <=> x \in held(k) /\ \A i \in 1..n : x \notin gets(i)
  BY <1>2, Zenon DEF HasConfigured
<1>6. /\ at \in [1..n -> DOMAIN ps]
      /\ \A i \in 1..n : key(i) = wkey(at[i]) /\ gets(i) = wants(at[i])
  BY <1>4, Zenon DEF SentFor
<1>7. \A j \in DOMAIN ps : (\E i \in 1..n : at[i] = j) \/ (wkey(j) \in DOMAIN dev /\ held(wkey(j)) = wants(j))
  BY <1>4, Zenon DEF Complete
<1>8. \A i, j \in DOMAIN ps : i # j => wkey(i) # wkey(j) /\ wants(i) \cap wants(j) = {}
  BY DEF PeerList
<1>9. gone = DOMAIN dev \ {wkey(j) : j \in DOMAIN ps}
  BY DEF KeysOf
<1> HIDE DEF n, key, gets, held, has, wkey, wants
<1>10. ASSUME NEW j \in DOMAIN ps PROVE wkey(j) \in DOMAIN new /\ has(wkey(j)) = wants(j)
  <2>1. wkey(j) \notin gone
    BY <1>9
  <2>2. CASE \E i \in 1..n : key(i) = wkey(j)
    <3>1. PICK i \in 1..n : key(i) = wkey(j)
      BY <2>2
    <3>2. at[i] = j
      BY <1>6, <1>8, <3>1
    <3> QED
      BY <1>3, <1>5, <1>6, <2>1, <3>1, <3>2
  <2>3. CASE \A i \in 1..n : key(i) # wkey(j)
    <3>1. wkey(j) \in DOMAIN dev /\ held(wkey(j)) = wants(j)
      BY <1>6, <1>7, <2>3
    <3>2. \A i \in 1..n : gets(i) \cap wants(j) = {}
      BY <1>6, <1>8, <2>3
    <3>3. \A x : x \in has(wkey(j)) <=> x \in wants(j) /\ \A i \in 1..n : x \notin gets(i)
      BY <1>5, <2>3, <3>1
    <3>4. has(wkey(j)) = wants(j)
      BY <3>2, <3>3
    <3> QED
      BY <1>3, <1>5, <2>1, <3>1, <3>4
  <2> QED
    BY <2>2, <2>3
<1>11. DOMAIN new = {wkey(j) : j \in DOMAIN ps}
  <2>1. ASSUME NEW k \in DOMAIN new PROVE k \in {wkey(j) : j \in DOMAIN ps}
    BY <1>3, <1>5, <1>6, <1>9
  <2> QED
    BY <1>10, <2>1
<1>12. ASSUME NEW j \in DOMAIN ps PROVE new[wkey(j)].allowed = wants(j)
  BY <1>3, <1>10 DEF has
<1>13. DOMAIN new = KeysOf(ps)
  BY <1>11 DEF KeysOf, wkey
<1> QED
  BY <1>12, <1>13, Zenon DEF HasPeers, new, full, wkey, wants

(* ApplyPeers, when it succeeds, makes a device of the wanted peers. *)
LEMMA AppliedHasPeers ==
  ASSUME NEW E, NoAddr \in E, NEW dev, IsDevice(dev, E), Disjoint(dev), NEW ps, PeerList(ps, E),
         NEW diff, IsDiff(diff, dev, ps, E), NEW new,
         new = IF Empty(diff) THEN dev
               ELSE RemovePeers(ConfigurePeers(dev, PeerConfigs(diff)), diff.removed)
  PROVE  OnTheWay(new, dev, ps, E) /\ HasPeers(new, ps)
<1>1. PICK at : SentFor(PeerConfigs(diff), at, ps, dev, E) /\ Complete(PeerConfigs(diff), at, ps, dev)
  BY DiffSent
<1>2. diff.removed = DOMAIN dev \ KeysOf(ps)
  BY DEF IsDiff
<1>3. CASE ~Empty(diff)
  <2>1. new = RemovePeers(ConfigurePeers(dev, PeerConfigs(diff)), diff.removed)
    BY <1>3
  <2>2. diff.removed \subseteq DOMAIN dev \ KeysOf(ps)
    BY <1>2
  <2>3. OnTheWay(new, dev, ps, E)
    BY <1>1, <2>1, <2>2, PartlyConfigured
  <2>4. HasPeers(new, ps)
    BY <1>1, <1>2, <2>1, WhollyConfigured
  <2> QED
    BY <2>3, <2>4
<1>4. CASE Empty(diff)
  <2>1. new = dev
    BY <1>4
  <2>2. PeerConfigs(diff) = <<>>
    BY <1>4 DEF Empty, PeerConfigs
  <2>3. \A j \in DOMAIN ps :
          ps[j].publicKey \in DOMAIN dev /\ dev[ps[j].publicKey].allowed = ps[j].allowed
    BY <1>1, <2>2 DEF Complete
  <2>4. DOMAIN dev \ KeysOf(ps) = {}
    BY <1>2, <1>4 DEF Empty
  <2>5. HasPeers(dev, ps)
    BY <2>3, <2>4, Zenon DEF HasPeers, KeysOf
  <2>6. OnTheWay(dev, dev, ps, E)
    BY DEF OnTheWay
  <2> QED
    BY <2>1, <2>5, <2>6
<1> QED
  BY <1>3, <1>4

-----------------------------------------------------------------------------
(* A packet goes to a peer with a prefix that holds its address, if there  *)
(* is one.                                                                 *)
LEMMA RouteHolds ==
  ASSUME NEW E, NEW dev, IsDevice(dev, E), NEW ip
  PROVE  IF Holders(dev, ip) = {} THEN Route(dev, ip) = "" ELSE Route(dev, ip) \in Holders(dev, ip)
<1> DEFINE all == UNION {{k} \X dev[k].allowed : k \in DOMAIN dev}
           owns == {o \in all : ip \in o[2]}
           size(o) == Cardinality(o[2])
           best == CHOOSE o \in owns : \A q \in owns : size(o) <= size(q)
<1>1. Route(dev, ip) = IF owns = {} THEN "" ELSE best[1]
  BY Zenon DEF Route
<1>2. \A o \in all : \E k \in DOMAIN dev : \E p \in dev[k].allowed : o = <<k, p>>
  OBVIOUS
<1>3. \A k \in DOMAIN dev : \A p \in dev[k].allowed : <<k, p>> \in all
  OBVIOUS
<1>4. \A k \in DOMAIN dev : dev[k].allowed \subseteq Prefixes
  BY DEF IsDevice, DevPeer
<1> HIDE DEF all
<1>5. \A o \in owns : o[1] \in Holders(dev, ip) /\ size(o) \in Nat
  <2> SUFFICES ASSUME NEW o \in owns PROVE o[1] \in Holders(dev, ip) /\ size(o) \in Nat
    OBVIOUS
  <2>1. PICK k \in DOMAIN dev : \E p \in dev[k].allowed : o = <<k, p>>
    BY <1>2
  <2>2. PICK p \in dev[k].allowed : o = <<k, p>>
    BY <2>1
  <2>3. o[1] = k /\ o[2] = p /\ ip \in p
    BY <2>2
  <2>4. IsFiniteSet(p)
    BY <1>4 DEF Prefixes
  <2> QED
    BY <2>3, <2>4, FS_CardinalityType DEF Holders
<1>6. Holders(dev, ip) # {} => owns # {}
  <2> SUFFICES ASSUME NEW k \in Holders(dev, ip) PROVE owns # {}
    OBVIOUS
  <2>1. PICK p \in dev[k].allowed : ip \in p
    BY DEF Holders
  <2>2. <<k, p>> \in owns
    BY <1>3, <2>1 DEF Holders
  <2> QED
    BY <2>2
<1>7. owns # {} => best \in owns
  <2> SUFFICES ASSUME owns # {} PROVE \E o \in owns : \A q \in owns : size(o) <= size(q)
    OBVIOUS
  <2> DEFINE H == {size(o) : o \in owns}
  <2>1. H \subseteq Nat /\ H # {}
    BY <1>5
  <2>2. PICK m \in H : \A j \in H : m <= j
    <3> HIDE DEF H
    <3> QED  BY <2>1, LeastExists
  <2> QED
    BY <2>2
<1> HIDE DEF best, owns
<1> QED
  BY <1>1, <1>5, <1>6, <1>7, Zenon

-----------------------------------------------------------------------------
(* The keys a registry has for a name. *)
Via(r, n) == {p.publicKey : p \in {q \in r : q.name = n}}

(* byName keeps the only entry of a name, if it is complete. *)
LEMMA ByNameFact ==
  ASSUME NEW r, DistinctEntries(r), NEW n
  PROVE  /\ n \in DOMAIN byName(r) =>
              /\ byName(r)[n] \in r /\ byName(r)[n].name = n /\ n # ""
              /\ byName(r)[n].publicKey # "" /\ Via(r, n) = {byName(r)[n].publicKey}
         /\ n \notin DOMAIN byName(r) /\ n # "" => Via(r, n) \subseteq {""}
<1> DEFINE complete == {p \in r : p.name # "" /\ p.publicKey # ""}
           infos == [m \in {p.name : p \in complete} |-> CHOOSE p \in complete : p.name = m]
<1>1. byName(r) = infos
  BY Zenon DEF byName
<1>2. ASSUME NEW p \in r, NEW q \in r, p.name = q.name PROVE p = q
  BY <1>2, Zenon DEF DistinctEntries
<1>3. ASSUME n \in DOMAIN infos
      PROVE  /\ infos[n] \in r /\ infos[n].name = n /\ n # ""
             /\ infos[n].publicKey # "" /\ Via(r, n) = {infos[n].publicKey}
  <2>1. infos[n] = CHOOSE p \in complete : p.name = n
    BY <1>3, Zenon
  <2>2. \E p \in complete : p.name = n
    BY <1>3, Zenon
  <2>3. infos[n] \in complete /\ infos[n].name = n
    BY <2>1, <2>2, Zenon
  <2> HIDE DEF infos
  <2>4. /\ infos[n] \in r /\ n # "" /\ infos[n].publicKey # ""
    BY <2>3, Zenon
  <2>5. \A q \in r : q.name = n => q = infos[n]
    BY <1>2, <2>3, <2>4, Zenon
  <2> QED
    BY <2>3, <2>4, <2>5, Zenon DEF Via
<1>4. ASSUME n \notin DOMAIN infos, n # "" PROVE Via(r, n) \subseteq {""}
  BY <1>4, Zenon DEF Via
<1> QED
  BY <1>1, <1>3, <1>4, Zenon

-----------------------------------------------------------------------------
(* A hub sends a packet for ip to the node n: to its own spoke, to another *)
(* hub, or to the hub of another spoke.                                    *)
Hop(d, me, n, ip) ==
  \/ \E b \in DOMAIN d.agents :
       /\ d.agents[b].tunnelIP = ip
       /\ n = IF d.agents[b].hub = me THEN d.agents[b].name ELSE d.agents[b].hub
  \/ \E a \in DOMAIN d.hubs : d.hubs[a].tunnelIP = ip /\ d.hubs[a].name # me /\ n = d.hubs[a].name

(* Every agent belongs to a hub of the document. *)
LEMMA AgentsHaveHubs ==
  ASSUME NEW d, Parsed(d), NEW b \in DOMAIN d.agents
  PROVE  \E a \in DOMAIN d.hubs : d.hubs[a].name = d.agents[b].hub
<1>1. ValidateAgents(d)
  BY DEF Parsed, Validate
<1>2. d.agents[b] \in Range(d.agents)
  BY DEF Range
<1>3. \E h \in Range(d.hubs) : h.name = d.agents[b].hub
  BY <1>1, <1>2, Zenon DEF ValidateAgents
<1> QED
  BY <1>3 DEF Range

(* There is at most one such node. *)
LEMMA HopUnique ==
  ASSUME NEW d, Parsed(d), NEW me, NEW ip, NEW n, Hop(d, me, n, ip)
  PROVE  n # "" /\ \A m : Hop(d, me, m, ip) => m = n
<1> DEFINE hname(i) == d.hubs[i].name
           hip(i) == d.hubs[i].tunnelIP
           aname(i) == d.agents[i].name
           aip(i) == d.agents[i].tunnelIP
           ahub(i) == d.agents[i].hub
           H == DOMAIN d.hubs
           A == DOMAIN d.agents
<1>1. /\ \A i \in H : hname(i) # ""
      /\ \A i \in A : aname(i) # ""
      /\ \A i, j \in H : hip(i) = hip(j) => i = j
      /\ \A i, j \in A : aip(i) = aip(j) => i = j
      /\ \A i \in H, j \in A : hip(i) # aip(j)
  BY NodesDistinct, Zenon
<1>2. \A b \in A : \E a \in H : hname(a) = ahub(b)
  BY AgentsHaveHubs
<1>3. \A m : Hop(d, me, m, ip) <=>
        \/ \E b \in A : aip(b) = ip /\ m = IF ahub(b) = me THEN aname(b) ELSE ahub(b)
        \/ \E a \in H : hip(a) = ip /\ hname(a) # me /\ m = hname(a)
  BY Zenon DEF Hop
<1> HIDE DEF hname, hip, aname, aip, ahub, H, A
<1>4. CASE \E b \in A : aip(b) = ip
  <2>1. PICK b \in A : aip(b) = ip
    BY <1>4
  <2>2. \A m : Hop(d, me, m, ip) => m = IF ahub(b) = me THEN aname(b) ELSE ahub(b)
    BY <1>1, <1>3, <2>1, Zenon
  <2> QED
    BY <1>1, <1>2, <2>2, Zenon
<1>5. CASE ~\E b \in A : aip(b) = ip
  <2>1. PICK a \in H : hip(a) = ip /\ n = hname(a)
    BY <1>3, <1>5
  <2> QED
    BY <1>1, <1>3, <1>5, <2>1, Zenon
<1> QED
  BY <1>4, <1>5, Zenon

(* A spoke sends every address of the overlay to its hub. *)
LEMMA SpokeNextHop ==
  ASSUME NEW d, NEW self, self.role = "spoke", NEW r, NEW k, Via(r, self.hubName) = {k}, NEW ip
  PROVE  NextHop(d, self, r, ip) = IF ip \in d.cidr THEN k ELSE ""
<1> DEFINE nodes == IF ip \in d.cidr THEN {self.hubName} ELSE {}
           keys == {p.publicKey : p \in {q \in r : q.name \in nodes}}
<1>1. NextHop(d, self, r, ip) = IF keys = {} THEN "" ELSE CHOOSE x \in keys : TRUE
  BY Zenon DEF NextHop
<1>2. keys = IF ip \in d.cidr THEN {k} ELSE {}
  BY DEF Via
<1>3. (CHOOSE x \in {k} : TRUE) = k
  OBVIOUS
<1> HIDE DEF keys
<1> QED
  BY <1>1, <1>2, <1>3, Zenon

(* A hub sends an address to the node hubPeers gives it to, if that one is *)
(* registered.                                                             *)
LEMMA HubNextHop ==
  ASSUME NEW d, Parsed(d), NEW self, self.role # "spoke", NEW r, DistinctEntries(r), NEW ip
  PROVE  /\ (~\E n : Hop(d, self.name, n, ip)) => NextHop(d, self, r, ip) = ""
         /\ \A n : Hop(d, self.name, n, ip) =>
              NextHop(d, self, r, ip) = IF n \in DOMAIN byName(r) THEN byName(r)[n].publicKey ELSE ""
<1> DEFINE me == self.name
           to(a) == IF a.hub = me THEN a.name ELSE a.hub
           own == {b \in Range(d.agents) : b.tunnelIP = ip}
           other == {g \in Range(d.hubs) : g.tunnelIP = ip /\ g.name # me}
           nodes == {to(a) : a \in own} \cup {h.name : h \in other}
           keys == {p.publicKey : p \in {q \in r : q.name \in nodes}}
<1>1. NextHop(d, self, r, ip) = IF keys = {} THEN "" ELSE CHOOSE k \in keys : TRUE
  BY Zenon DEF NextHop
<1>2. \A n : Hop(d, me, n, ip) <=> n \in nodes
  <2>1. \A n : n \in nodes <=> (\E a \in own : n = to(a)) \/ (\E h \in other : n = h.name)
    BY Zenon
  <2> HIDE DEF nodes
  <2> QED
    BY <2>1 DEF Hop, Range
<1> HIDE DEF nodes, me
<1>3. \A k : k \in keys <=> \E n : Hop(d, me, n, ip) /\ k \in Via(r, n)
  BY <1>2 DEF Via
<1> HIDE DEF keys
<1>4. (~\E n : Hop(d, me, n, ip)) => NextHop(d, self, r, ip) = ""
  BY <1>1, <1>3, Zenon
<1>5. ASSUME NEW n, Hop(d, me, n, ip)
      PROVE  NextHop(d, self, r, ip) = IF n \in DOMAIN byName(r) THEN byName(r)[n].publicKey ELSE ""
  <2>1. n # "" /\ \A m : Hop(d, me, m, ip) => m = n
    BY <1>5, HopUnique, Zenon
  <2>2. keys = Via(r, n)
    BY <1>3, <1>5, <2>1, Zenon
  <2>3. CASE n \in DOMAIN byName(r)
    <3>1. keys = {byName(r)[n].publicKey}
      BY <2>2, <2>3, ByNameFact, Zenon
    <3>2. \A x : (CHOOSE k \in {x} : TRUE) = x
      OBVIOUS
    <3> QED
      BY <1>1, <2>3, <3>1, <3>2, Zenon
  <2>4. CASE n \notin DOMAIN byName(r)
    <3>1. keys \subseteq {""}
      BY <2>1, <2>2, <2>4, ByNameFact, Zenon
    <3>2. keys = {} \/ keys = {""}
      BY <3>1, Zenon
    <3>3. (CHOOSE k \in {""} : TRUE) = ""
      OBVIOUS
    <3> QED
      BY <1>1, <2>4, <3>2, <3>3, Zenon
  <2> QED
    BY <2>3, <2>4, Zenon
<1> QED
  BY <1>4, <1>5, Zenon DEF me

-----------------------------------------------------------------------------
(* What Heartbeat may return, and how endpoints may resolve. *)
Entries(eps) == [name : STRING, publicKey : STRING, endpoint : eps \cup {""}]

(* Each address is served by its next hop and by no other peer. *)
AsDeclared(ps, d, self, r) ==
  \A ip \in Nat :
    /\ \A i \in DOMAIN ps :
         (\E x \in ps[i].allowed : ip \in x) <=> ps[i].publicKey = NextHop(d, self, r, ip)
    /\ NextHop(d, self, r, ip) # "" =>
         \E i \in DOMAIN ps : ps[i].publicKey = NextHop(d, self, r, ip)

(* The addresses of a document are naturals. *)
LEMMA AddressesNat ==
  ASSUME NEW d, Parsed(d)
  PROVE  /\ \A i \in DOMAIN d.hubs : d.hubs[i].tunnelIP \in Nat
         /\ \A i \in DOMAIN d.agents : d.agents[i].tunnelIP \in Nat
         /\ d.cidr \in Prefixes
         /\ d.persistentKeepalive \in Int
         /\ d.hubs \in Seq(Range(d.hubs)) /\ d.agents \in Seq(Range(d.agents))
<1>1. d \in Document /\ ValidateWireGuard(d)
  BY DEF Parsed, Validate
<1>2. /\ \A i \in DOMAIN d.hubs : d.hubs[i].tunnelIP \in d.cidr
      /\ \A i \in DOMAIN d.agents : d.agents[i].tunnelIP \in d.cidr
  BY NodesDistinct, Zenon
<1>3. d.cidr \subseteq Nat
  BY PrefixFinite
<1>4. d.cidr \in Prefixes
  BY <1>1 DEF Document, ValidateWireGuard, Prefixes
<1>5. d.persistentKeepalive \in Int
  BY <1>1 DEF Document
<1>6. /\ Len(d.hubs) \in Nat /\ d.hubs \in [1..Len(d.hubs) -> Range(d.hubs)]
      /\ Len(d.agents) \in Nat /\ d.agents \in [1..Len(d.agents) -> Range(d.agents)]
  BY <1>1 DEF Document, Range
<1> QED
  BY <1>2, <1>3, <1>4, <1>5, <1>6, IsList, Zenon

(* The prefixes of another hub: its own address and those of its spokes. *)
LEMMA MeshServes ==
  ASSUME NEW d, Parsed(d), NEW a \in DOMAIN d.hubs
  PROVE  /\ hubMeshAllowedIPs(d, d.hubs[a]) \subseteq Prefixes
         /\ \A ip : (\E x \in hubMeshAllowedIPs(d, d.hubs[a]) : ip \in x) <=>
                      \/ ip = d.hubs[a].tunnelIP
                      \/ \E b \in DOMAIN d.agents :
                           d.agents[b].hub = d.hubs[a].name /\ ip = d.agents[b].tunnelIP
<1> DEFINE aip(i) == d.agents[i].tunnelIP
           I == {i \in DOMAIN d.agents : d.agents[i].hub = d.hubs[a].name}
           sel == AgentsForHub(d, d.hubs[a].name)
           hip == d.hubs[a].tunnelIP
           mesh == hubMeshAllowedIPs(d, d.hubs[a])
<1>1. sel = Selected(d.agents, I)
  BY DEF AgentsForHub
<1>2. Lists(sel, d.agents, I)
  <2>1. I \in SUBSET DOMAIN d.agents /\ d.agents \in Seq(Range(d.agents))
    BY AddressesNat
  <2> HIDE DEF I
  <2> QED
    BY <1>1, <2>1, SelectedLists
<1> HIDE DEF sel
<1>3. \A s : s \in Range(sel) <=> \E i \in I : s = d.agents[i]
  <2>1. PICK at \in [DOMAIN sel -> I] :
          /\ \A j \in DOMAIN sel : sel[j] = d.agents[at[j]]
          /\ \A i \in I : \E j \in DOMAIN sel : at[j] = i
    BY <1>2 DEF Lists
  <2> HIDE DEF I
  <2> QED
    BY <2>1 DEF Range
<1>4. mesh = {{hip}} \cup {{s.tunnelIP} : s \in Range(sel)}
  BY DEF hubMeshAllowedIPs, singleHostPrefix, sel
<1> HIDE DEF mesh
<1>5. \A x : x \in mesh <=> x = {hip} \/ \E i \in I : x = {aip(i)}
  BY <1>3, <1>4
<1>6. hip \in Nat /\ \A i \in DOMAIN d.agents : aip(i) \in Nat
  BY AddressesNat, Zenon
<1> HIDE DEF hip, aip
<1>7. \A n \in Nat : {n} \in Prefixes
  BY FS_Singleton DEF Prefixes
<1>8. mesh \subseteq Prefixes
  BY <1>5, <1>6, <1>7
<1>9. \A ip : (\E x \in mesh : ip \in x) <=> ip = hip \/ \E i \in I : ip = aip(i)
  <2> HIDE DEF I
  <2>1. {hip} \in mesh /\ \A i \in I : {aip(i)} \in mesh
    BY <1>5
  <2>2. \A x \in mesh : x = {hip} \/ \E i \in I : x = {aip(i)}
    BY <1>5
  <2> QED
    BY <2>1, <2>2, Zenon
<1> QED
  BY <1>8, <1>9, Zenon DEF mesh, hip, aip

(* n is another hub or an own spoke of the hub me, with these prefixes. *)
PeerOf(d, me, n, allowed) ==
  \/ \E a \in DOMAIN d.hubs : /\ d.hubs[a].name = n /\ n # me
                              /\ allowed = hubMeshAllowedIPs(d, d.hubs[a])
  \/ \E b \in DOMAIN d.agents : /\ d.agents[b].name = n /\ d.agents[b].hub = me
                                /\ allowed = {singleHostPrefix(d.agents[b].tunnelIP)}

(* A hub's peer serves what it sends to that node. *)
LEMMA ServesHop ==
  ASSUME NEW d, Parsed(d), NEW me, NEW n, NEW allowed, PeerOf(d, me, n, allowed), NEW ip
  PROVE  (\E x \in allowed : ip \in x) <=> Hop(d, me, n, ip)
<1> DEFINE hname(i) == d.hubs[i].name
           hip(i) == d.hubs[i].tunnelIP
           aname(i) == d.agents[i].name
           aip(i) == d.agents[i].tunnelIP
           ahub(i) == d.agents[i].hub
           H == DOMAIN d.hubs
           A == DOMAIN d.agents
<1>1. /\ \A i, j \in H : hname(i) = hname(j) => i = j
      /\ \A i, j \in A : aname(i) = aname(j) => i = j
      /\ \A i \in H, j \in A : hname(i) # aname(j)
  BY NodesDistinct, Zenon
<1>2. \A b \in A : \E a \in H : hname(a) = ahub(b)
  BY AgentsHaveHubs
<1>3. Hop(d, me, n, ip) <=>
        \/ \E b \in A : aip(b) = ip /\ n = IF ahub(b) = me THEN aname(b) ELSE ahub(b)
        \/ \E a \in H : hip(a) = ip /\ hname(a) # me /\ n = hname(a)
  BY Zenon DEF Hop
<1>4. \A a \in H : (\E x \in hubMeshAllowedIPs(d, d.hubs[a]) : ip \in x) <=>
        ip = hip(a) \/ \E b \in A : ahub(b) = hname(a) /\ ip = aip(b)
  BY MeshServes
<1>5. \A b \in A : (\E x \in {singleHostPrefix(d.agents[b].tunnelIP)} : ip \in x) <=> ip = aip(b)
  BY DEF singleHostPrefix
<1>6. \/ \E a \in H : hname(a) = n /\ n # me /\ allowed = hubMeshAllowedIPs(d, d.hubs[a])
      \/ \E b \in A : aname(b) = n /\ ahub(b) = me /\ allowed = {singleHostPrefix(d.agents[b].tunnelIP)}
  BY DEF PeerOf
<1> DEFINE Serves == \E x \in allowed : ip \in x
<1>7. CASE \E a \in H : hname(a) = n /\ n # me /\ allowed = hubMeshAllowedIPs(d, d.hubs[a])
  <2>1. PICK a \in H : hname(a) = n /\ n # me /\ allowed = hubMeshAllowedIPs(d, d.hubs[a])
    BY <1>7
  <2>2. Serves <=> ip = hip(a) \/ \E b \in A : ahub(b) = hname(a) /\ ip = aip(b)
    BY <1>4, <2>1
  <2> HIDE DEF hname, hip, aname, aip, ahub, H, A, Serves
  <2> QED
    BY <1>1, <1>3, <2>1, <2>2 DEF Serves
<1>8. CASE \E b \in A : aname(b) = n /\ ahub(b) = me /\ allowed = {singleHostPrefix(d.agents[b].tunnelIP)}
  <2>1. PICK b \in A : aname(b) = n /\ ahub(b) = me /\ allowed = {singleHostPrefix(d.agents[b].tunnelIP)}
    BY <1>8
  <2>2. Serves <=> ip = aip(b)
    BY <1>5, <2>1
  <2> HIDE DEF hname, hip, aname, aip, ahub, H, A, Serves
  <2> QED
    BY <1>1, <1>2, <1>3, <2>1, <2>2 DEF Serves
<1> QED
  BY <1>6, <1>7, <1>8

(* The peers of the hub me: one for each registered node it talks to. *)
PeersOfHub(ps, at, d, me, infos, E) ==
  /\ ps \in Seq(WantedPeer(E)) /\ DOMAIN at = DOMAIN ps
  /\ \A i, j \in DOMAIN ps : at[i] = at[j] => i = j
  /\ \A i \in DOMAIN ps : /\ at[i] \in DOMAIN infos /\ ps[i].publicKey = infos[at[i]].publicKey
                          /\ PeerOf(d, me, at[i], ps[i].allowed)
  /\ \A n \in DOMAIN infos :
       (\E allowed : PeerOf(d, me, n, allowed)) => \E i \in DOMAIN ps : at[i] = n

(* A dialable hub has an address. *)
LEMMA Dialled ==
  ASSUME NEW eps, NEW as, NEW dns \in [eps -> as \cup {BadAddr}],
         NEW p \in Entries(eps), p.publicKey # "", Dialable(p, dns)
  PROVE  p.publicKey \in PublicKeys /\ resolveEndpoint(dns, p.endpoint) \in as \cup {NoAddr}
BY Zenon DEF Dialable, resolveEndpoint, Entries, PublicKeys

IsPeer(p, E, key, allowed) == p \in WantedPeer(E) /\ p.publicKey = key /\ p.allowed = allowed

(* Peer makes a peer of what it is given. *)
LEMMA PeerMade ==
  \A E, info : info.publicKey \in PublicKeys =>
    \A ep \in E, allowed \in SUBSET Prefixes, keepalive \in Int :
      IsPeer(Peer(info, ep, allowed, keepalive), E, info.publicKey, allowed)
BY DEF IsPeer, Peer, WantedPeer

(* An address is a prefix. *)
LEMMA HostPrefix == \A ip \in Nat : {singleHostPrefix(ip)} \in SUBSET Prefixes
<1>1. \A ip \in Nat : {ip} \in Prefixes
  BY FS_Singleton DEF Prefixes
<1> QED
  BY <1>1 DEF singleHostPrefix

(* hubPeers makes them. *)
LEMMA HubPeersListed ==
  ASSUME NEW d, Parsed(d), NEW self, NEW keepalive \in Int, NEW eps, NEW as,
         NEW dns \in [eps -> as \cup {BadAddr}], NEW r \in SUBSET Entries(eps), DistinctEntries(r),
         hubPeers(d, self, byName(r), keepalive, dns).ok
  PROVE  \E at : PeersOfHub(hubPeers(d, self, byName(r), keepalive, dns).peers, at, d, self.name,
                            byName(r), as \cup {NoAddr})
<1> DEFINE infos == byName(r)
           me == self.name
           E == as \cup {NoAddr}
           I == {i \in DOMAIN d.hubs : d.hubs[i].name # me /\ d.hubs[i].name \in DOMAIN infos}
           J == {i \in DOMAIN d.agents : d.agents[i].hub = me /\ d.agents[i].name \in DOMAIN infos}
           hubs == Selected(d.hubs, I)
           spokes == Selected(d.agents, J)
           mesh(h) == Peer(infos[h.name], resolveEndpoint(dns, infos[h.name].endpoint),
                           hubMeshAllowedIPs(d, h), keepalive)
           leaf(a) == Peer(infos[a.name], NoAddr, {singleHostPrefix(a.tunnelIP)}, 0)
           M == [i \in DOMAIN hubs |-> mesh(hubs[i])]
           L == [i \in DOMAIN spokes |-> leaf(spokes[i])]
           ok == /\ \A h \in Range(hubs) : Dialable(infos[h.name], dns)
                 /\ \A a \in Range(spokes) : infos[a.name].publicKey # BadKey
           result == hubPeers(d, self, infos, keepalive, dns)
<1>1. result = IF ok THEN Success(M \o L) ELSE Failure
  BY Zenon DEF hubPeers
<1> HIDE DEF M, L, ok
<1>2. ok /\ result.peers = M \o L
  BY <1>1 DEF Success, Failure
<1>3. /\ d.hubs \in Seq(Range(d.hubs)) /\ d.agents \in Seq(Range(d.agents))
      /\ I \in SUBSET DOMAIN d.hubs /\ J \in SUBSET DOMAIN d.agents
  BY AddressesNat
<1>4. /\ hubs \in Seq(Range(d.hubs)) /\ Lists(hubs, d.hubs, I)
      /\ spokes \in Seq(Range(d.agents)) /\ Lists(spokes, d.agents, J)
  <2> HIDE DEF I, J
  <2> QED  BY <1>3, SelectedLists
<1> HIDE DEF hubs, spokes, result
<1>5. PICK f \in [DOMAIN hubs -> I] :
        /\ \A j \in DOMAIN hubs : hubs[j] = d.hubs[f[j]]
        /\ \A i \in I : \E j \in DOMAIN hubs : f[j] = i
        /\ \A j, k \in DOMAIN hubs : f[j] = f[k] => j = k
  BY <1>4, Zenon DEF Lists
<1>6. PICK g \in [DOMAIN spokes -> J] :
        /\ \A j \in DOMAIN spokes : spokes[j] = d.agents[g[j]]
        /\ \A i \in J : \E j \in DOMAIN spokes : g[j] = i
        /\ \A j, k \in DOMAIN spokes : g[j] = g[k] => j = k
  BY <1>4, Zenon DEF Lists
<1>7. \A n \in DOMAIN infos : infos[n] \in Entries(eps) /\ infos[n].publicKey # ""
  <2>1. \A n \in DOMAIN infos : infos[n] \in r /\ infos[n].publicKey # ""
    BY ByNameFact, Zenon
  <2> QED
    BY <2>1, Zenon
<1> HIDE DEF infos
<1>8. ASSUME NEW i \in DOMAIN hubs
      PROVE  /\ M[i] \in WantedPeer(E) /\ hubs[i].name \in DOMAIN infos
             /\ M[i].publicKey = infos[hubs[i].name].publicKey
             /\ PeerOf(d, me, hubs[i].name, M[i].allowed)
  <2>1. f[i] \in I /\ hubs[i] = d.hubs[f[i]]
    BY <1>5
  <2>2. f[i] \in DOMAIN d.hubs /\ hubs[i].name # me /\ hubs[i].name \in DOMAIN infos
    BY <2>1
  <2>3. Dialable(infos[hubs[i].name], dns)
    BY <1>2 DEF ok, Range
  <2>4. /\ infos[hubs[i].name].publicKey \in PublicKeys
        /\ resolveEndpoint(dns, infos[hubs[i].name].endpoint) \in E
    BY <1>7, <2>2, <2>3, Dialled, Zenon
  <2>5. hubMeshAllowedIPs(d, hubs[i]) \subseteq Prefixes
    BY <2>1, <2>2, MeshServes
  <2>6. M[i] = mesh(hubs[i])
    BY DEF M
  <2>7. /\ M[i] \in WantedPeer(E) /\ M[i].publicKey = infos[hubs[i].name].publicKey
        /\ M[i].allowed = hubMeshAllowedIPs(d, hubs[i])
    <3>1. hubMeshAllowedIPs(d, hubs[i]) \in SUBSET Prefixes
      BY <2>5
    <3> DEFINE info == infos[hubs[i].name]
               ep == resolveEndpoint(dns, infos[hubs[i].name].endpoint)
    <3>2. IsPeer(Peer(info, ep, hubMeshAllowedIPs(d, hubs[i]), keepalive), E, info.publicKey,
                 hubMeshAllowedIPs(d, hubs[i]))
      <4>1. info.publicKey \in PublicKeys /\ ep \in E /\ keepalive \in Int
        BY <2>4, Zenon
      <4> HIDE DEF info, ep, E
      <4> QED
        BY <3>1, <4>1, PeerMade, Zenon
    <3>3. IsPeer(M[i], E, infos[hubs[i].name].publicKey, hubMeshAllowedIPs(d, hubs[i]))
      BY <2>6, <3>2, Zenon
    <3> QED
      BY <3>3 DEF IsPeer
  <2>8. PeerOf(d, me, hubs[i].name, M[i].allowed)
    BY <2>1, <2>2, <2>7, Zenon DEF PeerOf
  <2> QED
    BY <2>2, <2>7, <2>8
<1>9. ASSUME NEW i \in DOMAIN spokes
      PROVE  /\ L[i] \in WantedPeer(E) /\ spokes[i].name \in DOMAIN infos
             /\ L[i].publicKey = infos[spokes[i].name].publicKey
             /\ PeerOf(d, me, spokes[i].name, L[i].allowed)
  <2>1. g[i] \in J /\ spokes[i] = d.agents[g[i]]
    BY <1>6
  <2>2. g[i] \in DOMAIN d.agents /\ spokes[i].hub = me /\ spokes[i].name \in DOMAIN infos
    BY <2>1
  <2>3. infos[spokes[i].name].publicKey \in PublicKeys
    <3>1. infos[spokes[i].name].publicKey # BadKey
      BY <1>2 DEF ok, Range
    <3> QED
      BY <1>7, <2>2, <3>1, Zenon DEF Entries, PublicKeys
  <2>4. {singleHostPrefix(spokes[i].tunnelIP)} \subseteq Prefixes
    <3>1. spokes[i].tunnelIP \in Nat
      BY <2>1, <2>2, AddressesNat, Zenon
    <3> QED
      BY <3>1, HostPrefix
  <2>5. L[i] = leaf(spokes[i])
    BY DEF L
  <2>6. /\ L[i] \in WantedPeer(E) /\ L[i].publicKey = infos[spokes[i].name].publicKey
        /\ L[i].allowed = {singleHostPrefix(spokes[i].tunnelIP)}
    <3>1. NoAddr \in E /\ 0 \in Int
      OBVIOUS
    <3> HIDE DEF E
    <3>2. {singleHostPrefix(spokes[i].tunnelIP)} \in SUBSET Prefixes
      BY <2>4
    <3> DEFINE info == infos[spokes[i].name]
               allowed == {singleHostPrefix(spokes[i].tunnelIP)}
    <3>3. IsPeer(Peer(info, NoAddr, allowed, 0), E, info.publicKey, allowed)
      <4>1. info.publicKey \in PublicKeys /\ allowed \in SUBSET Prefixes
        BY <2>3, <3>2
      <4> HIDE DEF info, allowed
      <4> QED
        BY <3>1, <4>1, PeerMade, Zenon
    <3>4. IsPeer(L[i], E, infos[spokes[i].name].publicKey, {singleHostPrefix(spokes[i].tunnelIP)})
      BY <2>5, <3>3, Zenon
    <3> QED
      BY <3>4 DEF IsPeer
  <2>7. PeerOf(d, me, spokes[i].name, L[i].allowed)
    BY <2>1, <2>2, <2>6, Zenon DEF PeerOf
  <2> QED
    BY <2>2, <2>6, <2>7
<1> DEFINE m == Len(hubs)
           n == Len(spokes)
           ps == M \o L
           at == [i \in 1..(m + n) |-> IF i <= m THEN hubs[i].name ELSE spokes[i - m].name]
<1>10. m \in Nat /\ n \in Nat /\ DOMAIN hubs = 1..m /\ DOMAIN spokes = 1..n
  BY <1>4
<1>11. M \in [1..m -> WantedPeer(E)] /\ L \in [1..n -> WantedPeer(E)]
  <2>1. /\ M = [i \in 1..m |-> mesh(hubs[i])]
        /\ L = [i \in 1..n |-> leaf(spokes[i])]
    BY <1>10 DEF M, L
  <2> HIDE DEF mesh, leaf, m, n
  <2> QED
    BY <1>8, <1>9, <1>10, <2>1, Zenon
<1>12. M \in Seq(WantedPeer(E)) /\ Len(M) = m /\ L \in Seq(WantedPeer(E)) /\ Len(L) = n
  <2> HIDE DEF m, n, E
  <2> QED  BY <1>10, <1>11, IsList
<1> HIDE DEF m, n, E, I, J, mesh, leaf, me
<1>13. /\ ps \in Seq(WantedPeer(E)) /\ DOMAIN ps = 1..(m + n)
       /\ \A i \in 1..m : ps[i] = M[i]
       /\ \A i \in 1..n : ps[m + i] = L[i]
  <2>1. /\ M \o L \in Seq(WantedPeer(E)) /\ DOMAIN (M \o L) = 1..(Len(M) + Len(L))
        /\ \A i \in 1..Len(M) : (M \o L)[i] = M[i]
        /\ \A i \in 1..Len(L) : (M \o L)[Len(M) + i] = L[i]
    <3>1. M \in Seq(WantedPeer(E)) /\ L \in Seq(WantedPeer(E))
      BY <1>12
    <3> HIDE DEF at, ps
    <3> QED
      BY <3>1, Joined
  <2> QED
    BY <1>12, <2>1
<1> HIDE DEF ps
<1>14. ASSUME NEW i \in 1..(m + n)
       PROVE  \/ i \in 1..m /\ ps[i] = M[i] /\ at[i] = hubs[i].name
              \/ i - m \in 1..n /\ ps[i] = L[i - m] /\ at[i] = spokes[i - m].name
  <2>1. CASE i <= m
    BY <1>10, <1>13, <2>1
  <2>2. CASE ~(i <= m)
    <3>1. i - m \in 1..n /\ m + (i - m) = i
      BY <1>10, <2>2
    <3>2. ps[m + (i - m)] = L[i - m]
      BY <1>13, <3>1
    <3> QED
      BY <2>2, <3>1, <3>2
  <2> QED
    BY <2>1, <2>2
<1>15. /\ \A i \in 1..m : i \in 1..(m + n) /\ at[i] = hubs[i].name
       /\ \A i \in 1..n : m + i \in 1..(m + n) /\ at[m + i] = spokes[i].name
  <2>1. ASSUME NEW i \in 1..n PROVE m + i \in 1..(m + n) /\ ~(m + i <= m) /\ m + i - m = i
    BY <1>10
  <2> QED
    BY <1>10, <2>1
<1>16. DOMAIN at = DOMAIN ps
  BY <1>13
<1> HIDE DEF at
<1>17. /\ \A i, j \in 1..m : hubs[i].name = hubs[j].name => i = j
       /\ \A i, j \in 1..n : spokes[i].name = spokes[j].name => i = j
       /\ \A i \in 1..m, j \in 1..n : hubs[i].name # spokes[j].name
  <2> DEFINE hname(i) == d.hubs[i].name
             aname(i) == d.agents[i].name
  <2>1. /\ \A i, j \in DOMAIN d.hubs : hname(i) = hname(j) => i = j
        /\ \A i, j \in DOMAIN d.agents : aname(i) = aname(j) => i = j
        /\ \A i \in DOMAIN d.hubs, j \in DOMAIN d.agents : hname(i) # aname(j)
    BY NodesDistinct, Zenon
  <2>2. \A i \in 1..m : hubs[i].name = hname(f[i]) /\ f[i] \in DOMAIN d.hubs
    BY <1>3, <1>5, <1>10, Zenon
  <2>3. \A i \in 1..n : spokes[i].name = aname(g[i]) /\ g[i] \in DOMAIN d.agents
    BY <1>3, <1>6, <1>10, Zenon
  <2>4. /\ \A i, j \in 1..m : f[i] = f[j] => i = j
        /\ \A i, j \in 1..n : g[i] = g[j] => i = j
    <3>1. DOMAIN hubs = 1..m /\ DOMAIN spokes = 1..n
      BY <1>10
    <3>2. ASSUME NEW i \in 1..m, NEW j \in 1..m, f[i] = f[j] PROVE i = j
      BY <1>5, <3>1, <3>2
    <3>3. ASSUME NEW i \in 1..n, NEW j \in 1..n, g[i] = g[j] PROVE i = j
      BY <1>6, <3>1, <3>3
    <3> QED
      BY <3>2, <3>3
  <2> HIDE DEF hname, aname
  <2>5. \A i, j \in 1..m : hubs[i].name = hubs[j].name => i = j
    BY <2>1, <2>2, <2>4
  <2>6. \A i, j \in 1..n : spokes[i].name = spokes[j].name => i = j
    BY <2>1, <2>3, <2>4
  <2>7. \A i \in 1..m, j \in 1..n : hubs[i].name # spokes[j].name
    BY <2>1, <2>2, <2>3
  <2> QED
    BY <2>5, <2>6, <2>7
<1>18. ASSUME NEW i \in DOMAIN ps, NEW j \in DOMAIN ps, at[i] = at[j] PROVE i = j
  <2> DEFINE First(l) == l \in 1..m /\ at[l] = hubs[l].name
             Second(l) == l - m \in 1..n /\ at[l] = spokes[l - m].name
  <2>1. (First(i) \/ Second(i)) /\ (First(j) \/ Second(j)) /\ i \in 1..(m + n) /\ j \in 1..(m + n)
    BY <1>13, <1>14
  <2>2. CASE First(i) /\ First(j)
    BY <1>17, <1>18, <2>2, Zenon
  <2>3. CASE Second(i) /\ Second(j)
    <3>1. i - m = j - m
      BY <1>17, <1>18, <2>3, Zenon
    <3> QED
      BY <1>10, <2>1, <3>1
  <2>4. CASE (First(i) /\ Second(j)) \/ (Second(i) /\ First(j))
    BY <1>17, <1>18, <2>4
  <2> QED
    BY <2>1, <2>2, <2>3, <2>4
<1>19. ASSUME NEW i \in DOMAIN ps
       PROVE  /\ at[i] \in DOMAIN infos /\ ps[i].publicKey = infos[at[i]].publicKey
              /\ PeerOf(d, me, at[i], ps[i].allowed)
  <2>1. CASE i \in 1..m /\ ps[i] = M[i] /\ at[i] = hubs[i].name
    BY <1>8, <1>10, <2>1
  <2>2. CASE i - m \in 1..n /\ ps[i] = L[i - m] /\ at[i] = spokes[i - m].name
    BY <1>9, <1>10, <2>2
  <2> QED
    BY <1>13, <1>14, <2>1, <2>2
<1>20. ASSUME NEW x \in DOMAIN infos, NEW allowed, PeerOf(d, me, x, allowed)
       PROVE  \E i \in DOMAIN ps : at[i] = x
  <2>1. CASE \E a \in DOMAIN d.hubs : d.hubs[a].name = x /\ x # me
    <3>1. PICK a \in I : d.hubs[a].name = x
      BY <2>1 DEF I
    <3>2. PICK j \in 1..m : f[j] = a
      BY <1>5, <1>10
    <3>3. hubs[j].name = x
      BY <1>5, <1>10, <3>1, <3>2
    <3> QED
      BY <1>13, <1>15, <3>3
  <2>2. CASE \E b \in DOMAIN d.agents : d.agents[b].name = x /\ d.agents[b].hub = me
    <3>1. PICK b \in J : d.agents[b].name = x
      BY <2>2 DEF J
    <3>2. PICK j \in 1..n : g[j] = b
      BY <1>6, <1>10
    <3>3. spokes[j].name = x
      BY <1>6, <1>10, <3>1, <3>2
    <3> QED
      BY <1>13, <1>15, <3>3
  <2> QED
    BY <1>20, <2>1, <2>2 DEF PeerOf
<1>21. PeersOfHub(ps, at, d, me, infos, E)
  BY <1>13, <1>16, <1>18, <1>19, <1>20, Zenon DEF PeersOfHub
<1>22. result.peers = ps
  BY <1>2 DEF ps
<1> QED
  BY <1>21, <1>22, Zenon DEF result, infos, me, E

-----------------------------------------------------------------------------
(* Peers with keys of their own that serve each address as declared share  *)
(* no prefix.                                                              *)
LEMMA DeclaredApart ==
  ASSUME NEW E, NEW ps \in Seq(WantedPeer(E)), NEW d, NEW self, NEW r, AsDeclared(ps, d, self, r),
         \A i, j \in DOMAIN ps : ps[i].publicKey = ps[j].publicKey => i = j
  PROVE  PeerList(ps, E)
<1> DEFINE key(i) == ps[i].publicKey
           gets(i) == ps[i].allowed
           hop(ip) == NextHop(d, self, r, ip)
<1>1. \A i \in DOMAIN ps : gets(i) \subseteq Prefixes
  <2>1. \A i \in DOMAIN ps : ps[i] \in WantedPeer(E)
    OBVIOUS
  <2>2. \A p \in WantedPeer(E) : p.allowed \subseteq Prefixes
    BY DEF WantedPeer
  <2> QED
    BY <2>1, <2>2
<1>2. \A ip \in Nat : \A i \in DOMAIN ps : (\E x \in gets(i) : ip \in x) => key(i) = hop(ip)
  BY Zenon DEF AsDeclared
<1>3. \A i, j \in DOMAIN ps : key(i) = key(j) => i = j
  OBVIOUS
<1> HIDE DEF key, gets, hop
<1>4. ASSUME NEW i \in DOMAIN ps, NEW j \in DOMAIN ps, NEW x \in gets(i), x \in gets(j) PROVE i = j
  <2>1. PICK ip \in Nat : ip \in x
    BY <1>1 DEF Prefixes
  <2> QED
    BY <1>2, <1>3, <1>4, <2>1
<1>5. \A i, j \in DOMAIN ps : i # j => key(i) # key(j) /\ gets(i) \cap gets(j) = {}
  BY <1>3, <1>4
<1> QED
  BY <1>5 DEF PeerList, key, gets

(* A hub has a peer for every node it sends to. *)
LEMMA HopIsPeer ==
  ASSUME NEW d, Parsed(d), NEW me, NEW n, NEW ip, Hop(d, me, n, ip)
  PROVE  \E allowed : PeerOf(d, me, n, allowed)
<1>1. CASE \E a \in DOMAIN d.hubs : d.hubs[a].name = n /\ n # me
  BY <1>1, Zenon DEF PeerOf
<1>2. CASE \E b \in DOMAIN d.agents : d.agents[b].name = n /\ d.agents[b].hub = me
  BY <1>2, Zenon DEF PeerOf
<1>3. \A b \in DOMAIN d.agents : \E a \in DOMAIN d.hubs : d.hubs[a].name = d.agents[b].hub
  BY AgentsHaveHubs
<1> QED
  BY <1>1, <1>2, <1>3, Zenon DEF Hop

(* A hub's peers are the next hops. *)
LEMMA HubWanted ==
  ASSUME NEW d, Parsed(d), NEW self, self.role # "spoke", NEW eps, NEW E,
         NEW r \in SUBSET Entries(eps), DistinctEntries(r), NEW ps, NEW at,
         PeersOfHub(ps, at, d, self.name, byName(r), E)
  PROVE  PeerList(ps, E) /\ AsDeclared(ps, d, self, r)
<1> DEFINE infos == byName(r)
           me == self.name
           known == DOMAIN infos
           keyOf(n) == infos[n].publicKey
           hop(ip) == NextHop(d, self, r, ip)
           key(i) == ps[i].publicKey
           gets(i) == ps[i].allowed
           serves(i, ip) == \E x \in gets(i) : ip \in x
           to(n, ip) == Hop(d, me, n, ip)
<1>1. /\ ps \in Seq(WantedPeer(E)) /\ DOMAIN at = DOMAIN ps
      /\ \A i, j \in DOMAIN ps : at[i] = at[j] => i = j
      /\ \A i \in DOMAIN ps : at[i] \in known /\ key(i) = keyOf(at[i]) /\ PeerOf(d, me, at[i], gets(i))
      /\ \A n \in known : (\E allowed : PeerOf(d, me, n, allowed)) => \E i \in DOMAIN ps : at[i] = n
  BY Zenon DEF PeersOfHub
<1>2. \A n \in known : infos[n] \in r /\ infos[n].name = n /\ keyOf(n) # ""
  BY ByNameFact, Zenon
<1>3. \A n, m \in known : keyOf(n) = keyOf(m) => n = m
  <2>1. \A p, q \in r : p.publicKey = q.publicKey /\ p.publicKey # "" => p = q
    BY Zenon DEF DistinctEntries
  <2> HIDE DEF infos
  <2> QED
    BY <1>2, <2>1, Zenon
<1>4. \A ip : /\ (~\E n : to(n, ip)) => hop(ip) = ""
              /\ \A n : to(n, ip) => hop(ip) = IF n \in known THEN keyOf(n) ELSE ""
  BY HubNextHop, Zenon
<1>5. \A ip, n : to(n, ip) => \E allowed : PeerOf(d, me, n, allowed)
  BY HopIsPeer
<1>6. ASSUME NEW ip, NEW i \in DOMAIN ps PROVE serves(i, ip) <=> to(at[i], ip)
  <2>1. PeerOf(d, me, at[i], gets(i))
    BY <1>1
  <2> HIDE DEF me, gets
  <2> QED
    BY <2>1, ServesHop
<1>7. \A n \in known : keyOf(n) # ""
  BY <1>2, Zenon
<1> HIDE DEF infos, me, known, keyOf, hop, key, gets, serves, to
<1>8. ASSUME NEW ip, NEW i \in DOMAIN ps PROVE serves(i, ip) <=> key(i) = hop(ip)
  <2>1. ASSUME to(at[i], ip) PROVE key(i) = hop(ip)
    BY <1>1, <1>4, <2>1, Zenon
  <2>2. ASSUME key(i) = hop(ip) PROVE to(at[i], ip)
    <3>1. hop(ip) # ""
      <4>1. at[i] \in known /\ key(i) = keyOf(at[i])
        BY <1>1, Zenon
      <4> QED
        BY <1>7, <2>2, <4>1, Zenon
    <3>2. PICK n : to(n, ip) /\ n \in known /\ hop(ip) = keyOf(n)
      BY <1>4, <3>1, Zenon
    <3> QED
      BY <1>1, <1>3, <2>2, <3>2
  <2> QED
    BY <1>6, <2>1, <2>2
<1>9. ASSUME NEW ip, hop(ip) # "" PROVE \E i \in DOMAIN ps : key(i) = hop(ip)
  <2>1. PICK n : to(n, ip) /\ n \in known /\ hop(ip) = keyOf(n)
    BY <1>4, <1>9, Zenon
  <2>2. PICK i \in DOMAIN ps : at[i] = n
    BY <1>1, <1>5, <2>1
  <2> QED
    BY <1>1, <2>1, <2>2
<1>10. AsDeclared(ps, d, self, r)
  BY <1>8, <1>9, Zenon DEF AsDeclared, serves, key, gets, hop
<1>11. \A i, j \in DOMAIN ps : key(i) = key(j) => i = j
  BY <1>1, <1>3
<1> QED
  BY <1>1, <1>10, <1>11, DeclaredApart DEF key

(* The only peer of a spoke is its hub, for the whole overlay. *)
LEMMA SpokeWanted ==
  ASSUME NEW d, Parsed(d), NEW self, self.role = "spoke", NEW keepalive \in Int, NEW eps, NEW as,
         NEW dns \in [eps -> as \cup {BadAddr}], NEW r \in SUBSET Entries(eps), DistinctEntries(r),
         NEW ps, NEW result, result = spokePeers(self, byName(r), d.cidr, keepalive, dns),
         result.ok, ps = result.peers
  PROVE  PeerList(ps, as \cup {NoAddr}) /\ AsDeclared(ps, d, self, r)
<1> DEFINE infos == byName(r)
           n == self.hubName
           hub == infos[n]
           E == as \cup {NoAddr}
           ep == resolveEndpoint(dns, hub.endpoint)
           peer == Peer(hub, ep, {d.cidr}, keepalive)
<1>1. n \in DOMAIN infos /\ Dialable(hub, dns) /\ ps = <<peer>>
  <2>1. result = IF n \in DOMAIN infos /\ Dialable(hub, dns) THEN Success(<<peer>>) ELSE Failure
    BY Zenon DEF spokePeers
  <2> HIDE DEF infos, n, hub, peer
  <2> QED
    BY <2>1 DEF Success, Failure
<1>2. hub \in r /\ hub.publicKey # "" /\ Via(r, n) = {hub.publicKey}
  BY <1>1, ByNameFact, Zenon
<1> HIDE DEF infos, n, peer
<1>3. hub.publicKey \in PublicKeys /\ ep \in E
  BY <1>1, <1>2, Dialled, Zenon
<1>4. d.cidr \in Prefixes
  BY AddressesNat
<1>5. IsPeer(peer, E, hub.publicKey, {d.cidr})
  <2>1. {d.cidr} \in SUBSET Prefixes /\ keepalive \in Int
    BY <1>4
  <2> HIDE DEF hub, ep, E
  <2> QED
    BY <1>3, <2>1, PeerMade, Zenon DEF peer
<1> HIDE DEF hub, ep, E
<1>6. peer \in WantedPeer(E) /\ peer.publicKey = hub.publicKey /\ peer.allowed = {d.cidr}
  BY <1>5 DEF IsPeer
<1>7. ps \in Seq(WantedPeer(E)) /\ DOMAIN ps = {1} /\ ps[1] = peer
  BY <1>1, <1>6
<1>8. \A ip : NextHop(d, self, r, ip) = IF ip \in d.cidr THEN hub.publicKey ELSE ""
  BY <1>2, SpokeNextHop, Zenon DEF n
<1>9. AsDeclared(ps, d, self, r)
  <2>1. /\ \A i \in DOMAIN ps : ps[i].publicKey = hub.publicKey /\ ps[i].allowed = {d.cidr}
        /\ 1 \in DOMAIN ps
    BY <1>6, <1>7
  <2>2. ASSUME NEW ip \in Nat, NEW i \in DOMAIN ps
        PROVE  (\E x \in ps[i].allowed : ip \in x) <=> ps[i].publicKey = NextHop(d, self, r, ip)
    <3>1. (\E x \in ps[i].allowed : ip \in x) <=> ip \in d.cidr
      BY <2>1
    <3> QED
      BY <1>2, <1>8, <2>1, <3>1, Zenon
  <2>3. ASSUME NEW ip \in Nat, NextHop(d, self, r, ip) # ""
        PROVE  \E i \in DOMAIN ps : ps[i].publicKey = NextHop(d, self, r, ip)
    BY <1>8, <2>1, <2>3, Zenon
  <2> QED
    BY <2>2, <2>3, Zenon DEF AsDeclared
<1>10. PeerList(ps, E)
  BY <1>7 DEF PeerList
<1> QED
  BY <1>9, <1>10 DEF E

(* What PeersFor returns without an error: peers with keys and prefixes of *)
(* their own, by which each address leads to its next hop.                 *)
THEOREM PeersAsDeclared ==
  ASSUME NEW d, Parsed(d), NEW self, NEW eps, NEW as, NEW dns \in [eps -> as \cup {BadAddr}],
         NEW r \in SUBSET Entries(eps), DistinctEntries(r),
         PeersFor(d, self, r, d.persistentKeepalive, dns).ok
  PROVE  /\ PeerList(PeersFor(d, self, r, d.persistentKeepalive, dns).peers, as \cup {NoAddr})
         /\ AsDeclared(PeersFor(d, self, r, d.persistentKeepalive, dns).peers, d, self, r)
<1> DEFINE keepalive == d.persistentKeepalive
           result == PeersFor(d, self, r, keepalive, dns)
<1>1. keepalive \in Int
  BY AddressesNat
<1> HIDE DEF keepalive
<1>2. CASE self.role = "spoke"
  <2>1. result = spokePeers(self, byName(r), d.cidr, keepalive, dns)
    BY <1>2, Zenon DEF PeersFor
  <2>2. result.ok
    BY DEF keepalive
  <2> HIDE DEF result
  <2>3. PeerList(result.peers, as \cup {NoAddr}) /\ AsDeclared(result.peers, d, self, r)
    BY <1>1, <1>2, <2>1, <2>2, SpokeWanted, Zenon
  <2> QED
    BY <2>3 DEF result, keepalive
<1>3. CASE self.role # "spoke"
  <2>1. result = hubPeers(d, self, byName(r), keepalive, dns)
    BY <1>3, Zenon DEF PeersFor
  <2>2. result.ok
    BY DEF keepalive
  <2> HIDE DEF result
  <2>3. hubPeers(d, self, byName(r), keepalive, dns).ok
    BY <2>1, <2>2
  <2>4. PICK at : PeersOfHub(result.peers, at, d, self.name, byName(r), as \cup {NoAddr})
    BY <1>1, <2>1, <2>3, HubPeersListed, Zenon
  <2>5. PeerList(result.peers, as \cup {NoAddr}) /\ AsDeclared(result.peers, d, self, r)
    BY <1>3, <2>4, HubWanted, Zenon
  <2> QED
    BY <2>5 DEF result, keepalive
<1> QED
  BY <1>2, <1>3

-----------------------------------------------------------------------------
(* A device with the peers of a document leads each address to its next    *)
(* hop.                                                                    *)
LEMMA RoutesDeclared ==
  ASSUME NEW E, NEW dv, IsDevice(dv, E), NEW ps, HasPeers(dv, ps), NEW d, NEW s, NEW r,
         AsDeclared(ps, d, s, r), NEW ip \in Nat
  PROVE  Route(dv, ip) = NextHop(d, s, r, ip)
<1> DEFINE key(i) == ps[i].publicKey
           hop == NextHop(d, s, r, ip)
           serves(i) == \E x \in ps[i].allowed : ip \in x
           holds(k) == \E x \in dv[k].allowed : ip \in x
           H == Holders(dv, ip)
<1>1. /\ \A i \in DOMAIN ps : serves(i) <=> key(i) = hop
      /\ hop # "" => \E i \in DOMAIN ps : key(i) = hop
  BY Zenon DEF AsDeclared
<1>2. \A k : k \in DOMAIN dv <=> \E i \in DOMAIN ps : k = key(i)
  BY DEF HasPeers, KeysOf
<1>3. \A i \in DOMAIN ps : holds(key(i)) <=> serves(i)
  BY DEF HasPeers
<1>4. \A k : k \in H <=> k \in DOMAIN dv /\ holds(k)
  BY DEF Holders
<1>5. IF H = {} THEN Route(dv, ip) = "" ELSE Route(dv, ip) \in H
  BY RouteHolds, Zenon
<1> HIDE DEF key, hop, serves, holds, H
<1>6. \A k : k \in H <=> k = hop /\ \E i \in DOMAIN ps : key(i) = hop
  BY <1>1, <1>2, <1>3, <1>4, Zenon
<1>7. CASE hop = ""
  BY <1>5, <1>6, <1>7, Zenon DEF hop
<1>8. CASE hop # ""
  BY <1>1, <1>5, <1>6, <1>8, Zenon DEF hop
<1> QED
  BY <1>7, <1>8, Zenon

(* On the way to those peers an address leads to a peer that had it or to  *)
(* its next hop, and stays with the next hop where only that one had it.   *)
LEMMA RoutesOnTheWay ==
  ASSUME NEW E, NEW new, NEW old, NEW ps, OnTheWay(new, old, ps, E), NEW d, NEW s, NEW r,
         AsDeclared(ps, d, s, r), NEW ip \in Nat
  PROVE  LET before == Holders(old, ip)
             after == NextHop(d, s, r, ip)
         IN  Route(new, ip) \in before \cup {after} \cup IF before = {after} THEN {} ELSE {""}
<1> DEFINE key(i) == ps[i].publicKey
           gets(i) == ps[i].allowed
           hop == NextHop(d, s, r, ip)
           had(k) == old[k].allowed
           has(k) == new[k].allowed
           B == Holders(old, ip)
           H == Holders(new, ip)
<1>1. /\ \A i \in DOMAIN ps : (\E x \in gets(i) : ip \in x) <=> key(i) = hop
      /\ hop # "" => \E i \in DOMAIN ps : key(i) = hop
  BY Zenon DEF AsDeclared
<1>2. /\ \A k \in DOMAIN new :
           \/ \E j \in DOMAIN ps : k = key(j) /\ has(k) = gets(j)
           \/ /\ k \in DOMAIN old /\ has(k) \subseteq had(k)
              /\ \A x \in had(k) \ has(k) : \E j \in DOMAIN ps : key(j) # k /\ x \in gets(j)
      /\ \A j \in DOMAIN ps : key(j) \in DOMAIN old => key(j) \in DOMAIN new
  BY Zenon DEF OnTheWay
<1>3. IF H = {} THEN Route(new, ip) = "" ELSE Route(new, ip) \in H
  BY RouteHolds, Zenon DEF OnTheWay
<1>4. /\ \A k : k \in H <=> k \in DOMAIN new /\ \E x \in has(k) : ip \in x
      /\ \A k : k \in B <=> k \in DOMAIN old /\ \E x \in had(k) : ip \in x
  BY DEF Holders
<1> HIDE DEF key, gets, hop, had, has, B, H
<1>5. ASSUME NEW k \in H PROVE k \in B \cup {hop}
  <2>1. PICK x \in has(k) : ip \in x
    BY <1>4
  <2>2. CASE \E j \in DOMAIN ps : k = key(j) /\ has(k) = gets(j)
    BY <1>1, <2>1, <2>2, Zenon
  <2>3. CASE k \in DOMAIN old /\ has(k) \subseteq had(k)
    BY <1>4, <2>1, <2>3
  <2> QED
    BY <1>2, <1>4, <2>2, <2>3
<1>6. ASSUME B = {hop}, hop # "" PROVE hop \in H
  <2>1. hop \in DOMAIN old /\ \E x \in had(hop) : ip \in x
    BY <1>4, <1>6, Zenon
  <2>2. PICK i \in DOMAIN ps : key(i) = hop
    BY <1>1, <1>6, Zenon
  <2>3. hop \in DOMAIN new
    BY <1>2, <2>1, <2>2
  <2>4. CASE \E j \in DOMAIN ps : hop = key(j) /\ has(hop) = gets(j)
    BY <1>1, <1>4, <2>3, <2>4, Zenon
  <2>5. CASE \A x \in had(hop) \ has(hop) : \E j \in DOMAIN ps : key(j) # hop /\ x \in gets(j)
    BY <1>1, <1>4, <2>1, <2>3, <2>5, Zenon
  <2> QED
    BY <1>2, <2>3, <2>4, <2>5
<1>7. Route(new, ip) \in B \cup {hop} \cup IF B = {hop} THEN {} ELSE {""}
  <2>1. CASE H # {}
    BY <1>3, <1>5, <2>1, Zenon
  <2>2. CASE H = {} /\ B = {hop}
    BY <1>3, <1>6, <2>2, Zenon
  <2>3. CASE H = {} /\ B # {hop}
    BY <1>3, <2>3, Zenon
  <2> QED
    BY <2>1, <2>2, <2>3, Zenon
<1> QED
  BY <1>7, Zenon DEF B, hop
=============================================================================
