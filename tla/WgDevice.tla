------------------------------ MODULE WgDevice ------------------------------
(***************************************************************************)
(* The peers of a kernel WireGuard device and how ApplyPeers changes them  *)
(* (internal/wg).  A device is a function from public keys to records      *)
(* [endpoint, allowed, keepalive]; allowed is a set of prefixes and the    *)
(* keepalive is in milliseconds.                                           *)
(***************************************************************************)
EXTENDS Topology

EmptyDevice == <<>>

normalizeKeepalive(ms) == IF ms < 0 THEN 0 ELSE ms

(* peersEqual, on the peer read from the device (wgPeerToDomain). *)
peersEqual(have, want) ==
  /\ have.endpoint = want.endpoint
  /\ have.allowed = want.allowed
  /\ normalizeKeepalive(have.keepalive) = normalizeKeepalive(want.keepalive)

computeDiff(current, desired) ==
  LET new == {i \in DOMAIN desired : desired[i].publicKey \notin DOMAIN current}
      changed == {i \in DOMAIN desired \ new : ~peersEqual(current[desired[i].publicKey], desired[i])}
  IN  [added |-> Selected(desired, new),
       updated |-> Selected(desired, changed),
       removed |-> DOMAIN current \ {p.publicKey : p \in Range(desired)}]

Empty(diff) == diff.added = <<>> /\ diff.updated = <<>> /\ diff.removed = {}

(* Mutant of peerToConfig: allowed IPs are only ever added. *)
peerToConfigAdds(p, replaceAllowedIPs) ==
  [publicKey |-> p.publicKey, replace |-> FALSE, endpoint |-> p.endpoint,
   allowed |-> p.allowed, setKeepalive |-> p.keepalive > 0, keepalive |-> p.keepalive]

peerToConfig(p, replaceAllowedIPs) ==
  [publicKey |-> p.publicKey, replace |-> replaceAllowedIPs, endpoint |-> p.endpoint,
   allowed |-> p.allowed, setKeepalive |-> p.keepalive > 0, keepalive |-> p.keepalive]

(* The peer configurations of a diff in the order ApplyPeers lists them,   *)
(* without the removals, which come last.                                  *)
PeerConfigs(diff) ==
  [i \in DOMAIN diff.added |-> peerToConfig(diff.added[i], FALSE)]
  \o [i \in DOMAIN diff.updated |-> peerToConfig(diff.updated[i], TRUE)]

-----------------------------------------------------------------------------
(* The kernel.  Seconds are sent in 16 bits; a prefix belongs to one peer, *)
(* the last one it was given to; nothing is said about an endpoint or a    *)
(* keepalive that is not sent.                                             *)
Seconds(ms) == ((ms \div 1000) % U16) * 1000

ConfigurePeer(dev, c) ==
  LET old == IF c.publicKey \in DOMAIN dev THEN dev[c.publicKey]
             ELSE [endpoint |-> NoAddr, allowed |-> {}, keepalive |-> 0]
      new == [endpoint |-> IF c.endpoint = NoAddr THEN old.endpoint ELSE c.endpoint,
              allowed |-> c.allowed \cup IF c.replace THEN {} ELSE old.allowed,
              keepalive |-> IF c.setKeepalive THEN Seconds(c.keepalive) ELSE old.keepalive]
  IN  [k \in DOMAIN dev \cup {c.publicKey} |->
         IF k = c.publicKey THEN new ELSE [dev[k] EXCEPT !.allowed = @ \ c.allowed]]

ConfigurePeers(dev, configs) ==
  LET after[i \in 0..Len(configs)] ==
        IF i = 0 THEN dev ELSE ConfigurePeer(after[i - 1], configs[i])
  IN  after[Len(configs)]

RemovePeers(dev, keys) == Restrict(dev, DOMAIN dev \ keys)

(* Cryptokey routing: the longest prefix that holds the address decides. *)
Route(dev, ip) ==
  LET owns == {o \in UNION {{k} \X dev[k].allowed : k \in DOMAIN dev} : ip \in o[2]}
  IN  IF owns = {} THEN ""
      ELSE (CHOOSE o \in owns : \A q \in owns : Cardinality(o[2]) <= Cardinality(q[2]))[1]

(* The peers that have a prefix with the address. *)
Holders(dev, ip) == {k \in DOMAIN dev : \E p \in dev[k].allowed : ip \in p}
=============================================================================
