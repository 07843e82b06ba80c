# Verification of seine

seine is a GitOps orchestrator for a WireGuard overlay. This directory holds
TLA+ models of it, the TLC configurations that check them on small instances, and
theorems that TLAPS proves for every value of the constants. `PROJECT.json`
lists the components, the runs, the source lines each definition stands for,
the hazards and the disagreements found between the documentation and the code.

## The system

A document, `network.yaml`, in a Git repository declares hubs, agents (spokes),
groups and ACLs. Every process reads it on its own:

| part | what it does | module |
|---|---|---|
| `internal/gitsource`, `internal/specsource` | clone or open a working copy, fetch, read and parse; cache the last valid document; wake up the consumer through a one-slot channel; back off after failures | `SpecSource` |
| `internal/spec` | defaults, validation, lookups | `SpecDoc` |
| `internal/store`, `internal/controlplane` | the server's table of agents; Register, Heartbeat and the token check | `ControlPlane`, `Registry` |
| `internal/topology` | the peers an agent must have | `Topology` |
| `internal/wg` | the agent's key file; the difference to the kernel's peers and the request that removes it | `AgentIdentity`, `WgDevice` |
| `internal/netpolicy` | ACLs to rules, rules to an iptables chain | `NetPolicy`, `Firewall` |
| `internal/agentcore` | identity, start, the reconcile loop, shutdown | `SpecSource`, `AgentIdentity`, `AgentPeers`, `Firewall` |
| all of it | several nodes, each on a commit of its own, and the packets between them | `Overlay` |

They interact as follows. The server and each agent run a watcher over the same
branch and may be on different commits. An agent registers (bootstrap token,
public key) when it has no token file or the server no longer knows its token,
and gets a bearer token. Each cycle of its loop sends a
heartbeat and gets the registry back, with roles and addresses from the
server's commit. It then reads its own document, computes its peers, configures
the device and, on a hub, rewrites the ACL chain.

## Modules

Definitions keep the names of the code. An action is a stretch of code between
two points at which another actor can see or change something. Operators whose
comment begins with "Mutant of" are plausible bugs; no specification uses them.

**SpecSource.** Two goroutines, the poller (`Run`, `pullOnce`) and the agent
(`waitForFirstSpec`, `reconcileLoop`), share the cached commit, the last error
and the channel. A commit is a value; `ValidCommits` are those whose file parses.
`Swap` is the critical section and `Notify` the send after the unlock, so the
agent can run between the two. The remote is pushed to, also with force; a
restart may keep the working copy, lose it, or find a half-made clone, which can
be opened and fetched into or is rejected by every pull.

**SpecDoc.** A decoded document as a record: a prefix is a set of addresses, an
address a number. `ApplyDefaults`, `Validate` and the lookups follow the code;
syntax and the envelope are left out.

**ControlPlane** splits Register and Heartbeat at their statements. SQLite runs
on one connection, so a statement is atomic. Between statements other calls, the
watcher, a restart or the loss of the database interleave. The k-th draw of
credentials yields ID k and token k, which is what "random and never repeated"
comes to. **Registry** is what the server promises without IDs, calls in flight
or commits: a name has one key and one credential, a credential that was ever
used never returns, and each operation is one step.

**NetPolicy** compiles ACLs to rules and evaluates rules on a flow. `Policy` is
the reference: a flow is judged from the document alone. **Firewall** is a hub's
process from `Run` to its deferred calls, one step per iptables call, each of
which may fail, over kernel state that survives a crash.

**Topology** is `FindSelf` and `PeersFor`. `NextHop` is its reference: where a
packet must go, from the document and the registry alone. **WgDevice** is
`computeDiff`, `peerToConfig` and the kernel's side (external): a prefix belongs
to the last peer it was given to, keepalives are whole seconds, routing takes
the peer that holds the address. **AgentPeers** drives both through the agent's
cycle while document, registry, DNS and learned endpoints change.

**AgentIdentity** is a state directory (`private.key`, `auth.token`) and the
process that may run on it, against the registry. Each of Register's request,
commit, reply and the write of the token file is a step; the process can die,
the reply can get lost and the write can fail at each, a call whose client is
gone may still commit, and the server may restart with or without its database.
Of a token only matters whether the registry still holds its hash; that a
replaced token never comes back is what `Registry` promises. A host may have the
name of another one, be retired, be started without the bootstrap token, or lose
either of its files or both. `adrift` records the hosts that lost the key alone.

**Overlay** puts nodes together. Each one applies peers (`Topology`, `WgDevice`)
and then, on a hub, the ACL (`NetPolicy`) of the commit it has reached, for the
role and address it had when it started, with the registry of the server's
commit. A device request may fail half-way; `cycles` records which cycles a
device's peers are from. A start gives the link an address with the prefix length
of the overlay at that moment, and the kernel sends the network of this address to
the link (`routed`) until the link goes down; a running process never changes it. A
crash leaves link and rules in place; a restart adds an address, and its network, to
a link that is there. A packet is `Carried` along a path of nodes if each one hands
it to the next (`Hands`: the kernel's route to the link, the route of the sender's
device, WireGuard's check that the source belongs to the neighbour it came from, the
kernel's refusal of its own source address) and the ACL of none of those in between
drops it. A path visits
no node twice, which loses nothing: a node takes packets from one source from one
neighbour only, so a way never closes (`NoNodeTwice`, proved). What the smaller
modules establish is taken from them: a node is known by its own key, a partial
chain drops no more than the whole.

## Runs

| run | result | states |
|---|---|---|
| `spec_source` | no lost wake-up, `Current` sound, backoff schedule | 541,752 |
| `spec_source_live` | a resting valid tip is applied for good; shutdown ends | 40,684 |
| `control_plane` | rows are whole, hub endpoints kept, replies match their commit, heartbeats touch their own row, old tokens stay dead | 233,693 |
| `registry_refinement` | `ControlPlane` implements `Registry`; last-seen is never from before the registration | 159,206 |
| `firewall` | rules in force decide as the document says until rewritten; a partial chain never drops what is permitted; one jump, never dangling; the policy keeps being completely installed | 11,884 |
| `agent_peers` | a configured hub or spoke routes as declared; half-done requests never misdirect | 236,706 |
| `peers_live` | declared routes are reached and kept | 34,068 |
| `agent_identity` | a token that authenticates goes with the key beside it; a host that is served enrols again after any fault but two; hosts with one name are accepted in turns | 404,698 |
| `overlay` | forwarded packets come from and go to whom the first and the last hub's documents say, half-done requests included; hubs of one commit keep apart whom its ACL keeps apart; a settled network connects exactly as declared | 98,566 |

Three runs show where the code does something other than a sentence about it.
Each checks that sentence, and TLC finds a behaviour that breaks it:

- `hub_endpoint`: "May be empty for spokes". A spoke that registered without an
  endpoint and is turned into a hub is listed as a hub without one.
- `live_ruleset`: "the live ruleset always matches the spec". The chain is
  flushed in place, then filled rule by rule; a failed append leaves it partial
  until the next cycle.
- `lost_keypair`: "Re-registration with the same name overwrites the public key —
  this is the recovery path when an agent loses its keypair". An agent that loses
  `private.key` and keeps `auth.token` makes a new pair and goes on with the token.
  The server accepts it, so there is no re-registration, and the registry shows the
  other nodes the lost key for good.

Others were met while modelling and have no run that fails on them:

- `netpolicy/firewall_linux.go:49-50`, the listing in the comment of `Reconcile`,
  has the allow rules before the deny rules; by first match an allow would win.
  `buildRules` puts the denies first, as its own comment and
  `docs/internal/netpolicy.md:129-134` say. `EnforcedUntilRewritten` and
  the theorem `CompiledAsMeant` hold for the order of the code; the order of the listing is the
  mutant `buildRulesAllowFirst`, which TLC refutes.
- `docs/internal/wg.md:50-53` says of a key file "exists and parses ... Otherwise
  generates a new one". A file that exists and does not parse is an error, which
  stops the agent at every start (`keys.go:47`).
- `docs/cmd/seine-agent.md:92`: "If both files exist, the agent skips
  re-registration on startup." It does so when `auth.token` exists
  (`agent.go:274`), whether there was a key or not; `lost_keypair` is what follows.
- `docs/internal/gitsource.md:132`: "treat all `Pull` errors as transient and
  retry". A `.git` left by a process that died early in the clone is rejected by
  every pull, and `openOrClone` never clones over it (`source.go:146`).

- `wg/types.go:80`: "Stable peers ... are not touched". A hub wants no endpoint
  for a spoke, the kernel has learned one, so the peer is configured again in
  every cycle. The routes do not suffer (`peers_live`).
- `docs/internal/topology.md:50`: "what the local agent is in this spec". It is
  resolved once, when the agent starts. `Overlay` has the nodes that go on being
  what an older commit made of them.
- `docs/cmd/seine-agent.md:55` says of the bootstrap token "Used only on first
  Register." `reconcileOnce` uses it again whenever a heartbeat comes back
  `Unauthenticated`, and without it such an agent stays out. `SelfHeals` is
  therefore stated for hosts that still have it.
- `docs/internal/wg.md:127`: "`Up` is idempotent". With another address it adds
  one to a link that is there; `Settled` asks for a link without a leftover.
- `docs/architecture.md:114` lists `Down` before `Teardown`, but deferred calls run
  in reverse.
- `wg/types.go:31` says of the keepalive "0 disables", but zero is never sent, so
  on the other hubs a hub turned spoke under the same key keeps its keepalive.

Some properties carry a condition that is part of the result:

- `SelfHeals` leaves out a host whose `private.key` was cut short (not `Readable`),
  for which `LoadOrGenerate` returns an error at every start until somebody removes
  the file, and one that lost `private.key` alone (`adrift`) for as long as the
  server accepts its token.
- `TokenSpeaksForKey` leaves out the same hosts that are `adrift`, from the loss to
  their next registration. It says that there is no other way to a token that
  speaks for a key the host does not have.
- `FollowsTip` leaves out a working copy that cannot be opened (`git = "broken"`).
- `SeenSinceRegistered` takes a clock that does not step back; the code uses wall
  clock time.
- `SettledAsDeclared` speaks of nodes that were restarted when the edit calls for it
  (`UpToDate`): role, hub, address and the kernel's route to the overlay are set at
  start. In particular, when `spec.cidr` grows a running node gets peers for the new
  addresses but no route, and does not reach them before it is restarted.
- `PolicyByName` speaks of hubs whose peers and rules are of one commit:
  `reconcileOnce` applies the peers first, and hubs pull on their own, so in
  between an address that has changed hands meets the rules made for its former
  owner.
- `EndsAreKnown` and `PolicyByName` know a node up to its hub (`Behind`): the
  other hubs send the address of a spoke to the spoke's hub, and a hub that still
  has this address itself keeps the packet and answers it. The edit `Moved` of
  the run does this.
- `EndsAreKnown` and `PolicyByName` make an exception of a node that is
  `BetweenPlaces`. A hub dies, comes back as a spoke, and its first request fails
  after the new hub was given the whole overlay and before a former spoke was
  removed: until a cycle succeeds it passes on that spoke's packets to its new
  hub, whatever their destination. Without the exception TLC shows this with the
  edit `Turned` and two faults.
- `RoutesMoveDirectly` lets a packet go to any peer that had a prefix with its
  address before, not only to the one it went to: when the overlay prefix
  changes, prefixes of several peers nest, and a request that stops half-way may
  take away the longest one.
- `DeviceAsDeclared`, `RoutesMoveDirectly` and `RoutesConverge` are about the
  routes of the WireGuard device. They do not look at keepalives, and the kernel's
  route to the link is in `Overlay` only. The kernel replaces the prefixes of one
  peer in one step; a request stops between peers.

### Bounds

- `SpecSource`: two valid commits and an invalid one, three pushes (one for
  liveness), one restart. Two valid commits with force pushes give every order
  of old, new and old again. `MaxFails` 3 passes the cap of the backoff (2, 4, 5).
  Clock time is absent: a sleep may end at any moment, its length is recorded.
- `ControlPlane`: two calls at once, symmetric; two draws, enough for a
  re-registration to overtake a heartbeat. Documents turn a spoke into a hub and
  drop a name. The refinement run has one name and a clock with two values.
- `Firewall`: two documents whose ACLs contradict each other; for compilation alone
  `CompiledAsMeant` is proved of every document, and has no run. The number of
  failures, crashes and restarts is not bounded.
- `AgentPeers`: two hubs, two spokes, three documents in which spokes change
  hubs and swap addresses, a hub is demoted and the overlay prefix grows, so that
  prefixes nest, seen from hub `h1` and from spoke `a`; registries with missing
  entries, replaced keys, an unusable key and an empty endpoint. Nothing else is
  bounded. `peers_live` uses two registries for each agent.
- `AgentIdentity`: two hosts under one name, which the second of three commits
  takes out and the third puts back; two faults of any kind in any place, enough
  for a lost reply or a half-written file to meet a crash, a wiped database or a
  lost directory. Restarts by the supervisor, re-registrations and the turns of
  the two hosts are not bounded.
- `Overlay`: up to two hubs and two spokes, a spare address, one edit of the document
  at a time out of five (`Crossed`: addresses and hubs swapped; `Turned`: a hub and
  its spoke change places under the other hub, which moves; `Replaced`: another
  spoke under the same address; `Moved`: a hub's address given to its own spoke;
  `Grown`: the overlay grows and a spoke moves to the new part). All but `Turned`
  close one direction between the spokes' groups. A process that is stopped because
  the edit makes a restart necessary is not counted, so a settled state of the
  second commit is reached after every edit, and with a pair the ACL keeps apart
  after `Crossed`, `Moved` and `Grown`. Faults (a crash, a stop without need, a
  device request that fails half-way, an ACL that fails after the flush): one during an edit; two in `Turned`, where a
  request that fails after a restart mixes the peers of two places. The theorems of `OverlayProofs` are for any
  number. Cycles and other failures are not bounded. Where WireGuard last
  heard from a peer is left out: it has no part in routing.

Deadlock checking is off in `SpecSource`, where the process may end and the
bound on restarts keeps it from coming back, and in `AgentIdentity`, where hosts
may be retired.

### Fairness

- `SpecSource`: a goroutine that nothing blocks goes on (weak). Network steps
  and heartbeats may fail any number of times but not forever (strong). Go's
  `select` chooses at random among ready cases, so a ready `ctx.Done` is taken
  eventually (strong). Nothing is assumed of pushes, signals or the deadline of
  the first load before a signal.
- `Firewall`, `AgentPeers`: the ticker wakes the loop and calls return (weak).
  That calls stop failing is a hypothesis of the property itself.
- `AgentIdentity`: a host the operator wants to run is started again
  (`restart: unless-stopped` in `deployments/compose/docker-compose.yml`), the
  watchers go on pulling, the ticker and the retry timer fire, and calls return
  (weak). Faults are bounded, hence stop.

## Proofs

Every invariant, action property and refinement of the passing runs is also a
theorem, for every value of the constants the assumptions admit. `CompiledAsMeant`
and `PeersAsDeclared` are about every document and are not the property of a run.
What is left to TLC alone is liveness.

**SpecSourceProofs**, for all commits, delays and bounds: `TypeOK`,
`NoLostUpdate`, `CurrentIsPublishedOrError`, `BackoffSchedule`. `NoLostUpdate` is
inductive given `TypeOK`: only `Swap` changes the cached commit, and it leaves
the old one in `prev`, so a change is announced by the `Notify` that follows.
`CurrentIsPublishedOrError` is strengthened to follow a commit from the branch
to the ref, to the pull in progress and to the cache. For `BackoffSchedule` the
invariant says what `backoff` is after n failures; that it stays at the cap once
there holds since doubling does not fall, and `MaxFails`, the bound of the
counter, must not stop it before the cap (`BoundAssumption`).

**ControlPlaneProofs**, for any number of names, calls, draws and documents: `Inv`
is inductive, and from it follow `TypeOK`, `RowsAreWhole`, `SeenSinceRegistered`,
`HubKeepsEndpoint` and the action property `HeartbeatTouchesOwnRow`. `Inv` adds
to these what a call in flight carries: a row about to be written agrees with its
draw, and the ID a heartbeat authenticated with belongs to its token and to a
time not before the draw. Each is needed since the UPDATE runs on values read
steps before. `ReplyMatchesCommit` is inductive on top of `Inv`. The refinement
of `Registry`: `RegisterUpserts` is an `Enrol`, `HeartbeatUpdates` a `Beat` or a
stutter when its row is gone, a restart without the database the loss of all
names, and every other step a stutter. What makes the mapping work is in `Inv`: a
pending row is fresh, so the credential it stores was never used, and its
creation time is that of its draw. `SupersededTokenStaysDead` follows: a token
that was stored and is not in the table is spent, and only fresh ones are stored.

**AgentIdentityProofs**, for any number of hosts, names, commits and faults and
whatever files are lost: `TypeOK` and `TokenSpeaksForKey`. The invariant adds that
the key in memory is the key on disk while a process runs (`KeyOnDisk`): a token is
stored for the key in memory, and read again beside the key on disk. It also says
that a token the server accepts has a key beside it unless the host is `adrift`.

**DocumentProofs** is about the pure algorithms, for every document `Parse` can
return. A sorted list has exactly the elements of its set, in order, and a loop
that skips elements keeps the others in order. From this `CompiledAsMeant`: the
rules of `Compile` and `buildRules` decide every flow as `Policy` does, however
many hubs, agents, groups and rules there are. The second half follows a request
to the kernel peer by peer (`OneMoreConfigured`), whole or cut off.

**PeersProofs** proves `PeersAsDeclared`: whatever `PeersFor` returns without an
error has keys and prefixes of their own, and its prefixes give each address to
the peer `NextHop` says; then that `computeDiff` and `ApplyPeers` bring any device
there, and what a device looks like when the request stops at any place.

**FirewallProofs**, for all sets of documents: `TypeOK`, `OneJump`,
`EnforcedUntilRewritten` and `NeverOverblocks`. The invariant: the chain is a
prefix of the rules of the document it is written from, a proper one while the
loop appends, all of them once `whole` names it, behind one jump to a chain that
exists. `PrefixDrops` says that a prefix drops a flow only if the whole does,
since the first match decides; `CompiledAsMeant` gives what the whole does.

**AgentPeersProofs**, for all documents, registries and endpoints: `TypeOK`,
`DeviceAsDeclared` and `RoutesMoveDirectly`. The invariant adds that the cycle's
diff is the one between the device's present peers and the wanted ones, up to
endpoints, which the kernel may learn in between, and that the wanted peers are
those of the cycle's document and registry.

**OverlayProofs**, for any number of nodes and any pair of documents: `TypeOK`,
`EndsAreKnown`, `PolicyByName` and `SettledAsDeclared`. The invariant (`NodeOK`)
says of each node by itself that a running process was declared by the commit it
started with, that one of the node's `cycles` makes a peer of its device the next
hop for every address of a prefix it has (`DeviceOK`), and that rules of one
commit drop what this commit's ACL drops. `DeviceOK` is kept by a request that
succeeds (`WhollyServes`) and by one that fails at any place (`PartlyMade`), since
a request only adds prefixes that its cycle wants; a route is therefore the next
hop of one of the cycles (`RouteFrom`). `EndsAreKnown` then follows a packet through the first and the last hub;
nothing relates the commits of two nodes, so nothing can be assumed of them. For
`SettledAsDeclared`: the link of every node leads to the whole overlay and every
address is in it (`AddressOf`); traffic of a hub is always accepted, and between two spokes
a packet that arrives went through the source's hub, whose rules let it pass;
conversely a permitted packet has the way up to the source's hub, across to the
destination's and down, of two, three or four nodes depending on the roles and
the hubs of the two.

The assumptions are the named `ASSUME`s of the modules: distinct empty values,
positive delays and bounds, documents that parsed, a registry with one entry for
each name and a key of its own for each agent (`RepliesAssumption`: the first is
what `ReplyMatchesCommit` says, the second that agents generate their keys).

Induction over data is not available as a rule, since no prover can be given the
predicate. Where a fact about all prefixes of a list is needed (doubling, the
peers of a request, the nodes of a way), the proof takes the least place where it
fails and finds an earlier one, from the well-foundedness of the naturals.

Only model-checked: `FollowsTip`, `ShutdownCompletes`, `PolicyKeepsReturning`,
`RoutesConverge`, `SelfHeals` and `NamesakesTakeTurns`, which need fairness and
ENABLED.

## Not modelled

In `Overlay`, a start reads one commit: `Run` calls `Current` once for `FindSelf` and
again in `bringUp`, and a commit that arrives between the two, which would give the
old address with the new prefix length, is left out. Reverse path filtering is a
setting of the host; in a settled network it drops nothing, since a node sends to
the overlay through the link that overlay packets come from.

YAML and duration syntax, Git credentials, the link's MTU and port, `Status`,
IPv6, telemetry, logging, flags, generated protocol code and the stubs for other
systems. Shutdown of the server is a restart without waiting for calls, which
allows more than `GracefulStop`.
Two hosts with one private key (a copied state directory) are not distinguished
from one: nothing in the code tells them apart. What is left of the
implementation has no state that another part depends on.
