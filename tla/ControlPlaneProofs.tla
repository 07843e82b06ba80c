------------------------- MODULE ControlPlaneProofs -------------------------
(***************************************************************************)
(* TLAPS proofs about ControlPlane, for any number of concurrent calls,    *)
(* names, keys, commits, registrations and clock ticks.                    *)
(* The invariant comes first, then the refinement of Registry, then what   *)
(* Heartbeat tells an agent of its peers.                                  *)
(***************************************************************************)
EXTENDS ControlPlane, TLAPS

(* resolveRole has three answers. *)
LEMMA RoleFact ==
  ASSUME NEW d, NEW n
  PROVE  resolveRole(d, n) \in {"HUB", "SPOKE", "UNSPECIFIED"}
BY DEF resolveRole

(* validate.go requires an endpoint of every hub, so the fallback in       *)
(* Register always finds one.                                              *)
LEMMA HubEndpointFact ==
  ASSUME NEW c \in Commits, NEW n, resolveRole(DocAt[c], n) = "HUB"
  PROVE  FindHub(DocAt[c], n).endpoint # ""
<1>1. FindHub(DocAt[c], n) # NoHub
  BY DEF resolveRole
<1>2. FindHub(DocAt[c], n) \in Range(DocAt[c].hubs)
  BY <1>1, Zenon DEF FindHub
<1>3. \A h \in Range(DocAt[c].hubs) : h.endpoint # ""
  BY SpecAssumption, Zenon DEF Parsed, Validate, ValidateHubs
<1> QED
  BY <1>2, <1>3

(* The table may hold what an agent advertises and what the spec declares. *)
LEMMA EndpointsFact ==
  /\ \A ep \in Endpoints \cup {""} : ep \in TableEndpoints
  /\ \A c \in Commits, n \in Names : FindHub(DocAt[c], n).endpoint \in TableEndpoints
  /\ "" \in TableEndpoints
<1> DEFINE S == {FindHub(DocAt[c], n).endpoint : c \in Commits, n \in Names}
<1>1. TableEndpoints = Endpoints \cup {""} \cup S
  BY DEF TableEndpoints
<1>2. \A c \in Commits, n \in Names : FindHub(DocAt[c], n).endpoint \in S
  OBVIOUS
<1> HIDE DEF S
<1> QED
  BY <1>1, <1>2

(* What a Register call is about to persist is one draw, not yet in the    *)
(* table, together with what it was drawn for.                             *)
FreshRow(r) ==
  /\ r \in Row
  /\ r.id \in Drawn /\ r.id \notin spent
  /\ r.auth_token_hash = HashToken(r.id)
  /\ r.name = issued[r.id].name
  /\ r.public_key = issued[r.id].public_key
  /\ r.created_at = issued[r.id].at /\ r.last_seen_at = issued[r.id].at
  /\ issued[r.id].role = "HUB" => r.endpoint # ""

PendingRows == \A c \in Calls : call[c].step = "upsert" => FreshRow(call[c].row)

PendingApart ==
  \A c, e \in Calls : call[c].step = "upsert" /\ call[e].step = "upsert"
                        /\ call[c].row.id = call[e].row.id => c = e

(* What a Heartbeat call has read: the ID its token belongs to, and a time *)
(* not before the registration that drew them.                             *)
KnownCaller(h) ==
  /\ h.caller \in spent
  /\ h.token = h.caller
  /\ h.step \in {"update", "list"} =>
       h.commit \in Commits /\ h.at \in 1..MaxTime /\ h.at >= issued[h.caller].at

PendingBeats ==
  \A c \in Calls : call[c].step \in {"current", "update", "list"} => KnownCaller(call[c])

RowsSpent == \A n \in DOMAIN agents : agents[n].id \in spent

DrawnBefore == \A k \in Drawn : issued[k].at <= clock

(* The inductive invariant.  The pairing of IDs with tokens is what makes  *)
(* an UPDATE by ID as good as one by token; the freshness of pending rows  *)
(* keeps it when registrations for one name overlap.                       *)
Inv ==
  /\ TypeOK
  /\ RowsAreWhole /\ SeenSinceRegistered /\ HubKeepsEndpoint /\ RowsSpent
  /\ PendingRows /\ PendingApart /\ PendingBeats
  /\ DrawnBefore

-----------------------------------------------------------------------------
(* The ranges of an unset number. *)
LEMMA ZeroFact == 0 \in 0..MaxRegs /\ 0 \in 0..MaxTime
BY LimitAssumption

(* A goroutine between calls, and one that has replied, have their type.   *)
LEMMA IdleFact ==
  /\ Idle \in CallType /\ Idle.step = "idle"
  /\ \A code \in {"", "OK", "InvalidArgument", "Unauthenticated", "Unavailable",
                  "PermissionDenied", "Internal"} :
       Reply(code) \in CallType /\ Reply(code).step = "replied"
<1>2. Idle \in CallType
  BY ZeroFact DEF Idle, CallType
<1>3. Idle.step = "idle"
  BY DEF Idle
<1>4. ASSUME NEW code \in {"", "OK", "InvalidArgument", "Unauthenticated", "Unavailable",
                           "PermissionDenied", "Internal"}
      PROVE  Reply(code) \in CallType /\ Reply(code).step = "replied"
  BY <1>2, <1>4 DEF Reply, CallType
<1> QED
  BY <1>2, <1>3, <1>4

(* An ID in the table was drawn, and draws are bounded. *)
LEMMA DrawnFact ==
  ASSUME TypeOK
  PROVE  /\ Len(issued) \in Nat
         /\ \A k \in Drawn : k \in 1..MaxRegs /\ k \in 0..MaxRegs
         /\ \A k \in spent : k \in Drawn /\ k \in 0..MaxRegs
<1>1. Len(issued) \in Nat /\ Len(issued) <= MaxRegs /\ spent \subseteq Drawn
  BY DEF TypeOK
<1>2. \A k \in Drawn : k \in 1..MaxRegs /\ k \in 0..MaxRegs
  BY <1>1, LimitAssumption DEF Drawn
<1> QED
  BY <1>1, <1>2

(* What was recorded for a draw has its type. *)
LEMMA IssuedFact ==
  ASSUME TypeOK, NEW k \in Drawn
  PROVE  /\ issued[k].name \in Names /\ issued[k].public_key \in Keys
         /\ issued[k].at \in 1..MaxTime /\ issued[k].role \in {"HUB", "SPOKE"}
<1> DEFINE D == [name : Names, public_key : Keys, at : 1..MaxTime, role : {"HUB", "SPOKE"}]
<1>1. issued \in Seq(D) /\ k \in 1..Len(issued)
  BY DEF TypeOK, Drawn
<1>2. issued[k] \in D
  <2> HIDE DEF D
  <2> QED
    BY <1>1
<1> QED
  BY <1>2

(* The initial state satisfies the invariant. *)
LEMMA InitInv == Init => Inv
<1> SUFFICES ASSUME Init PROVE Inv
  OBVIOUS
<1>1. DOMAIN agents = {} /\ agents \in [DOMAIN agents -> Row]
  BY DEF Init, EmptyTable
<1>2. TypeOK
  <2>1. call \in [Calls -> CallType]
    BY IdleFact DEF Init
  <2>2. clock \in 1..MaxTime /\ spent \subseteq Drawn /\ spec \in Commits \cup {NoCommit}
    BY LimitAssumption DEF Init
  <2>3. issued \in Seq([name : Names, public_key : Keys, at : 1..MaxTime, role : {"HUB", "SPOKE"}])
    BY DEF Init
  <2>4. Len(issued) <= MaxRegs
    BY LimitAssumption DEF Init
  <2> QED
    BY <1>1, <2>1, <2>2, <2>3, <2>4, Zenon DEF TypeOK
<1>3. \A c \in Calls : call[c].step = "idle"
  BY IdleFact DEF Init
<1>4. Drawn = {}
  BY DEF Init, Drawn
<1> QED
  BY <1>1, <1>2, <1>3, <1>4 DEF Inv, RowsAreWhole, SeenSinceRegistered, HubKeepsEndpoint,
     RowsSpent, PendingRows, PendingApart, PendingBeats, DrawnBefore

(* The table and its history are left alone. *)
SameTable == UNCHANGED <<agents, issued, spent>>

(* Then what is known of rows, of pending rows and of callers stays true.  *)
LEMMA SameTableFact ==
  ASSUME Inv, SameTable
  PROVE  /\ RowsAreWhole' /\ SeenSinceRegistered' /\ HubKeepsEndpoint' /\ RowsSpent'
         /\ \A r : FreshRow(r) => FreshRow(r)'
         /\ \A h : KnownCaller(h) => KnownCaller(h)'
BY Zenon DEF SameTable, Inv, RowsAreWhole, SeenSinceRegistered, HubKeepsEndpoint, RowsSpent,
   FreshRow, KnownCaller, Drawn

(* A goroutine moves on without touching the table, to anything but a      *)
(* pending upsert.                                                         *)
LEMMA CallStep ==
  ASSUME Inv, NEW c \in Calls, NEW r \in CallType,
         r.step # "upsert",
         r.step \in {"current", "update", "list"} => KnownCaller(r),
         call' = [call EXCEPT ![c] = r],
         UNCHANGED <<agents, spec, clock, issued, spent>>
  PROVE  Inv'
<1>1. TypeOK'
  <2>1. call' \in [Calls -> CallType]
    BY DEF Inv, TypeOK
  <2> QED
    BY <2>1, Zenon DEF Inv, TypeOK, Drawn
<1>2. SameTable
  BY DEF SameTable
<1>3. \A e \in Calls : call'[e] = IF e = c THEN r ELSE call[e]
  BY DEF Inv, TypeOK
<1>4. PendingRows'
  BY <1>2, <1>3, SameTableFact, Zenon DEF PendingRows, Inv
<1>5. PendingApart'
  <2>1. \A e \in Calls : call'[e].step = "upsert" => call'[e] = call[e]
    BY <1>3
  <2>2. ASSUME NEW e \in Calls, NEW f \in Calls,
               call'[e].step = "upsert", call'[f].step = "upsert",
               call'[e].row.id = call'[f].row.id
        PROVE  e = f
    <3>1. call'[e] = call[e] /\ call'[f] = call[f]
      BY <2>1, <2>2, Zenon
    <3> QED
      BY <2>2, <3>1, Zenon DEF PendingApart, Inv
  <2> QED
    BY <2>2, Zenon DEF PendingApart
<1>6. PendingBeats'
  BY <1>2, <1>3, SameTableFact, Zenon DEF PendingBeats, Inv
<1>7. DrawnBefore'
  BY Zenon DEF DrawnBefore, Drawn, Inv
<1> QED
  BY <1>1, <1>2, <1>4, <1>5, <1>6, <1>7, SameTableFact, Zenon DEF Inv

(* Rejections, failures and the return of a reply. *)
LEMMA ReplyInv ==
  ASSUME Inv, NEW c \in Calls,
         \/ \E req \in Requests : RegisterRejected(c, req)
         \/ \E md \in Metadata : AuthRejected(c, md)
         \/ Fails(c) \/ Return(c)
  PROVE  Inv'
<1>1. ASSUME NEW r \in CallType, r.step \in {"idle", "replied"},
             call' = [call EXCEPT ![c] = r],
             UNCHANGED <<agents, spec, clock, issued, spent>>
      PROVE  Inv'
  <2>1. r.step # "upsert" /\ ~(r.step \in {"current", "update", "list"})
    BY <1>1
  <2> QED
    BY <1>1, <2>1, CallStep
<1>2. ASSUME NEW req \in Requests, RegisterRejected(c, req)
      PROVE  Inv'
  <2>1. RegisterCode(req) \in {"OK", "InvalidArgument", "Unauthenticated", "Unavailable",
                               "PermissionDenied"}
    BY DEF RegisterCode
  <2>2. Reply(RegisterCode(req)) \in CallType /\ Reply(RegisterCode(req)).step = "replied"
    BY <2>1, IdleFact
  <2> QED
    BY <1>1, <1>2, <2>2 DEF RegisterRejected
<1>3. ASSUME NEW md \in Metadata, AuthRejected(c, md)
      PROVE  Inv'
  BY <1>1, <1>3, IdleFact DEF AuthRejected
<1>4. ASSUME Fails(c)
      PROVE  Inv'
  BY <1>1, <1>4, IdleFact DEF Fails
<1>5. ASSUME Return(c)
      PROVE  Inv'
  BY <1>1, <1>5, IdleFact DEF Return
<1> QED
  BY <1>2, <1>3, <1>4, <1>5

(* AuthInterceptor hands on the ID of the row the token opens. *)
LEMMA AuthAcceptedInv ==
  ASSUME Inv, NEW c \in Calls, NEW md \in Metadata, NEW ep \in Endpoints \cup {""},
         AuthAccepted(c, md, ep)
  PROVE  Inv'
<1>1. PICK tok \in tokenFromMetadata(md) :
        \E a \in AuthenticateByTokenHash(agents, HashToken(tok)) :
          call' = [call EXCEPT ![c] = Authenticated(a.id, tok, ep)]
  BY DEF AuthAccepted
<1>2. PICK a \in AuthenticateByTokenHash(agents, HashToken(tok)) :
        call' = [call EXCEPT ![c] = Authenticated(a.id, tok, ep)]
  BY <1>1
<1>3. PICK n \in DOMAIN agents : agents[n] = a /\ agents[n].auth_token_hash = HashToken(tok)
  BY <1>2, Zenon DEF AuthenticateByTokenHash
<1>4. a.id \in spent /\ HashToken(a.id) = HashToken(tok)
  BY <1>3, Zenon DEF Inv, RowsAreWhole, RowsSpent
<1>5. a.id = tok
  BY <1>4 DEF HashToken
<1>6. tok \in spent /\ tok \in 0..MaxRegs /\ call' = [call EXCEPT ![c] = Authenticated(tok, tok, ep)]
  BY <1>2, <1>4, <1>5, DrawnFact, Zenon DEF Inv
<1> DEFINE r == Authenticated(tok, tok, ep)
<1>7. r \in CallType /\ r.step = "current" /\ r.caller = tok /\ r.token = tok
  <2>1. 0 \in 0..MaxTime
    BY ZeroFact, Zenon
  <2>2. r \in CallType
    BY <1>6, <2>1 DEF Authenticated, CallType
  <2> QED
    BY <2>2 DEF Authenticated
<1> HIDE DEF r
<1>8. KnownCaller(r)
  BY <1>6, <1>7 DEF KnownCaller
<1>9. UNCHANGED <<agents, spec, clock, issued, spent>>
  BY DEF AuthAccepted
<1>10. call' = [call EXCEPT ![c] = r]
  BY <1>6 DEF r
<1> QED
  BY <1>7, <1>8, <1>9, <1>10, CallStep

(* Heartbeat reads the spec and the clock: the clock is not behind the     *)
(* registration of its caller.                                             *)
LEMMA ReadsSpecInv ==
  ASSUME Inv, NEW c \in Calls, HeartbeatReadsSpec(c)
  PROVE  Inv'
<1>1. CASE spec = NoCommit
  BY <1>1, IdleFact, CallStep DEF HeartbeatReadsSpec
<1>2. CASE spec # NoCommit
  <2> DEFINE r == [call[c] EXCEPT !.step = "update", !.commit = spec, !.at = clock]
  <2>1. call[c] \in CallType /\ spec \in Commits /\ clock \in 1..MaxTime
    BY <1>2 DEF Inv, TypeOK
  <2>2. clock \in 0..MaxTime
    BY <2>1
  <2>3. r \in CallType /\ r.step = "update" /\ r.commit = spec /\ r.at = clock
          /\ r.caller = call[c].caller /\ r.token = call[c].token
    BY <2>1, <2>2 DEF CallType
  <2> HIDE DEF r
  <2>4. call[c].caller \in spent /\ call[c].token = call[c].caller
    BY Zenon DEF HeartbeatReadsSpec, Inv, PendingBeats, KnownCaller
  <2>5. clock >= issued[call[c].caller].at
    <3>1. call[c].caller \in Drawn
      BY <2>4, DrawnFact, Zenon DEF Inv
    <3>2. issued[call[c].caller].at <= clock
      BY <3>1, Zenon DEF Inv, DrawnBefore
    <3> QED
      BY <3>2
  <2>6. KnownCaller(r)
    BY <2>1, <2>3, <2>4, <2>5, Zenon DEF KnownCaller
  <2>7. call' = [call EXCEPT ![c] = r] /\ UNCHANGED <<agents, spec, clock, issued, spent>>
    BY <1>2 DEF HeartbeatReadsSpec, r
  <2> QED
    BY <2>3, <2>6, <2>7, CallStep
<1> QED
  BY <1>1, <1>2

(* The entries of a reply have their type: rows whose name the commit does *)
(* not declare are filtered out before a tunnel IP is looked up for them.  *)
LEMMA ReplyPeers ==
  ASSUME NEW h \in CallType, h.commit \in Commits, NEW a \in Row,
         resolveRole(DocAt[h.commit], a.name) # "UNSPECIFIED"
  PROVE  PeerInfo(h, a) \in PeerInfos
<1>1. resolveRole(DocAt[h.commit], a.name) \in {"HUB", "SPOKE"}
  BY RoleFact
<1>2. a.name \in Names /\ a.public_key \in Keys /\ a.endpoint \in TableEndpoints
        /\ a.last_seen_at \in 1..MaxTime
  BY DEF Row
<1>3. h.endpoint \in TableEndpoints
  <2>1. h.endpoint \in Endpoints \/ h.endpoint = ""
    BY DEF CallType
  <2> QED
    BY <2>1, EndpointsFact, Zenon
<1>4. tunnelIPFor(DocAt[h.commit], a.name) \in TunnelIPs
  BY <1>2 DEF TunnelIPs
<1>5. (IF a.id = h.caller /\ h.endpoint # "" THEN h.endpoint ELSE a.endpoint) \in TableEndpoints
  BY <1>2, <1>3, Zenon
<1> QED
  BY <1>1, <1>2, <1>4, <1>5 DEF PeerInfo, PeerInfos

(* Heartbeat's last read. *)
LEMMA ListsInv ==
  ASSUME Inv, NEW c \in Calls, HeartbeatLists(c)
  PROVE  Inv'
<1> DEFINE h == call[c]
           peers == HeartbeatReply(h, ListAgents(agents))
           r == [Reply("OK") EXCEPT !.commit = h.commit, !.peers = peers]
<1>1. h \in CallType /\ h.commit \in Commits
  BY DEF HeartbeatLists, Inv, TypeOK, PendingBeats, KnownCaller
<1>2. ListAgents(agents) \subseteq Row
  BY DEF Inv, TypeOK, ListAgents
<1>3. peers \subseteq PeerInfos
  <2>1. ASSUME NEW a \in ListAgents(agents), resolveRole(DocAt[h.commit], a.name) # "UNSPECIFIED"
        PROVE  PeerInfo(h, a) \in PeerInfos
    BY <1>1, <1>2, <2>1, ReplyPeers
  <2> QED
    BY <2>1, Zenon DEF HeartbeatReply
<1>4. Reply("OK") \in CallType /\ Reply("OK").step = "replied"
  BY IdleFact
<1>5. call' = [call EXCEPT ![c] = r] /\ UNCHANGED <<agents, spec, clock, issued, spent>>
  BY DEF HeartbeatLists
<1> HIDE DEF h, peers
<1>6. r \in CallType /\ r.step = "replied"
  BY <1>1, <1>3, <1>4 DEF CallType
<1> HIDE DEF r
<1> QED
  BY <1>5, <1>6, CallStep

(* The watcher swaps the spec; no call or row is affected. *)
LEMMA SpecChangesInv ==
  ASSUME Inv, NEW c \in Commits, SpecChanges(c)
  PROVE  Inv'
<1>1. SameTable /\ call' = call /\ clock' = clock
  BY DEF SpecChanges, SameTable
<1>2. TypeOK'
  BY <1>1, Zenon DEF SpecChanges, Inv, TypeOK, Drawn, SameTable
<1>3. PendingRows' /\ PendingApart' /\ PendingBeats'
  BY <1>1, SameTableFact, Zenon DEF PendingRows, PendingApart, PendingBeats, Inv
<1>4. DrawnBefore'
  BY <1>1, Zenon DEF DrawnBefore, Drawn, Inv, SameTable
<1> QED
  BY <1>1, <1>2, <1>3, <1>4, SameTableFact, Zenon DEF Inv

(* Time passes. *)
LEMMA ClockTickInv ==
  ASSUME Inv, ClockTick
  PROVE  Inv'
<1>1. SameTable /\ call' = call
  BY DEF ClockTick, SameTable
<1>2. clock' \in 1..MaxTime /\ clock <= clock'
  BY LimitAssumption DEF ClockTick, Inv, TypeOK
<1>3. TypeOK'
  BY <1>1, <1>2, Zenon DEF ClockTick, Inv, TypeOK, Drawn, SameTable
<1>4. PendingRows' /\ PendingApart' /\ PendingBeats'
  BY <1>1, SameTableFact, Zenon DEF PendingRows, PendingApart, PendingBeats, Inv
<1>5. DrawnBefore'
  <2>1. ASSUME NEW k \in Drawn
        PROVE  issued[k].at <= clock'
    <3>1. issued[k].at \in 1..MaxTime /\ issued[k].at <= clock /\ clock \in 1..MaxTime
      BY IssuedFact DEF Inv, TypeOK, DrawnBefore
    <3> QED
      BY <1>2, <3>1, LimitAssumption
  <2> QED
    BY <1>1, <2>1, Zenon DEF DrawnBefore, Drawn, SameTable
<1> QED
  BY <1>1, <1>3, <1>4, <1>5, SameTableFact, Zenon DEF Inv

(* A restart, with or without the database file. *)
LEMMA RestartInv ==
  ASSUME Inv, NEW wiped \in BOOLEAN, ServerRestart(wiped)
  PROVE  Inv'
<1>1. \A c \in Calls : call'[c].step = "idle"
  BY IdleFact DEF ServerRestart
<1>2. agents' = agents \/ agents' = EmptyTable
  BY DEF ServerRestart
<1>3. DOMAIN EmptyTable = {} /\ EmptyTable \in [DOMAIN EmptyTable -> Row]
  BY DEF EmptyTable
<1>4. issued' = issued /\ spent' = spent /\ clock' = clock /\ spec' = NoCommit
  BY DEF ServerRestart
<1>5. TypeOK'
  <2>1. call' \in [Calls -> CallType]
    BY IdleFact DEF ServerRestart
  <2>2. DOMAIN agents' \subseteq Names /\ agents' \in [DOMAIN agents' -> Row]
    BY <1>2, <1>3 DEF Inv, TypeOK
  <2> QED
    BY <1>4, <2>1, <2>2, Zenon DEF Inv, TypeOK, Drawn
<1>6. RowsAreWhole' /\ SeenSinceRegistered' /\ HubKeepsEndpoint' /\ RowsSpent'
  <2>1. CASE agents' = agents
    BY <2>1, <1>4, SameTableFact DEF SameTable
  <2>2. CASE agents' = EmptyTable
    BY <2>2, <1>3, Zenon DEF RowsAreWhole, SeenSinceRegistered, HubKeepsEndpoint, RowsSpent
  <2> QED
    BY <1>2, <2>1, <2>2
<1>7. PendingRows' /\ PendingApart' /\ PendingBeats'
  BY <1>1 DEF PendingRows, PendingApart, PendingBeats
<1>8. DrawnBefore'
  BY <1>4, Zenon DEF DrawnBefore, Drawn, Inv
<1> QED
  BY <1>5, <1>6, <1>7, <1>8, Zenon DEF Inv

-----------------------------------------------------------------------------
(* A draw is added to the history; earlier ones keep their place. *)
LEMMA DrawFact ==
  ASSUME TypeOK,
         NEW e \in [name : Names, public_key : Keys, at : 1..MaxTime, role : {"HUB", "SPOKE"}],
         Len(issued) + 1 <= MaxRegs,
         issued' = Append(issued, e)
  PROVE  /\ issued' \in Seq([name : Names, public_key : Keys, at : 1..MaxTime,
                             role : {"HUB", "SPOKE"}])
         /\ Len(issued') = Len(issued) + 1 /\ Len(issued') <= MaxRegs
         /\ Len(issued) + 1 \in Drawn' /\ issued'[Len(issued) + 1] = e
         /\ Len(issued) + 1 \in 1..MaxRegs /\ Len(issued) + 1 \notin Drawn
         /\ \A k \in Drawn : k \in Drawn' /\ issued'[k] = issued[k]
         /\ \A k \in Drawn' : k \in Drawn \/ k = Len(issued) + 1
<1> DEFINE D == [name : Names, public_key : Keys, at : 1..MaxTime, role : {"HUB", "SPOKE"}]
<1>1. issued \in Seq(D) /\ e \in D
  BY DEF TypeOK
<1> HIDE DEF D
<1>2. issued' \in Seq(D) /\ Len(issued') = Len(issued) + 1 /\ Len(issued) \in Nat
  BY <1>1
<1>3. /\ \A k \in 1..Len(issued) : issued'[k] = issued[k]
      /\ issued'[Len(issued) + 1] = e
  BY <1>1
<1>4. /\ Len(issued) + 1 \in Drawn' /\ Len(issued) + 1 \notin Drawn
      /\ Len(issued) + 1 \in 1..MaxRegs
      /\ \A k \in Drawn : k \in Drawn'
      /\ \A k \in Drawn' : k \in Drawn \/ k = Len(issued) + 1
  BY <1>2, LimitAssumption DEF Drawn
<1>5. \A k \in Drawn : issued'[k] = issued[k]
  BY <1>3, Zenon DEF Drawn
<1>6. issued' \in Seq([name : Names, public_key : Keys, at : 1..MaxTime, role : {"HUB", "SPOKE"}])
  BY <1>2 DEF D
<1>7. Len(issued') <= MaxRegs
  BY <1>2
<1> QED
  BY <1>2, <1>3, <1>4, <1>5, <1>6, <1>7, Zenon

(* Register draws an ID and a token and prepares its row: the row is fresh *)
(* and differs from every other pending one.                               *)
LEMMA PreparedInv ==
  ASSUME Inv, NEW c \in Calls, NEW req \in Requests, RegisterPrepared(c, req)
  PROVE  Inv'
<1> DEFINE k == Len(issued) + 1
           e == [name |-> req.name, public_key |-> req.public_key, at |-> clock,
                 role |-> resolveRole(DocAt[spec], req.name)]
           w == [id |-> k, name |-> req.name, public_key |-> req.public_key,
                 endpoint |-> RegisterEndpoint(req), auth_token_hash |-> HashToken(k),
                 created_at |-> clock, last_seen_at |-> clock]
           r == [Idle EXCEPT !.step = "upsert", !.row = w]
<1>1. /\ issued' = Append(issued, e) /\ call' = [call EXCEPT ![c] = r]
      /\ UNCHANGED <<agents, spec, clock, spent>> /\ k <= MaxRegs /\ RegisterCode(req) = "OK"
  BY DEF RegisterPrepared
<1>2. spec \in Commits /\ clock \in 1..MaxTime
  BY <1>1 DEF RegisterCode, Inv, TypeOK
<1>3. req.name \in Names /\ req.public_key \in Keys /\ req.endpoint \in Endpoints \cup {""}
        /\ resolveRole(DocAt[spec], req.name) \in {"HUB", "SPOKE"}
  <2>1. req.name # "" /\ req.public_key # ""
          /\ resolveRole(DocAt[spec], req.name) # "UNSPECIFIED"
    BY <1>1, <1>2, Zenon DEF RegisterCode
  <2>2. req.name \in Names \cup {""} /\ req.public_key \in Keys \cup {""}
          /\ req.endpoint \in Endpoints \cup {""}
    BY DEF Requests
  <2> QED
    BY <2>1, <2>2, RoleFact
<1>4. e \in [name : Names, public_key : Keys, at : 1..MaxTime, role : {"HUB", "SPOKE"}]
  BY <1>2, <1>3
<1>5. RegisterEndpoint(req) \in TableEndpoints
  BY <1>2, <1>3, EndpointsFact, Zenon DEF RegisterEndpoint
<1>6. resolveRole(DocAt[spec], req.name) = "HUB" => RegisterEndpoint(req) # ""
  BY <1>2, HubEndpointFact, Zenon DEF RegisterEndpoint
<1> HIDE DEF e
<1>7. /\ issued' \in Seq([name : Names, public_key : Keys, at : 1..MaxTime, role : {"HUB", "SPOKE"}])
      /\ Len(issued') <= MaxRegs
      /\ k \in Drawn' /\ issued'[k] = e /\ k \in 1..MaxRegs /\ k \notin Drawn
      /\ \A j \in Drawn : j \in Drawn' /\ issued'[j] = issued[j]
      /\ \A j \in Drawn' : j \in Drawn \/ j = k
  BY <1>1, <1>4, DrawFact, Zenon DEF Inv
<1> HIDE DEF k
<1>8. w \in Row
  BY <1>2, <1>3, <1>5, <1>7 DEF Row
<1>9. k \notin spent
  BY <1>7 DEF Inv, TypeOK
<1>10. w.id = k /\ w.name = e.name /\ w.public_key = e.public_key
        /\ w.created_at = e.at /\ w.last_seen_at = e.at
        /\ w.auth_token_hash = HashToken(k) /\ (e.role = "HUB" => w.endpoint # "")
  BY <1>6 DEF e
<1>11. r \in CallType /\ r.step = "upsert" /\ r.row = w
  <2> HIDE DEF w
  <2> QED
    BY <1>8, ZeroFact DEF Idle, CallType
<1> HIDE DEF w, r
<1>12. PICK v : v = w
  OBVIOUS
<1>13. FreshRow(v)'
  BY <1>1, <1>7, <1>8, <1>9, <1>10, <1>12, Zenon DEF FreshRow
<1>14. r \in CallType /\ r.step = "upsert" /\ r.row = v /\ v.id = k
  BY <1>10, <1>11, <1>12
<1>15. TypeOK'
  <2>1. call' \in [Calls -> CallType]
    BY <1>1, <1>14 DEF Inv, TypeOK
  <2>2. spent' \subseteq Drawn'
    BY <1>1, <1>7, Zenon DEF Inv, TypeOK
  <2> QED
    BY <1>1, <1>7, <2>1, <2>2, Zenon DEF Inv, TypeOK
<1>16. \A a \in DOMAIN agents : agents[a].id \in Drawn
  BY Zenon DEF Inv, RowsAreWhole
<1>17. RowsAreWhole' /\ SeenSinceRegistered' /\ HubKeepsEndpoint' /\ RowsSpent'
  <2>1. \A a \in DOMAIN agents : issued'[agents[a].id] = issued[agents[a].id]
                                  /\ agents[a].id \in Drawn'
    BY <1>7, <1>16, Zenon
  <2>2. RowsAreWhole'
    <3>1. agents' = agents /\ RowsAreWhole
      BY <1>1, Zenon DEF Inv
    <3> SUFFICES ASSUME NEW a \in DOMAIN agents
                 PROVE  /\ agents[a].id \in Drawn'
                        /\ agents[a].auth_token_hash = HashToken(agents[a].id)
                        /\ agents[a].name = a /\ issued'[agents[a].id].name = a
                        /\ agents[a].public_key = issued'[agents[a].id].public_key
      BY <3>1, Zenon DEF RowsAreWhole
    <3>2. /\ agents[a].auth_token_hash = HashToken(agents[a].id)
          /\ agents[a].name = a /\ issued[agents[a].id].name = a
          /\ agents[a].public_key = issued[agents[a].id].public_key
      BY <3>1, Zenon DEF RowsAreWhole
    <3> QED
      BY <2>1, <3>2, Zenon
  <2>3. SeenSinceRegistered'
    BY <1>1, <2>1, Zenon DEF Inv, SeenSinceRegistered
  <2>4. HubKeepsEndpoint'
    BY <1>1, <2>1, Zenon DEF Inv, HubKeepsEndpoint
  <2>5. RowsSpent'
    BY <1>1, <2>1, Zenon DEF Inv, RowsSpent
  <2> QED
    BY <2>2, <2>3, <2>4, <2>5, Zenon
<1>18. \A x \in Calls : call'[x] = IF x = c THEN r ELSE call[x]
  BY <1>1 DEF Inv, TypeOK
<1>19. \A x : FreshRow(x) => FreshRow(x)'
  BY <1>1, <1>7, Zenon DEF FreshRow
<1>20. PendingRows'
  BY <1>13, <1>14, <1>18, <1>19, Zenon DEF PendingRows, Inv
<1>21. PendingApart'
  <2>1. \A x \in Calls : call[x].step = "upsert" => call[x].row.id # k
    BY <1>7, Zenon DEF Inv, PendingRows, FreshRow
  <2> QED
    BY <1>14, <1>18, <2>1 DEF PendingApart, Inv
<1>22. PendingBeats'
  <2>1. \A h : KnownCaller(h) => KnownCaller(h)'
    <3>1. \A j \in spent : j \in Drawn
      BY DrawnFact, Zenon DEF Inv
    <3> QED
      BY <1>1, <1>7, <3>1, Zenon DEF KnownCaller
  <2> QED
    BY <1>14, <1>18, <2>1 DEF PendingBeats, Inv
<1>23. DrawnBefore'
  <2>1. e.at <= clock
    BY <1>2 DEF e
  <2> QED
    BY <1>1, <1>7, <2>1, Zenon DEF DrawnBefore, Inv
<1> QED
  BY <1>15, <1>17, <1>20, <1>21, <1>22, <1>23, Zenon DEF Inv

(* The upsert puts a fresh row in place of any row its name had. *)
LEMMA UpsertsInv ==
  ASSUME Inv, NEW c \in Calls, RegisterUpserts(c)
  PROVE  Inv'
<1>1. PICK v : v = call[c].row
  OBVIOUS
<1>2. /\ agents' = UpsertAgent(agents, v) /\ spent' = spent \cup {v.id}
      /\ call' = [call EXCEPT ![c] = Reply("OK")]
      /\ UNCHANGED <<spec, clock, issued>> /\ call[c].step = "upsert"
  BY <1>1 DEF RegisterUpserts
<1>3. FreshRow(v)
  BY <1>1, <1>2, Zenon DEF Inv, PendingRows
<1>4. /\ v \in Row /\ v.id \in Drawn /\ v.auth_token_hash = HashToken(v.id)
      /\ v.name = issued[v.id].name /\ v.public_key = issued[v.id].public_key
      /\ v.last_seen_at = issued[v.id].at
      /\ (issued[v.id].role = "HUB" => v.endpoint # "")
  BY <1>3, Zenon DEF FreshRow
<1>5. v.name \in Names /\ v.last_seen_at \in 1..MaxTime /\ v.created_at \in 1..MaxTime
  BY <1>4 DEF Row
<1>6. PICK u \in Row : /\ agents'[v.name] = u
                       /\ u.id = v.id /\ u.name = v.name /\ u.public_key = v.public_key
                       /\ u.endpoint = v.endpoint /\ u.auth_token_hash = v.auth_token_hash
                       /\ u.last_seen_at = v.last_seen_at
  <2> DEFINE t == IF v.name \in DOMAIN agents THEN agents[v.name].created_at ELSE v.created_at
             u == [v EXCEPT !.created_at = t]
  <2>1. t \in 1..MaxTime
    BY <1>5 DEF Inv, TypeOK, Row
  <2>2. agents'[v.name] = u
    BY <1>2 DEF UpsertAgent
  <2> HIDE DEF t
  <2>3. /\ u \in Row
        /\ u.id = v.id /\ u.name = v.name /\ u.public_key = v.public_key
        /\ u.endpoint = v.endpoint /\ u.auth_token_hash = v.auth_token_hash
        /\ u.last_seen_at = v.last_seen_at
    BY <1>4, <2>1 DEF Row
  <2> HIDE DEF u
  <2> QED
    BY <2>2, <2>3, Zenon
<1>7. /\ DOMAIN agents' = DOMAIN agents \cup {v.name}
      /\ \A n \in DOMAIN agents' : n # v.name => n \in DOMAIN agents /\ agents'[n] = agents[n]
  BY <1>2 DEF UpsertAgent
<1>8. agents' \in [DOMAIN agents' -> Row]
  <2>1. \A n \in DOMAIN agents' : agents'[n] \in Row
    BY <1>6, <1>7, Zenon DEF Inv, TypeOK
  <2>2. agents' = [n \in DOMAIN agents' |-> agents'[n]]
    BY <1>2 DEF UpsertAgent
  <2> QED
    BY <2>1, <2>2, Zenon
<1>9. TypeOK'
  <2>1. call' \in [Calls -> CallType]
    BY <1>2, IdleFact DEF Inv, TypeOK
  <2>2. spent' \subseteq Drawn' /\ Drawn' = Drawn
    BY <1>2, <1>4 DEF Inv, TypeOK, Drawn
  <2>3. DOMAIN agents' \subseteq Names
    BY <1>5, <1>7 DEF Inv, TypeOK
  <2> QED
    BY <1>2, <1>8, <2>1, <2>2, <2>3, Zenon DEF Inv, TypeOK
<1>10. RowsAreWhole'
  <2>1. Drawn' = Drawn /\ issued' = issued
    BY <1>2, Zenon DEF Drawn
  <2>2. ASSUME NEW n \in DOMAIN agents'
        PROVE  LET k == agents'[n].id
               IN  /\ k \in Drawn
                   /\ agents'[n].auth_token_hash = HashToken(k)
                   /\ agents'[n].name = n /\ issued[k].name = n
                   /\ agents'[n].public_key = issued[k].public_key
    <3>1. CASE n = v.name
      BY <3>1, <1>4, <1>6, Zenon
    <3>2. CASE n # v.name
      BY <3>2, <1>7, Zenon DEF Inv, RowsAreWhole
    <3> QED
      BY <3>1, <3>2
  <2> QED
    BY <2>1, <2>2, Zenon DEF RowsAreWhole
<1>11. SeenSinceRegistered'
  <2>1. \A t \in 1..MaxTime : t >= t
    OBVIOUS
  <2>2. u.last_seen_at >= issued[u.id].at
    BY <1>4, <1>5, <1>6, <2>1, Zenon
  <2> QED
    BY <1>2, <1>6, <1>7, <2>2, Zenon DEF Inv, SeenSinceRegistered
<1>12. HubKeepsEndpoint'
  <2>1. issued' = issued
    BY <1>2
  <2>2. ASSUME NEW n \in DOMAIN agents', issued[agents'[n].id].role = "HUB"
        PROVE  agents'[n].endpoint # ""
    <3>1. CASE n = v.name
      BY <3>1, <2>2, <1>4, <1>6, Zenon
    <3>2. CASE n # v.name
      BY <3>2, <2>2, <1>7, Zenon DEF Inv, HubKeepsEndpoint
    <3> QED
      BY <3>1, <3>2
  <2> QED
    BY <2>1, <2>2, Zenon DEF HubKeepsEndpoint
<1>13. RowsSpent'
  BY <1>2, <1>6, <1>7, Zenon DEF Inv, RowsSpent
<1>14. \A x \in Calls : call'[x] = IF x = c THEN Reply("OK") ELSE call[x]
  BY <1>2 DEF Inv, TypeOK
<1>15. \A x \in Calls : call'[x].step = "upsert" => x # c /\ call'[x] = call[x]
  BY <1>14, IdleFact
<1>16. PendingRows'
  <2>1. ASSUME NEW x \in Calls, call'[x].step = "upsert"
        PROVE  FreshRow(call'[x].row) /\ call'[x].row.id # v.id
    BY <1>1, <1>2, <1>15, <2>1, Zenon DEF Inv, PendingRows, PendingApart
  <2>2. \A w : FreshRow(w) /\ w.id # v.id => FreshRow(w)'
    BY <1>2, Zenon DEF FreshRow, Drawn
  <2> QED
    BY <2>1, <2>2, Zenon DEF PendingRows
<1>17. PendingApart'
  BY <1>15, Zenon DEF Inv, PendingApart
<1>18. PendingBeats'
  <2>1. \A h : KnownCaller(h) => KnownCaller(h)'
    BY <1>2, Zenon DEF KnownCaller
  <2>2. ~(Reply("OK").step \in {"current", "update", "list"})
    BY IdleFact
  <2> QED
    BY <1>14, <2>1, <2>2, Zenon DEF PendingBeats, Inv
<1>19. DrawnBefore'
  BY <1>2, Zenon DEF Inv, DrawnBefore, Drawn
<1> QED
  BY <1>9, <1>10, <1>11, <1>12, <1>13, <1>16, <1>17, <1>18, <1>19, Zenon DEF Inv

(* The heartbeat's UPDATE finds the row by ID; endpoint and last_seen_at   *)
(* are all it changes, the time to one not before the registration.        *)
LEMMA UpdateFact ==
  ASSUME Inv, NEW c \in Calls, HeartbeatUpdates(c), NEW n \in DOMAIN agents'
  PROVE  /\ n \in DOMAIN agents /\ agents'[n] \in Row
         /\ agents'[n].id = agents[n].id /\ agents'[n].name = agents[n].name
         /\ agents'[n].public_key = agents[n].public_key
         /\ agents'[n].auth_token_hash = agents[n].auth_token_hash
         /\ agents[n].endpoint # "" => agents'[n].endpoint # ""
         /\ \/ agents'[n] = agents[n]
            \/ /\ agents[n].id = call[c].caller
               /\ agents'[n].last_seen_at = call[c].at
<1> DEFINE h == call[c]
           a == agents[n]
           ep == IF h.endpoint = "" THEN a.endpoint ELSE h.endpoint
           b == [a EXCEPT !.endpoint = ep, !.last_seen_at = h.at]
<1>1. agents' = UpdateHeartbeat(agents, h.caller, h.endpoint, h.at) /\ h.step = "update"
  BY DEF HeartbeatUpdates
<1>2. n \in DOMAIN agents /\ agents'[n] = IF a.id # h.caller THEN a ELSE b
  BY <1>1 DEF UpdateHeartbeat
<1>3. a \in Row
  BY <1>2 DEF Inv, TypeOK
<1>4. h.at \in 1..MaxTime
  BY <1>1, Zenon DEF Inv, PendingBeats, KnownCaller
<1>5. h \in CallType
  BY DEF Inv, TypeOK
<1>6. a.endpoint \in TableEndpoints /\ h.endpoint \in Endpoints \cup {""}
  BY <1>3, <1>5 DEF Row, CallType
<1>7. ep \in TableEndpoints /\ (a.endpoint # "" => ep # "")
  BY <1>6, EndpointsFact, Zenon
<1> HIDE DEF ep, a, h
<1>8. /\ b \in Row /\ b.id = a.id /\ b.name = a.name /\ b.public_key = a.public_key
      /\ b.auth_token_hash = a.auth_token_hash /\ b.endpoint = ep /\ b.last_seen_at = h.at
  BY <1>3, <1>4, <1>7 DEF Row
<1> HIDE DEF b
<1>9. CASE a.id # h.caller
  BY <1>2, <1>3, <1>9, Zenon DEF a
<1>10. CASE a.id = h.caller
  <2>1. agents'[n] = b
    BY <1>2, <1>10, Zenon
  <2> QED
    BY <1>2, <1>7, <1>8, <1>10, <2>1 DEF a, h
<1> QED
  BY <1>9, <1>10

(* The UPDATE keeps the invariant. *)
LEMMA UpdatesInv ==
  ASSUME Inv, NEW c \in Calls, HeartbeatUpdates(c)
  PROVE  Inv'
<1>1. /\ agents' = UpdateHeartbeat(agents, call[c].caller, call[c].endpoint, call[c].at)
      /\ call' = [call EXCEPT ![c].step = "list"]
      /\ UNCHANGED <<spec, clock, issued, spent>> /\ call[c].step = "update"
  BY DEF HeartbeatUpdates
<1>2. KnownCaller(call[c]) /\ call[c] \in CallType
  BY <1>1 DEF Inv, TypeOK, PendingBeats
<1>3. /\ call[c].commit \in Commits /\ call[c].at \in 1..MaxTime
      /\ call[c].at >= issued[call[c].caller].at
      /\ call[c].caller \in spent /\ call[c].token = call[c].caller
  BY <1>1, <1>2, Zenon DEF KnownCaller
<1> DEFINE r == [call[c] EXCEPT !.step = "list"]
<1>4. r \in CallType /\ r.step = "list" /\ r.commit = call[c].commit /\ r.at = call[c].at
        /\ r.caller = call[c].caller /\ r.token = call[c].token
  BY <1>2 DEF CallType
<1>5. call' \in [Calls -> CallType] /\ \A x \in Calls : call'[x] = IF x = c THEN r ELSE call[x]
  BY <1>1, <1>4 DEF Inv, TypeOK
<1> HIDE DEF r
<1>6. DOMAIN agents' = DOMAIN agents /\ agents' = [n \in DOMAIN agents' |-> agents'[n]]
  BY <1>1 DEF UpdateHeartbeat
<1>7. agents' \in [DOMAIN agents' -> Row]
  <2>1. \A n \in DOMAIN agents' : agents'[n] \in Row
    BY UpdateFact, Zenon
  <2> QED
    BY <1>6, <2>1, Zenon
<1>8. TypeOK'
  BY <1>1, <1>5, <1>6, <1>7, Zenon DEF Inv, TypeOK, Drawn
<1>9. RowsAreWhole' /\ RowsSpent' /\ HubKeepsEndpoint'
  <2>1. \A n \in DOMAIN agents' :
          /\ n \in DOMAIN agents
          /\ agents'[n].id = agents[n].id /\ agents'[n].name = agents[n].name
          /\ agents'[n].public_key = agents[n].public_key
          /\ agents'[n].auth_token_hash = agents[n].auth_token_hash
          /\ agents[n].endpoint # "" => agents'[n].endpoint # ""
    BY UpdateFact
  <2>2. issued' = issued /\ spent' = spent /\ Drawn' = Drawn
    BY <1>1, Zenon DEF Drawn
  <2>3. RowsAreWhole'
    <3>1. ASSUME NEW n \in DOMAIN agents'
          PROVE  LET k == agents'[n].id
                 IN  /\ k \in Drawn
                     /\ agents'[n].auth_token_hash = HashToken(k)
                     /\ agents'[n].name = n /\ issued[k].name = n
                     /\ agents'[n].public_key = issued[k].public_key
      <4>1. /\ n \in DOMAIN agents
            /\ agents'[n].id = agents[n].id /\ agents'[n].name = agents[n].name
            /\ agents'[n].public_key = agents[n].public_key
            /\ agents'[n].auth_token_hash = agents[n].auth_token_hash
        BY <2>1, Zenon
      <4> QED
        BY <4>1, Zenon DEF Inv, RowsAreWhole
    <3> QED
      BY <2>2, <3>1, Zenon DEF RowsAreWhole
  <2>4. RowsSpent'
    BY <2>1, <2>2, Zenon DEF Inv, RowsSpent
  <2>5. HubKeepsEndpoint'
    <3>1. ASSUME NEW n \in DOMAIN agents', issued[agents'[n].id].role = "HUB"
          PROVE  agents'[n].endpoint # ""
      <4>1. /\ n \in DOMAIN agents /\ agents'[n].id = agents[n].id
            /\ agents[n].endpoint # "" => agents'[n].endpoint # ""
        BY <2>1, Zenon
      <4> QED
        BY <3>1, <4>1, Zenon DEF Inv, HubKeepsEndpoint
    <3> QED
      BY <2>2, <3>1, Zenon DEF HubKeepsEndpoint
  <2> QED
    BY <2>3, <2>4, <2>5
<1>10. SeenSinceRegistered'
  <2>1. \A n \in DOMAIN agents' : n \in DOMAIN agents /\ agents'[n].id = agents[n].id
          /\ \/ agents'[n] = agents[n]
             \/ agents[n].id = call[c].caller /\ agents'[n].last_seen_at = call[c].at
    <3> SUFFICES ASSUME NEW n \in DOMAIN agents'
                 PROVE  n \in DOMAIN agents /\ agents'[n].id = agents[n].id
                          /\ \/ agents'[n] = agents[n]
                             \/ /\ agents[n].id = call[c].caller
                                /\ agents'[n].last_seen_at = call[c].at
      OBVIOUS
    <3> QED
      BY UpdateFact
  <2> QED
    BY <1>1, <1>3, <2>1, Zenon DEF Inv, SeenSinceRegistered
<1>11. \A v, h : /\ FreshRow(v) => FreshRow(v)'
                 /\ KnownCaller(h) => KnownCaller(h)'
  <2>1. issued' = issued /\ spent' = spent /\ Drawn' = Drawn
    BY <1>1 DEF Drawn
  <2>2. \A v : FreshRow(v) => FreshRow(v)'
    BY <2>1, Zenon DEF FreshRow
  <2>3. \A h : KnownCaller(h) => KnownCaller(h)'
    BY <2>1, Zenon DEF KnownCaller
  <2> QED
    BY <2>2, <2>3, Zenon
<1>12. PendingRows'
  BY <1>4, <1>5, <1>11 DEF Inv, PendingRows
<1>13. PendingApart'
  <2>1. \A x \in Calls : call'[x].step = "upsert" => call'[x] = call[x]
    BY <1>4, <1>5
  <2> QED
    BY <2>1, Zenon DEF Inv, PendingApart
<1>14. PendingBeats'
  <2>1. KnownCaller(r)
    BY <1>3, <1>4, Zenon DEF KnownCaller
  <2>2. \A x \in Calls : call'[x].step \in {"current", "update", "list"} => KnownCaller(call'[x])
    BY <1>4, <1>5, <2>1, Zenon DEF Inv, PendingBeats
  <2> QED
    BY <1>11, <2>2, Zenon DEF PendingBeats
<1>15. DrawnBefore'
  BY <1>1, Zenon DEF Inv, DrawnBefore, Drawn
<1> QED
  BY <1>8, <1>9, <1>10, <1>12, <1>13, <1>14, <1>15, Zenon DEF Inv

-----------------------------------------------------------------------------
(* Every step keeps the invariant. *)
LEMMA NextInv == Inv /\ [Next]_vars => Inv'
<1> SUFFICES ASSUME Inv, [Next]_vars PROVE Inv'
  OBVIOUS
<1>1. ASSUME NEW c \in Calls, Register(c)
      PROVE  Inv'
  BY <1>1, ReplyInv, PreparedInv, UpsertsInv DEF Register
<1>2. ASSUME NEW c \in Calls, Heartbeat(c)
      PROVE  Inv'
  BY <1>2, ReplyInv, AuthAcceptedInv, ReadsSpecInv, UpdatesInv, ListsInv DEF Heartbeat
<1>3. ASSUME NEW c \in Calls, Fails(c) \/ Return(c)
      PROVE  Inv'
  BY <1>3, ReplyInv
<1>4. ASSUME NEW c \in Commits, SpecChanges(c)
      PROVE  Inv'
  BY <1>4, SpecChangesInv
<1>5. ASSUME NEW wiped \in BOOLEAN, ServerRestart(wiped)
      PROVE  Inv'
  BY <1>5, RestartInv
<1>6. CASE ClockTick
  BY <1>6, ClockTickInv
<1>7. CASE UNCHANGED vars
  <2>1. SameTable /\ call' = call /\ clock' = clock /\ spec' = spec
    BY <1>7 DEF vars, SameTable
  <2>2. TypeOK'
    BY <2>1, Zenon DEF Inv, TypeOK, Drawn, SameTable
  <2>3. PendingRows' /\ PendingApart' /\ PendingBeats'
    BY <2>1, SameTableFact, Zenon DEF PendingRows, PendingApart, PendingBeats, Inv
  <2>4. DrawnBefore'
    BY <2>1, Zenon DEF DrawnBefore, Drawn, Inv, SameTable
  <2> QED
    BY <2>1, <2>2, <2>3, <2>4, SameTableFact, Zenon DEF Inv
<1> QED
  BY <1>1, <1>2, <1>3, <1>4, <1>5, <1>6, <1>7, Zenon DEF Next

(* The inductive invariant holds throughout. *)
THEOREM Invariance == Spec => []Inv
BY InitInv, NextInv, PTL DEF Spec

(* Rows, calls in flight and replies keep their types, for every spec and  *)
(* every interleaving of handlers.                                         *)
THEOREM TypeCorrect == Spec => []TypeOK
<1>1. Inv => TypeOK
  BY DEF Inv
<1> QED
  BY <1>1, Invariance, PTL

(* UpsertAgent never mixes two registrations in one row. *)
THEOREM RowsWhole == Spec => []RowsAreWhole
<1>1. Inv => RowsAreWhole
  BY DEF Inv
<1> QED
  BY <1>1, Invariance, PTL

(* last_seen_at is never older than the registration of its row, although  *)
(* Heartbeat reads the clock before, and writes after, other registrations *)
(* may have happened.                                                      *)
THEOREM SeenSound == Spec => []SeenSinceRegistered
<1>1. Inv => SeenSinceRegistered
  BY DEF Inv
<1> QED
  BY <1>1, Invariance, PTL

(* What registered as a hub stays dialable. *)
THEOREM HubDialable == Spec => []HubKeepsEndpoint
<1>1. Inv => HubKeepsEndpoint
  BY DEF Inv
<1> QED
  BY <1>1, Invariance, PTL

(* A late heartbeat never writes to a registration that replaced its own:  *)
(* the UPDATE by ID reaches only the row of the token it came with.        *)
THEOREM HeartbeatOwnRow == Spec => HeartbeatTouchesOwnRow
<1> DEFINE A == \A c \in Calls :
                  HeartbeatUpdates(c) =>
                    \A n \in DOMAIN agents :
                      agents'[n] # agents[n] => agents[n].auth_token_hash = HashToken(call[c].token)
<1>1. Inv => A
  <2> SUFFICES ASSUME Inv, NEW c \in Calls, HeartbeatUpdates(c), NEW n \in DOMAIN agents,
                      agents'[n] # agents[n]
               PROVE  agents[n].auth_token_hash = HashToken(call[c].token)
    OBVIOUS
  <2>1. n \in DOMAIN agents'
    BY DEF HeartbeatUpdates, UpdateHeartbeat
  <2>2. agents[n].id = call[c].caller
    BY <2>1, UpdateFact
  <2>3. call[c].token = call[c].caller
    BY Zenon DEF HeartbeatUpdates, Inv, PendingBeats, KnownCaller
  <2>4. agents[n].auth_token_hash = HashToken(agents[n].id)
    BY Zenon DEF Inv, RowsAreWhole
  <2> QED
    BY <2>2, <2>3, <2>4, Zenon
<1>2. []Inv => [][A]_vars
  BY <1>1, PTL
<1> QED
  BY <1>2, Invariance, PTL DEF HeartbeatTouchesOwnRow

-----------------------------------------------------------------------------
(* The handlers over the store implement the abstract Registry.  Each      *)
(* handler takes effect at its writing statement: the upsert is an Enrol   *)
(* with a credential nobody held, the UPDATE by ID a Beat of the holder or *)
(* nothing, a lost database a Lose.                                        *)

(* The enrolment a row stands for, and the registry a table stands for.    *)
Enr(a) == [key |-> a.public_key, endpoint |-> a.endpoint, cred |-> a.auth_token_hash,
           since |-> a.created_at, seen |-> a.last_seen_at]
Reg == [n \in DOMAIN agents |-> Enr(agents[n])]
Spent == {HashToken(k) : k \in spent}

(* One hash is of one token. *)
LEMMA HashFact == \A j, k : HashToken(j) = HashToken(k) => j = k
BY DEF HashToken

(* An empty table is an empty registry. *)
LEMMA InitRegistry == Init => R!RegInit
BY DEF Init, EmptyTable, R!RegInit

(* A step that touches neither the table nor the history of credentials is *)
(* not visible.                                                            *)
LEMMA SameRegistry == UNCHANGED <<agents, spent>> => UNCHANGED R!regvars
BY DEF R!regvars

(* The two writing steps of the registry, on what the table stands for.    *)
LEMMA EnrolFact ==
  ASSUME NEW n \in Names, NEW k \in {HashToken(j) : j \in 1..MaxRegs},
         NEW key \in Keys, NEW ep \in TableEndpoints, NEW t \in 1..MaxTime,
         k \notin Spent, Spent' = Spent \cup {k},
         Reg' = [m \in DOMAIN Reg \cup {n} |->
                   IF m # n THEN Reg[m]
                   ELSE [key |-> key, endpoint |-> ep, cred |-> k,
                         since |-> IF n \in DOMAIN Reg THEN Reg[n].since ELSE t, seen |-> t]]
  PROVE  R!RegNext
<1>1. \E x \in Keys, y \in TableEndpoints, z \in 1..MaxTime :
        Reg' = [m \in DOMAIN Reg \cup {n} |->
                  IF m # n THEN Reg[m]
                  ELSE [key |-> x, endpoint |-> y, cred |-> k,
                        since |-> IF n \in DOMAIN Reg THEN Reg[n].since ELSE z, seen |-> z]]
  OBVIOUS
<1>2. R!Enrol(n, k)
  BY <1>1, Zenon DEF R!Enrol, Reg, Enr, Spent
<1>3. QED  BY <1>2, Zenon DEF R!RegNext

(* And of a beat. *)
LEMMA BeatFact ==
  ASSUME NEW n \in Names, NEW k \in {HashToken(j) : j \in 1..MaxRegs},
         NEW ep \in TableEndpoints, NEW t \in 1..MaxTime,
         n \in DOMAIN Reg, Reg[n].cred = k, Spent' = Spent,
         Reg' = [Reg EXCEPT ![n] = [key |-> Reg[n].key, endpoint |-> ep, cred |-> k,
                                    since |-> Reg[n].since, seen |-> t]]
  PROVE  R!RegNext
<1>1. R!Beat(n, k, ep, t)
  BY Zenon DEF R!Beat, Reg, Enr, Spent
<1>2. QED  BY <1>1, Zenon DEF R!RegNext

(* RegisterUpserts is an enrolment with a fresh credential. *)
LEMMA UpsertEnrols ==
  ASSUME Inv, NEW c \in Calls, RegisterUpserts(c)
  PROVE  R!RegNext
<1> DEFINE r == call[c].row
           n == r.name
           k == HashToken(r.id)
<1>1. /\ agents' = UpsertAgent(agents, r) /\ spent' = spent \cup {r.id}
      /\ FreshRow(r)
  BY DEF RegisterUpserts, Inv, PendingRows
<1>2. /\ r.id \in 1..MaxRegs /\ n \in Names /\ r.public_key \in Keys
      /\ r.endpoint \in TableEndpoints /\ r.last_seen_at \in 1..MaxTime
      /\ r.id \notin spent /\ r.auth_token_hash = k /\ r.created_at = r.last_seen_at
  BY <1>1, DrawnFact DEF FreshRow, Row, Inv
<1>3. k \notin Spent /\ Spent' = Spent \cup {k}
  BY <1>1, <1>2, HashFact DEF Spent
<1>4. DOMAIN agents' = DOMAIN agents \cup {n}
  BY <1>1 DEF UpsertAgent
<1>5. \A m \in DOMAIN agents : m # n => agents'[m] = agents[m]
  BY <1>1 DEF UpsertAgent
<1>6. agents'[n] = [r EXCEPT !.created_at = IF n \in DOMAIN agents THEN agents[n].created_at ELSE @]
  BY <1>1 DEF UpsertAgent
<1>7. r \in Row
  BY <1>1 DEF FreshRow
<1>8. Enr(agents'[n]) = [key |-> r.public_key, endpoint |-> r.endpoint, cred |-> k,
                         since |-> IF n \in DOMAIN agents THEN Enr(agents[n]).since ELSE r.last_seen_at,
                         seen |-> r.last_seen_at]
  BY <1>2, <1>6, <1>7 DEF Enr, Row
<1> HIDE DEF n, k
<1>9. Reg' = [m \in DOMAIN Reg \cup {n} |->
                IF m # n THEN Reg[m]
                ELSE [key |-> r.public_key, endpoint |-> r.endpoint, cred |-> k,
                      since |-> IF n \in DOMAIN Reg THEN Reg[n].since ELSE r.last_seen_at,
                      seen |-> r.last_seen_at]]
  BY <1>4, <1>5, <1>8 DEF Reg
<1>10. k \in {HashToken(j) : j \in 1..MaxRegs}
  BY <1>2 DEF k
<1> HIDE DEF r
<1>11. PICK nn, kk, key, ep, t : nn = n /\ kk = k /\ key = r.public_key /\ ep = r.endpoint
                                  /\ t = r.last_seen_at
  OBVIOUS
<1>12. QED  BY <1>2, <1>3, <1>9, <1>10, <1>11, EnrolFact

(* HeartbeatUpdates is a beat of the holder, or changes nothing when the   *)
(* registration of the caller has been replaced meanwhile.                 *)
LEMMA UpdateBeats ==
  ASSUME Inv, NEW c \in Calls, HeartbeatUpdates(c)
  PROVE  R!RegNext \/ UNCHANGED R!regvars
<1> DEFINE h == call[c]
<1>1. /\ agents' = UpdateHeartbeat(agents, h.caller, h.endpoint, h.at) /\ spent' = spent
      /\ KnownCaller(h) /\ h.step = "update"
  BY DEF HeartbeatUpdates, Inv, PendingBeats
<1>2. h.at \in 1..MaxTime /\ h.endpoint \in TableEndpoints
  BY <1>1, EndpointsFact DEF KnownCaller, Inv, TypeOK, CallType
<1>3. /\ DOMAIN agents' = DOMAIN agents
      /\ \A m \in DOMAIN agents : agents[m].id # h.caller => agents'[m] = agents[m]
      /\ \A m \in DOMAIN agents : agents[m].id = h.caller =>
           agents'[m] = [agents[m] EXCEPT !.endpoint = IF h.endpoint = "" THEN @ ELSE h.endpoint,
                                          !.last_seen_at = h.at]
  BY <1>1 DEF UpdateHeartbeat
<1>4. CASE \A m \in DOMAIN agents : agents[m].id # h.caller
  <2>1. Reg' = Reg
    BY <1>3, <1>4 DEF Reg
  <2>2. QED  BY <1>1, <2>1 DEF R!regvars, Reg, Enr
<1>5. ASSUME NEW n \in DOMAIN agents, agents[n].id = h.caller
      PROVE  R!RegNext
  <2> DEFINE k == agents[n].auth_token_hash
             ep == IF h.endpoint = "" THEN agents[n].endpoint ELSE h.endpoint
  <2>1. agents[n] \in Row /\ n \in Names
    BY DEF Inv, TypeOK
  <2>2. \A m \in DOMAIN agents : m # n => agents'[m] = agents[m]
    <3>1. \A m \in DOMAIN agents : issued[agents[m].id].name = m
      BY Zenon DEF Inv, RowsAreWhole
    <3>2. \A m \in DOMAIN agents : agents[m].id = h.caller => m = n
      BY <1>5, <3>1, Zenon
    <3>3. QED  BY <1>3, <3>2, Zenon
  <2>3. agents'[n] = [agents[n] EXCEPT !.endpoint = ep, !.last_seen_at = h.at]
    BY <1>3, <1>5
  <2>4. ep \in TableEndpoints /\ k \in {HashToken(j) : j \in 1..MaxRegs}
    BY <1>2, <2>1 DEF Row
  <2> HIDE DEF ep
  <2>5. Enr(agents'[n]) = [key |-> agents[n].public_key, endpoint |-> ep, cred |-> k,
                           since |-> agents[n].created_at, seen |-> h.at]
    <3>1. /\ agents'[n].public_key = agents[n].public_key /\ agents'[n].endpoint = ep
          /\ agents'[n].auth_token_hash = agents[n].auth_token_hash
          /\ agents'[n].created_at = agents[n].created_at /\ agents'[n].last_seen_at = h.at
      BY <2>1, <2>3 DEF Row
    <3>2. QED  BY <3>1, Zenon DEF Enr
  <2>6. Reg' = [Reg EXCEPT ![n] = [key |-> Reg[n].key, endpoint |-> ep, cred |-> k,
                                   since |-> Reg[n].since, seen |-> h.at]]
    <3>1. Reg[n].key = agents[n].public_key /\ Reg[n].since = agents[n].created_at
      BY DEF Reg, Enr
    <3>2. QED  BY <1>3, <2>2, <2>5, <3>1 DEF Reg
  <2>7. n \in DOMAIN Reg /\ Reg[n].cred = k
    BY DEF Reg, Enr
  <2>8. Spent' = Spent
    BY <1>1 DEF Spent
  <2> HIDE DEF k
  <2>9. PICK kk, e, t : kk = k /\ e = ep /\ t = h.at
    OBVIOUS
  <2>10. QED  BY <1>2, <2>1, <2>4, <2>6, <2>7, <2>8, <2>9, BeatFact
<1>6. QED  BY <1>4, <1>5

(* Every step of the server is a step of the registry, or none. *)
LEMMA NextRegistry == Inv /\ [Next]_vars => [R!RegNext]_(R!regvars)
<1> SUFFICES ASSUME Inv, [Next]_vars PROVE R!RegNext \/ UNCHANGED R!regvars  OBVIOUS
<1>1. ASSUME NEW c \in Calls, Register(c)
      PROVE  R!RegNext \/ UNCHANGED R!regvars
  BY <1>1, UpsertEnrols, SameRegistry DEF Register, RegisterRejected, RegisterPrepared
<1>2. ASSUME NEW c \in Calls, Heartbeat(c)
      PROVE  R!RegNext \/ UNCHANGED R!regvars
  BY <1>2, UpdateBeats, SameRegistry
     DEF Heartbeat, AuthRejected, AuthAccepted, HeartbeatReadsSpec, HeartbeatLists
<1>3. ASSUME NEW wiped \in BOOLEAN, ServerRestart(wiped)
      PROVE  R!RegNext \/ UNCHANGED R!regvars
  <2>1. CASE wiped
    BY <1>3, <2>1 DEF ServerRestart, EmptyTable, R!RegNext, R!Lose
  <2>2. CASE ~wiped
    BY <1>3, <2>2, SameRegistry DEF ServerRestart
  <2>3. QED  BY <2>1, <2>2
<1>4. CASE \/ \E c \in Calls : Fails(c) \/ Return(c)
           \/ \E c \in Commits : SpecChanges(c)
           \/ ClockTick
           \/ UNCHANGED vars
  BY <1>4, SameRegistry DEF Fails, Return, SpecChanges, ClockTick, vars
<1>5. QED  BY <1>1, <1>2, <1>3, <1>4 DEF Next

(* The server implements the abstract registry: what Register and          *)
(* Heartbeat do to the table, however their statements interleave, is what *)
(* the registry promises.                                                  *)
THEOREM Refinement == Spec => ImplementsRegistry
BY InitRegistry, NextRegistry, Invariance, PTL DEF Spec, ImplementsRegistry, R!RegSpec

(* Who holds a credential, in terms of the table. *)
LEMMA HoldsFact ==
  ASSUME NEW k
  PROVE  /\ R!Holds(k) <=> \E n \in DOMAIN Reg : Reg[n].cred = k
         /\ R!Holds(k)' <=> \E n \in DOMAIN Reg' : Reg'[n].cred = k
BY Zenon DEF R!Holds, Reg, Enr

(* A step of the registry gives no spent credential back. *)
LEMMA StepStaysDead ==
  ASSUME R!RegNext, NEW k \in Spent, R!Holds(k)'
  PROVE  R!Holds(k)
<1>1. PICK m \in DOMAIN Reg' : Reg'[m].cred = k
  BY HoldsFact
<1>2. ASSUME NEW n, NEW x, R!Enrol(n, x) PROVE m \in DOMAIN Reg /\ Reg[m].cred = k
  <2>1. /\ x \notin Spent
        /\ \E key \in Keys, ep \in TableEndpoints, t \in 1..MaxTime :
             Reg' = [l \in DOMAIN Reg \cup {n} |->
                       IF l # n THEN Reg[l]
                       ELSE [key |-> key, endpoint |-> ep, cred |-> x,
                             since |-> IF n \in DOMAIN Reg THEN Reg[n].since ELSE t, seen |-> t]]
    BY <1>2, Zenon DEF R!Enrol, Reg, Enr, Spent
  <2>2. \A l \in DOMAIN Reg' : /\ l = n => Reg'[l].cred = x
                               /\ l # n => l \in DOMAIN Reg /\ Reg'[l] = Reg[l]
    <3>1. PICK key \in Keys, ep \in TableEndpoints, t \in 1..MaxTime :
             Reg' = [l \in DOMAIN Reg \cup {n} |->
                       IF l # n THEN Reg[l]
                       ELSE [key |-> key, endpoint |-> ep, cred |-> x,
                             since |-> IF n \in DOMAIN Reg THEN Reg[n].since ELSE t, seen |-> t]]
      BY <2>1, Zenon
    <3> HIDE DEF Reg
    <3> QED
      BY <3>1
  <2>3. QED  BY <1>1, <2>1, <2>2
<1>3. ASSUME NEW n, NEW x, NEW ep, NEW t, R!Beat(n, x, ep, t)
      PROVE  m \in DOMAIN Reg /\ Reg[m].cred = k
  <2>1. /\ n \in DOMAIN Reg /\ Reg[n].cred = x
        /\ Reg' = [Reg EXCEPT ![n] = [key |-> Reg[n].key, endpoint |-> ep, cred |-> x,
                                      since |-> Reg[n].since, seen |-> t]]
    BY <1>3, Zenon DEF R!Beat, Reg, Enr
  <2>2. QED  BY <1>1, <2>1 DEF Reg
<1>4. ~R!Lose
  BY <1>1 DEF R!Lose, Reg
<1>5. QED  BY <1>2, <1>3, <1>4, HoldsFact DEF R!RegNext

(* A bearer token that was replaced by another registration, or lost with  *)
(* the database, is refused by AuthInterceptor for ever.                   *)
THEOREM TokenStaysDead == Spec => SupersededTokenStaysDead
<1> DEFINE A == \A k \in {HashToken(k) : k \in spent} : ~R!Holds(k) => ~R!Holds(k)'
<1>1. R!RegNext => A
  BY StepStaysDead DEF Spent
<1>2. R!RegSpec => [][A]_(R!regvars)
  <2> HIDE DEF A
  <2> QED
    BY <1>1, PTL DEF R!RegSpec
<1>3. [][A]_(R!regvars) => R!SupersededStaysDead
  BY DEF R!SupersededStaysDead
<1>4. QED  BY <1>2, <1>3, Refinement, PTL DEF ImplementsRegistry, SupersededTokenStaysDead

-----------------------------------------------------------------------------
(* Heartbeat's reply is of one commit.  Inv gives what is needed of the    *)
(* table: rows carry the name they are stored under.                       *)
Faithful(h) ==
  h.step = "replied" =>
    LET d == DocAt[h.commit]
    IN  /\ \A p \in h.peers : /\ p.role = resolveRole(d, p.name)
                              /\ p.role # "UNSPECIFIED"
                              /\ p.tunnel_ip = tunnelIPFor(d, p.name)
        /\ \A p, q \in h.peers : p.name = q.name => p = q

(* Every outcome of a call but Heartbeat's list has no entries to be wrong.*)
LEMMA WithoutPeers ==
  /\ Faithful(Idle)
  /\ \A code : Faithful(Reply(code))
  /\ \A id, tok, ep : Faithful(Authenticated(id, tok, ep))
  /\ \A h : h.step # "replied" => Faithful(h)
<1>1. Idle.peers = {} /\ \A code : Reply(code).peers = {}
  BY DEF Idle, Reply
<1>2. \A id, tok, ep : Authenticated(id, tok, ep).peers = {}
  BY DEF Authenticated
<1> QED
  BY <1>1, <1>2, Zenon DEF Faithful

(* A step of one call leaves the replies of the others alone. *)
LEMMA OneCall ==
  ASSUME Inv, ReplyMatchesCommit, NEW c \in Calls, NEW r, Faithful(r),
         call' = [call EXCEPT ![c] = r]
  PROVE  ReplyMatchesCommit'
<1>1. call \in [Calls -> CallType]
  BY DEF Inv, TypeOK
<1>2. \A e \in Calls : call'[e] = IF e = c THEN r ELSE call[e]
  BY <1>1
<1>3. \A e \in Calls : Faithful(call[e])
  BY Zenon DEF ReplyMatchesCommit, Faithful
<1>4. \A e \in Calls : Faithful(call'[e])
  BY <1>2, <1>3, Zenon
<1> QED
  BY <1>4, Zenon DEF ReplyMatchesCommit, Faithful

(* Roles and addresses in Heartbeat's list are of the commit it names, and *)
(* one row makes one entry.                                                *)
LEMMA ListFaithful ==
  ASSUME Inv, NEW c \in Calls, call[c].step = "list"
  PROVE  Faithful([Reply("OK") EXCEPT !.commit = call[c].commit,
                                      !.peers = HeartbeatReply(call[c], ListAgents(agents))])
<1> DEFINE h == call[c]
           d == DocAt[h.commit]
           peers == HeartbeatReply(h, ListAgents(agents))
           r == [Reply("OK") EXCEPT !.commit = h.commit, !.peers = peers]
<1>1. ASSUME NEW p \in peers
      PROVE  \E n \in DOMAIN agents : /\ p = PeerInfo(h, agents[n])
                                      /\ resolveRole(d, agents[n].name) # "UNSPECIFIED"
  BY <1>1, Zenon DEF HeartbeatReply, ListAgents
<1>2. ASSUME NEW a
      PROVE  /\ PeerInfo(h, a).name = a.name
             /\ PeerInfo(h, a).role = resolveRole(d, a.name)
             /\ PeerInfo(h, a).tunnel_ip = tunnelIPFor(d, a.name)
  BY DEF PeerInfo
<1>3. \A n \in DOMAIN agents : agents[n].name = n
  BY Zenon DEF Inv, RowsAreWhole
<1>4. r.commit = h.commit /\ r.peers = peers
  BY DEF Reply, Idle
<1> HIDE DEF h, peers, r
<1>5. \A p \in peers : /\ p.role = resolveRole(d, p.name)
                       /\ p.role # "UNSPECIFIED"
                       /\ p.tunnel_ip = tunnelIPFor(d, p.name)
  <2> SUFFICES ASSUME NEW p \in peers
               PROVE  /\ p.role = resolveRole(d, p.name) /\ p.role # "UNSPECIFIED"
                      /\ p.tunnel_ip = tunnelIPFor(d, p.name)
    OBVIOUS
  <2>1. PICK n \in DOMAIN agents : /\ p = PeerInfo(h, agents[n])
                                   /\ resolveRole(d, agents[n].name) # "UNSPECIFIED"
    BY <1>1, Zenon
  <2>2. /\ p.name = agents[n].name /\ p.role = resolveRole(d, agents[n].name)
        /\ p.tunnel_ip = tunnelIPFor(d, agents[n].name)
    BY <1>2, <2>1
  <2> HIDE DEF d
  <2> QED
    BY <2>1, <2>2
<1>6. ASSUME NEW p \in peers, NEW q \in peers, p.name = q.name PROVE p = q
  <2>1. PICK n \in DOMAIN agents : p = PeerInfo(h, agents[n])
    BY <1>1, Zenon
  <2>2. PICK m \in DOMAIN agents : q = PeerInfo(h, agents[m])
    BY <1>1, Zenon
  <2>3. n = m
    BY <1>2, <1>3, <1>6, <2>1, <2>2, Zenon
  <2> QED
    BY <2>1, <2>2, <2>3
<1>7. Faithful(r)
  BY <1>4, <1>5, <1>6, Zenon DEF Faithful
<1> QED
  BY <1>7 DEF r, h, peers

(* Every step keeps the replies faithful. *)
LEMMA NextFaithful == Inv /\ ReplyMatchesCommit /\ [Next]_vars => ReplyMatchesCommit'
<1> SUFFICES ASSUME Inv, ReplyMatchesCommit, [Next]_vars PROVE ReplyMatchesCommit'
  OBVIOUS
<1>1. ASSUME NEW c \in Calls, NEW req, RegisterRejected(c, req) PROVE ReplyMatchesCommit'
  BY <1>1, OneCall, WithoutPeers DEF RegisterRejected
<1>2. ASSUME NEW c \in Calls, NEW req, RegisterPrepared(c, req) PROVE ReplyMatchesCommit'
  <2>1. PICK row : call' = [call EXCEPT ![c] = [Idle EXCEPT !.step = "upsert", !.row = row]]
    BY <1>2, Zenon DEF RegisterPrepared
  <2>2. [Idle EXCEPT !.step = "upsert", !.row = row].step = "upsert"
    BY DEF Idle
  <2> QED
    BY <2>1, <2>2, OneCall, WithoutPeers
<1>3. ASSUME NEW c \in Calls, RegisterUpserts(c) PROVE ReplyMatchesCommit'
  BY <1>3, OneCall, WithoutPeers DEF RegisterUpserts
<1>4. ASSUME NEW c \in Calls, NEW md, AuthRejected(c, md) PROVE ReplyMatchesCommit'
  BY <1>4, OneCall, WithoutPeers DEF AuthRejected
<1>5. ASSUME NEW c \in Calls, NEW md, NEW ep, AuthAccepted(c, md, ep) PROVE ReplyMatchesCommit'
  <2>1. PICK id, tok : call' = [call EXCEPT ![c] = Authenticated(id, tok, ep)]
    BY <1>5, Zenon DEF AuthAccepted
  <2> QED
    BY <2>1, OneCall, WithoutPeers
<1>6. ASSUME NEW c \in Calls, HeartbeatReadsSpec(c) PROVE ReplyMatchesCommit'
  <2>1. CASE spec = NoCommit
    <3>1. call' = [call EXCEPT ![c] = Reply("Unavailable")]
      BY <1>6, <2>1 DEF HeartbeatReadsSpec
    <3> QED
      BY <3>1, OneCall, WithoutPeers
  <2>2. CASE spec # NoCommit
    <3> DEFINE r == [call[c] EXCEPT !.step = "update", !.commit = spec, !.at = clock]
    <3>1. call \in [Calls -> CallType]
      BY DEF Inv, TypeOK
    <3>2. call' = [call EXCEPT ![c] = r]
      <4>1. call' = [call EXCEPT ![c] = IF spec = NoCommit THEN Reply("Unavailable")
                                         ELSE [@ EXCEPT !.step = "update", !.commit = spec, !.at = clock]]
        BY <1>6, Zenon DEF HeartbeatReadsSpec
      <4> QED
        BY <2>2, <4>1
    <3>3. r.step = "update"
      <4>1. call[c] \in CallType
        BY <3>1, Zenon
      <4>2. "step" \in DOMAIN call[c]
        BY <4>1 DEF CallType
      <4> QED
        BY <4>2
    <3> HIDE DEF r
    <3> QED
      BY <3>2, <3>3, OneCall, WithoutPeers
  <2> QED
    BY <2>1, <2>2
<1>7. ASSUME NEW c \in Calls, HeartbeatUpdates(c) PROVE ReplyMatchesCommit'
  <2> DEFINE r == [call[c] EXCEPT !.step = "list"]
  <2>1. call \in [Calls -> CallType]
    BY DEF Inv, TypeOK
  <2>2. call' = [call EXCEPT ![c] = r] /\ r.step = "list"
    BY <1>7, <2>1 DEF HeartbeatUpdates, CallType
  <2> HIDE DEF r
  <2> QED
    BY <2>2, OneCall, WithoutPeers
<1>8. ASSUME NEW c \in Calls, HeartbeatLists(c) PROVE ReplyMatchesCommit'
  BY <1>8, OneCall, ListFaithful DEF HeartbeatLists
<1>9. ASSUME NEW c \in Calls, Fails(c) \/ Return(c) PROVE ReplyMatchesCommit'
  <2>1. call' = [call EXCEPT ![c] = Reply("Internal")] \/ call' = [call EXCEPT ![c] = Idle]
    BY <1>9, Zenon DEF Fails, Return
  <2> QED
    BY <2>1, OneCall, WithoutPeers
<1>10. ASSUME NEW wiped, ServerRestart(wiped) PROVE ReplyMatchesCommit'
  <2>1. \A c \in Calls : call'[c] = Idle
    BY <1>10 DEF ServerRestart
  <2>2. \A c \in Calls : Faithful(call'[c])
    BY <2>1, WithoutPeers, Zenon
  <2> QED
    BY <2>2, Zenon DEF ReplyMatchesCommit, Faithful
<1>11. CASE (\E c \in Commits : SpecChanges(c)) \/ ClockTick \/ UNCHANGED vars
  <2>1. call' = call
    BY <1>11 DEF SpecChanges, ClockTick, vars
  <2> QED
    BY <2>1, Zenon DEF ReplyMatchesCommit
<1> QED
  BY <1>1, <1>2, <1>3, <1>4, <1>5, <1>6, <1>7, <1>8, <1>9, <1>10, <1>11, Zenon
     DEF Next, Register, Heartbeat

(* A reply is a consistent picture of the commit it names, although the    *)
(* watcher may swap the spec and agents may register again while Heartbeat *)
(* runs.                                                                   *)
THEOREM ReplyConsistent == Spec => []ReplyMatchesCommit
<1>1. Init => ReplyMatchesCommit
  <2> SUFFICES ASSUME Init PROVE ReplyMatchesCommit
    OBVIOUS
  <2>1. \A c \in Calls : call[c] = Idle
    BY DEF Init
  <2> QED
    BY <2>1, WithoutPeers, Zenon DEF ReplyMatchesCommit, Faithful
<1> QED
  BY <1>1, NextFaithful, Invariance, PTL DEF Spec
=============================================================================
