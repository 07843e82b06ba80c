---------------------------- MODULE ControlPlane ----------------------------
(***************************************************************************)
(* The management server: the SQLite registry (internal/store) and the     *)
(* gRPC handlers over it (internal/controlplane).  Every call runs in its  *)
(* own goroutine.  A statement of the store is atomic (one connection);    *)
(* between two statements, and between reading the spec cache and using    *)
(* what was read, other calls, the spec watcher and a restart interleave.  *)
(*                                                                         *)
(* IDs and bearer tokens are drawn at random and never repeat: the k-th    *)
(* Register that gets that far draws the ID k and the token k.  Token 0 is *)
(* any token never handed out, the blank one included.                     *)
(***************************************************************************)
EXTENDS SpecDoc, FiniteSets

CONSTANTS Names,      \* names agents register under
          Keys,       \* WireGuard public keys
          Endpoints,  \* host:port values agents advertise
          Calls,      \* goroutines serving a call
          Commits,    \* commits the server's watcher may cache
          DocAt,      \* the document at each commit
          NoCommit,   \* nothing cached yet
          MaxRegs,    \* bound: credentials drawn
          MaxTime     \* bound: the clock

ASSUME NamesAssumption == "" \notin Names /\ "" \notin Keys /\ "" \notin Endpoints
ASSUME SpecAssumption == /\ NoCommit \notin Commits
                         /\ \A c \in Commits : Parsed(DocAt[c])
ASSUME LimitAssumption == MaxRegs \in Nat /\ MaxTime \in Nat \ {0}

VARIABLES
  agents,  \* table agents: name -> row
  spec,    \* commit cached by the server's watcher
  clock,   \* Unix time
  call,    \* goroutine -> its call
  issued,  \* history: what the k-th draw was made for
  spent    \* history: credentials that were ever in the table

vars == <<agents, spec, clock, call, issued, spent>>

(* Roles as resolveRole classifies names. *)
resolveRole(d, name) ==
  IF FindHub(d, name) # NoHub THEN "HUB"
  ELSE IF FindAgent(d, name) # NoAgent THEN "SPOKE"
  ELSE "UNSPECIFIED"

tunnelIPFor(d, name) ==
  IF FindHub(d, name) # NoHub THEN FindHub(d, name).tunnelIP
  ELSE FindAgent(d, name).tunnelIP

(* Every endpoint the table may hold: advertised, or taken from the spec. *)
TableEndpoints ==
  Endpoints \cup {""} \cup {FindHub(DocAt[c], n).endpoint : c \in Commits, n \in Names}

Drawn == 1..Len(issued)

-----------------------------------------------------------------------------
(* internal/store                                                          *)

HashToken(tok) == [sha256 |-> tok]

EmptyTable == [n \in {} |-> 0]

Row == [id : 1..MaxRegs, name : Names, public_key : Keys, endpoint : TableEndpoints,
        auth_token_hash : {HashToken(k) : k \in 1..MaxRegs},
        created_at : 1..MaxTime, last_seen_at : 1..MaxTime]

(* Mutants of UpsertAgent: ON CONFLICT forgets the public key, forgets     *)
(* last_seen_at, or overwrites created_at.                                 *)
UpsertKeepsKey(t, a) ==
  [n \in DOMAIN t \cup {a.name} |->
     IF n # a.name THEN t[n]
     ELSE [a EXCEPT !.public_key = IF n \in DOMAIN t THEN t[n].public_key ELSE @]]

UpsertKeepsSeen(t, a) ==
  [n \in DOMAIN t \cup {a.name} |->
     IF n # a.name THEN t[n]
     ELSE [a EXCEPT !.last_seen_at = IF n \in DOMAIN t THEN t[n].last_seen_at ELSE @]]

UpsertNewCreation(t, a) ==
  [n \in DOMAIN t \cup {a.name} |-> IF n # a.name THEN t[n] ELSE a]

(* INSERT ... ON CONFLICT(name) DO UPDATE: all columns but created_at. *)
UpsertAgent(t, a) ==
  [n \in DOMAIN t \cup {a.name} |->
     IF n # a.name THEN t[n]
     ELSE [a EXCEPT !.created_at = IF n \in DOMAIN t THEN t[n].created_at ELSE @]]

(* The rows that match; none is ErrNotFound. *)
AuthenticateByTokenHash(t, hash) ==
  {t[n] : n \in {m \in DOMAIN t : t[m].auth_token_hash = hash}}

(* Mutant of UpdateHeartbeat: an empty endpoint is stored too. *)
UpdateAlwaysEndpoint(t, id, endpoint, when) ==
  [n \in DOMAIN t |->
     IF t[n].id # id THEN t[n] ELSE [t[n] EXCEPT !.endpoint = endpoint, !.last_seen_at = when]]

(* UPDATE ... WHERE id = ?; no matching row is not an error. *)
UpdateHeartbeat(t, id, endpoint, when) ==
  [n \in DOMAIN t |->
     IF t[n].id # id THEN t[n]
     ELSE [t[n] EXCEPT !.endpoint = IF endpoint = "" THEN @ ELSE endpoint,
                       !.last_seen_at = when]]

ListAgents(t) == {t[n] : n \in DOMAIN t}

-----------------------------------------------------------------------------
(* A call in flight.  step: the statement it executes next; row: what      *)
(* Register is about to persist; caller, endpoint, at and commit: what     *)
(* Heartbeat has read so far; code and peers: the reply.  token is history *)
(* (the handler forgets it).                                               *)

NoRow == [name |-> ""]

Idle == [step |-> "idle", row |-> NoRow, token |-> 0, caller |-> 0, endpoint |-> "",
         at |-> 0, commit |-> NoCommit, code |-> "", peers |-> {}]

Reply(code) == [Idle EXCEPT !.step = "replied", !.code = code]

Init ==
  /\ agents = EmptyTable
  /\ spec = NoCommit
  /\ clock = 1
  /\ call = [c \in Calls |-> Idle]
  /\ issued = <<>>
  /\ spent = {}

(* Mutant of RegisterCode: names outside the spec are let in. *)
RegisterCodeAnyName(req) ==
  IF req.name = "" \/ req.public_key = "" THEN "InvalidArgument"
  ELSE IF ~req.bootstrap THEN "Unauthenticated"
  ELSE IF spec = NoCommit THEN "Unavailable"
  ELSE "OK"

(* The checks at the top of Register, in order. *)
RegisterCode(req) ==
  IF req.name = "" \/ req.public_key = "" THEN "InvalidArgument"
  ELSE IF ~req.bootstrap THEN "Unauthenticated"
  ELSE IF spec = NoCommit THEN "Unavailable"
  ELSE IF resolveRole(DocAt[spec], req.name) = "UNSPECIFIED" THEN "PermissionDenied"
  ELSE "OK"

RegisterRejected(c, req) ==
  /\ call[c].step = "idle"
  /\ RegisterCode(req) # "OK"
  /\ call' = [call EXCEPT ![c] = Reply(RegisterCode(req))]
  /\ UNCHANGED <<agents, spec, clock, issued, spent>>

(* A hub that advertises nothing gets the endpoint the spec declares. *)
RegisterEndpoint(req) ==
  IF resolveRole(DocAt[spec], req.name) = "HUB" /\ req.endpoint = ""
  THEN FindHub(DocAt[spec], req.name).endpoint
  ELSE req.endpoint

(* The rest of Register up to the call of UpsertAgent. *)
RegisterPrepared(c, req) ==
  LET k == Len(issued) + 1
  IN  /\ call[c].step = "idle"
      /\ RegisterCode(req) = "OK"
      /\ k <= MaxRegs
      /\ issued' = Append(issued, [name |-> req.name, public_key |-> req.public_key, at |-> clock,
                                   role |-> resolveRole(DocAt[spec], req.name)])
      /\ call' = [call EXCEPT ![c] = [Idle EXCEPT
           !.step = "upsert",
           !.row = [id |-> k, name |-> req.name, public_key |-> req.public_key,
                    endpoint |-> RegisterEndpoint(req), auth_token_hash |-> HashToken(k),
                    created_at |-> clock, last_seen_at |-> clock]]]
      /\ UNCHANGED <<agents, spec, clock, spent>>

(* Mutant of RegisterUpserts: the statement is retried after it committed. *)
RegisterUpsertsAgain(c) ==
  /\ call[c].step = "upsert"
  /\ agents' = UpsertAgent(agents, call[c].row)
  /\ spent' = spent \cup {call[c].row.id}
  /\ call' \in {call, [call EXCEPT ![c] = Reply("OK")]}
  /\ UNCHANGED <<spec, clock, issued>>

RegisterUpserts(c) ==
  /\ call[c].step = "upsert"
  /\ agents' = UpsertAgent(agents, call[c].row)
  /\ spent' = spent \cup {call[c].row.id}
  /\ call' = [call EXCEPT ![c] = Reply("OK")]
  /\ UNCHANGED <<spec, clock, issued>>

-----------------------------------------------------------------------------
(* Heartbeat, behind AuthInterceptor.                                      *)

(* A usable authorization header wins over x-seine-token; a header that is *)
(* no longer than "Bearer " or has another scheme is passed over.  The     *)
(* result is the set of tokens found, at most one.                         *)
tokenFromMetadata(md) ==
  IF md.authorization.kind = "bearer" THEN {md.authorization.token}
  ELSE IF md.xtoken.kind = "bearer" THEN {md.xtoken.token}
  ELSE {}

AuthRejected(c, md) ==
  /\ call[c].step = "idle"
  /\ \A tok \in tokenFromMetadata(md) : AuthenticateByTokenHash(agents, HashToken(tok)) = {}
  /\ call' = [call EXCEPT ![c] = Reply("Unauthenticated")]
  /\ UNCHANGED <<agents, spec, clock, issued, spent>>

(* Heartbeat is entered with the caller in its context. *)
Authenticated(id, tok, endpoint) ==
  [step |-> "current", row |-> NoRow, token |-> tok, caller |-> id, endpoint |-> endpoint,
   at |-> 0, commit |-> NoCommit, code |-> "", peers |-> {}]

AuthAccepted(c, md, endpoint) ==
  /\ call[c].step = "idle"
  /\ \E tok \in tokenFromMetadata(md) :
       \E a \in AuthenticateByTokenHash(agents, HashToken(tok)) :
         call' = [call EXCEPT ![c] = Authenticated(a.id, tok, endpoint)]
  /\ UNCHANGED <<agents, spec, clock, issued, spent>>

(* Spec.Current, then time.Now. *)
HeartbeatReadsSpec(c) ==
  /\ call[c].step = "current"
  /\ call' = [call EXCEPT ![c] =
                IF spec = NoCommit THEN Reply("Unavailable")
                ELSE [@ EXCEPT !.step = "update", !.commit = spec, !.at = clock]]
  /\ UNCHANGED <<agents, spec, clock, issued, spent>>

(* Mutant of HeartbeatUpdates: the row is looked up by name. *)
HeartbeatUpdatesByName(c) ==
  /\ call[c].step = "update"
  /\ LET n == issued[call[c].caller].name
     IN  agents' = IF n \in DOMAIN agents
                   THEN UpdateHeartbeat(agents, agents[n].id, call[c].endpoint, call[c].at)
                   ELSE agents
  /\ call' = [call EXCEPT ![c].step = "list"]
  /\ UNCHANGED <<spec, clock, issued, spent>>

HeartbeatUpdates(c) ==
  /\ call[c].step = "update"
  /\ agents' = UpdateHeartbeat(agents, call[c].caller, call[c].endpoint, call[c].at)
  /\ call' = [call EXCEPT ![c].step = "list"]
  /\ UNCHANGED <<spec, clock, issued, spent>>

(* The entry of one row in the reply of call h. *)
PeerInfo(h, a) ==
  [name |-> a.name, public_key |-> a.public_key,
   endpoint |-> IF a.id = h.caller /\ h.endpoint # "" THEN h.endpoint ELSE a.endpoint,
   tunnel_ip |-> tunnelIPFor(DocAt[h.commit], a.name),
   last_seen |-> a.last_seen_at,
   role |-> resolveRole(DocAt[h.commit], a.name)]

(* Rows whose name the spec no longer declares are left out. *)
HeartbeatReply(h, rows) ==
  {PeerInfo(h, a) : a \in {r \in rows : resolveRole(DocAt[h.commit], r.name) # "UNSPECIFIED"}}

(* Mutant of HeartbeatLists: the commit is read again for the reply. *)
HeartbeatListsAfresh(c) ==
  /\ call[c].step = "list"
  /\ call' = [call EXCEPT ![c] =
                [Reply("OK") EXCEPT !.commit = IF spec = NoCommit THEN call[c].commit ELSE spec,
                                    !.peers = HeartbeatReply(call[c], ListAgents(agents))]]
  /\ UNCHANGED <<agents, spec, clock, issued, spent>>

HeartbeatLists(c) ==
  /\ call[c].step = "list"
  /\ call' = [call EXCEPT ![c] =
                [Reply("OK") EXCEPT !.commit = call[c].commit,
                                    !.peers = HeartbeatReply(call[c], ListAgents(agents))]]
  /\ UNCHANGED <<agents, spec, clock, issued, spent>>

(* A statement fails, or the draw of the next call's random bytes does. *)
Fails(c) ==
  /\ call[c].step \in {"idle", "upsert", "update", "list"}
  /\ call' = [call EXCEPT ![c] = Reply("Internal")]
  /\ UNCHANGED <<agents, spec, clock, issued, spent>>

(* The reply leaves, whether or not the client still waits for it. *)
Return(c) ==
  /\ call[c].step = "replied"
  /\ call' = [call EXCEPT ![c] = Idle]
  /\ UNCHANGED <<agents, spec, clock, issued, spent>>

-----------------------------------------------------------------------------
(* The server process and its surroundings.                                *)

(* The server's watcher swaps in another commit (SpecSource!Swap). *)
SpecChanges(c) ==
  /\ spec # c
  /\ spec' = c
  /\ UNCHANGED <<agents, clock, call, issued, spent>>

(* The process stops or crashes and store.Open runs again.  wiped: the     *)
(* database file was removed meanwhile.                                    *)
ServerRestart(wiped) ==
  /\ agents' = IF wiped THEN EmptyTable ELSE agents
  /\ spec' = NoCommit
  /\ call' = [c \in Calls |-> Idle]
  /\ UNCHANGED <<clock, issued, spent>>

ClockTick ==
  /\ clock < MaxTime
  /\ clock' = clock + 1
  /\ UNCHANGED <<agents, spec, call, issued, spent>>

Requests == [name : Names \cup {""}, public_key : Keys \cup {""},
             endpoint : Endpoints \cup {""}, bootstrap : BOOLEAN]

(* Tokens a client can present: handed out once, or unknown. *)
Headers == [kind : {"bearer"}, token : spent \cup {0}] \cup [kind : {"absent"}, token : {0}]
Metadata == [authorization : Headers, xtoken : Headers]

Register(c) ==
  \/ \E req \in Requests : RegisterRejected(c, req) \/ RegisterPrepared(c, req)
  \/ RegisterUpserts(c)

Heartbeat(c) ==
  \/ \E md \in Metadata : AuthRejected(c, md)
  \/ \E md \in Metadata, ep \in Endpoints \cup {""} : AuthAccepted(c, md, ep)
  \/ HeartbeatReadsSpec(c)
  \/ HeartbeatUpdates(c)
  \/ HeartbeatLists(c)

Next ==
  \/ \E c \in Calls : Register(c) \/ Heartbeat(c) \/ Fails(c) \/ Return(c)
  \/ \E c \in Commits : SpecChanges(c)
  \/ \E wiped \in BOOLEAN : ServerRestart(wiped)
  \/ ClockTick

Spec == Init /\ [][Next]_vars

-----------------------------------------------------------------------------
TunnelIPs == {tunnelIPFor(DocAt[c], n) : c \in Commits, n \in Names}

PeerInfos == [name : Names, public_key : Keys, endpoint : TableEndpoints,
              tunnel_ip : TunnelIPs, last_seen : 1..MaxTime,
              role : {"HUB", "SPOKE"}]

CallType ==
  [step : {"idle", "upsert", "current", "update", "list", "replied"},
   row : Row \cup {NoRow}, token : 0..MaxRegs, caller : 0..MaxRegs,
   endpoint : Endpoints \cup {""}, at : 0..MaxTime, commit : Commits \cup {NoCommit},
   code : {"", "OK", "InvalidArgument", "Unauthenticated", "Unavailable",
           "PermissionDenied", "Internal"},
   peers : SUBSET PeerInfos]

(* Every variable and every field of a call stays in its range. *)
TypeOK ==
  /\ DOMAIN agents \subseteq Names
  /\ agents \in [DOMAIN agents -> Row]
  /\ spec \in Commits \cup {NoCommit}
  /\ clock \in 1..MaxTime
  /\ call \in [Calls -> CallType]
  /\ issued \in Seq([name : Names, public_key : Keys, at : 1..MaxTime, role : {"HUB", "SPOKE"}])
  /\ Len(issued) <= MaxRegs
  /\ spent \subseteq Drawn

(* A row is never a mixture of two registrations: its ID, its token, its   *)
(* key and its name were all brought by one and the same Register call,    *)
(* however calls for the same name interleave (UpsertAgent).               *)
RowsAreWhole ==
  \A n \in DOMAIN agents :
    LET k == agents[n].id
    IN  /\ k \in Drawn
        /\ agents[n].auth_token_hash = HashToken(k)
        /\ agents[n].name = n /\ issued[k].name = n
        /\ agents[n].public_key = issued[k].public_key

(* A heartbeat that authenticated before its agent was re-registered, and  *)
(* reaches the database after, leaves the new registration alone: the      *)
(* UPDATE of a call changes at most the row its own token still opens.     *)
HeartbeatTouchesOwnRow ==
  [][\A c \in Calls :
       HeartbeatUpdates(c) =>
         \A n \in DOMAIN agents :
           agents'[n] # agents[n] => agents[n].auth_token_hash = HashToken(call[c].token)]_vars

(* The time shown for a peer is never from before its present registration *)
(* was made: no late heartbeat of a superseded registration shines         *)
(* through in last_seen_at.                                                *)
SeenSinceRegistered ==
  \A n \in DOMAIN agents : agents[n].last_seen_at >= issued[agents[n].id].at

(* A name that was a hub when it registered keeps a dialable endpoint:     *)
(* Register falls back to the spec's, and no heartbeat, which may carry an *)
(* empty endpoint, takes it away.                                          *)
HubKeepsEndpoint ==
  \A n \in DOMAIN agents : issued[agents[n].id].role = "HUB" => agents[n].endpoint # ""

(* A reply is a consistent picture: roles and tunnel IPs of all entries    *)
(* are those of the very commit the reply names, names not declared there  *)
(* are hidden, and no name appears twice, even when the watcher swapped    *)
(* the spec or agents re-registered while the call was running.            *)
ReplyMatchesCommit ==
  \A c \in Calls : call[c].step = "replied" =>
    LET d == DocAt[call[c].commit]
    IN  /\ \A p \in call[c].peers : /\ p.role = resolveRole(d, p.name)
                                    /\ p.role # "UNSPECIFIED"
                                    /\ p.tunnel_ip = tunnelIPFor(d, p.name)
        /\ \A p, q \in call[c].peers : p.name = q.name => p = q

(* What the protocol says of PeerInfo.endpoint, "May be empty for spokes": *)
(* the entry of a hub carries an endpoint.                                 *)
HubsInReplyHaveEndpoint ==
  \A c \in Calls : \A p \in call[c].peers : p.role = "HUB" => p.endpoint # ""

-----------------------------------------------------------------------------
(* The server implements Registry: a token hash is the credential, IDs and *)
(* calls in flight are not visible, and each handler takes effect at its   *)
(* one writing statement.                                                  *)
R == INSTANCE Registry WITH
       Name <- Names, Key <- Keys, Endpoint <- TableEndpoints,
       Cred <- {HashToken(k) : k \in 1..MaxRegs}, Time <- 1..MaxTime,
       reg <- [n \in DOMAIN agents |->
                 [key |-> agents[n].public_key, endpoint |-> agents[n].endpoint,
                  cred |-> agents[n].auth_token_hash,
                  since |-> agents[n].created_at, seen |-> agents[n].last_seen_at]],
       spent <- {HashToken(k) : k \in spent}

(* Every behaviour of the handlers and the store is one of Registry. *)
ImplementsRegistry == R!RegSpec

(* Inherited from Registry: a bearer token that was replaced, or lost with *)
(* the database, never authenticates again.                                *)
SupersededTokenStaysDead == R!SupersededStaysDead
=============================================================================
