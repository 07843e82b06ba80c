--------------------------- MODULE AgentIdentity ----------------------------
(***************************************************************************)
(* Who an agent is: the private key and the auth token in its state        *)
(* directory (internal/wg keys.go; internal/agentcore loadOrRegister,      *)
(* registerWithRetry, register and the re-registration in reconcileOnce),  *)
(* against the server's registry, under crashes, lost replies, failed      *)
(* writes, a lost database and hosts that were given the same name.        *)
(*                                                                         *)
(* A host is a state directory with the process that may run on it.  Of a  *)
(* token only matters whether the registry still holds its hash: "live" or *)
(* "dead", a truncated one included.  A token is live from the Register    *)
(* that returns it and never again once it was replaced                    *)
(* (Registry!SupersededStaysDead, which ControlPlane implements).          *)
(***************************************************************************)
EXTENDS Naturals, Sequences, FiniteSets, Functions

CONSTANTS Hosts,       \* state directories
          NameOf,      \* --name of each
          DeclaredAt,  \* the names declared by each commit, oldest first
          MaxFaults    \* bound: faults of all kinds together

ASSUME HostsAssumption == NameOf \in [Hosts -> Range(NameOf)]
ASSUME CommitsAssumption == DeclaredAt \in Seq(SUBSET Range(NameOf)) /\ DeclaredAt # <<>>
ASSUME FaultsAssumption == MaxFaults \in Nat

Names == Range(NameOf)
Files == {"key", "token"}
Commits == 1..Len(DeclaredAt)
Namesakes(h) == {g \in Hosts : NameOf[g] = NameOf[h]}

(* Keys are drawn at random: a new one differs from all that are in use. *)
Keys == Hosts \X (1..(MaxFaults + 2))
NoKey == <<>>
Unreadable == <<"unreadable">>

VARIABLES
  head,       \* the commit at the tip of the repository
  spec,       \* the commit the server has cached, 0 for none
  row,        \* the registry: name -> registered public key or NoKey
  strays,     \* Register calls in the server whose client is gone
  wanted,     \* hosts the operator wants to run
  boot,       \* hosts that are configured with the bootstrap token
  pc,         \* where the process of a host is
  up,         \* the process has reached reconcileLoop
  view,       \* the commit its own watcher has cached so far, 0 for none (and
              \* in the loop, where it no longer matters)
  key,        \* a.keypair
  token,      \* a.authToken
  keyFile,    \* private.key
  tokenFile,  \* auth.token
  faults,     \* faults so far
  adrift      \* history: hosts that lost private.key beside a token the server
              \* accepts, and have not registered since

server == <<head, spec, row, strays>>
operator == <<wanted, boot>>
memory == <<pc, up, view, key, token>>
disk == <<keyFile, tokenFile>>
vars == <<server, operator, memory, disk, faults, adrift>>

Init ==
  /\ head = 1 /\ spec = 0 /\ row = [n \in Names |-> NoKey] /\ strays = {}
  /\ wanted = Hosts /\ boot = Hosts
  /\ pc = [h \in Hosts |-> "down"] /\ up = [h \in Hosts |-> FALSE]
  /\ view = [h \in Hosts |-> 0]
  /\ key = [h \in Hosts |-> NoKey] /\ token = [h \in Hosts |-> "none"]
  /\ keyFile = [h \in Hosts |-> NoKey] /\ tokenFile = [h \in Hosts |-> "none"]
  /\ faults = 0 /\ adrift = {}

Fault == faults < MaxFaults /\ faults' = faults + 1

-----------------------------------------------------------------------------
(* The server: Register and the registry.                                  *)

RegisterCode(n) ==
  IF spec = 0 THEN "Unavailable"
  ELSE IF n \notin DeclaredAt[spec] THEN "PermissionDenied"
  ELSE "OK"

(* The tokens f of the hosts after another one was stored under n. *)
Superseded(f, n) ==
  [h \in Hosts |-> IF NameOf[h] = n /\ f[h] = "live" THEN "dead" ELSE f[h]]

(* The upsert of a call that lost its client. *)
StrayUpserts(s) ==
  /\ s \in strays
  /\ strays' = strays \ {s}
  /\ row' = [row EXCEPT ![s.name] = s.key]
  /\ token' = Superseded(token, s.name) /\ tokenFile' = Superseded(tokenFile, s.name)
  /\ UNCHANGED <<head, spec, operator, pc, up, view, key, keyFile, faults, adrift>>

(* Its context was cancelled in time. *)
StrayCancelled(s) ==
  /\ s \in strays
  /\ strays' = strays \ {s}
  /\ UNCHANGED <<head, spec, row, operator, memory, disk, faults, adrift>>

ServerPulls ==
  /\ spec # head
  /\ spec' = head
  /\ UNCHANGED <<head, row, strays, operator, memory, disk, faults, adrift>>

(* A call that fails is retried at startup and dropped by reconcileOnce. *)
AfterFailure(h) == IF up[h] THEN "loop" ELSE "register"

(* The server restarts, without its database if wiped. *)
ServerRestarts(wiped) ==
  /\ Fault
  /\ spec' = 0 /\ strays' = {}
  /\ pc' = [h \in Hosts |-> IF pc[h] = "calling" THEN AfterFailure(h) ELSE pc[h]]
  /\ IF wiped
     THEN /\ row' = [n \in Names |-> NoKey]
          /\ token' = [h \in Hosts |-> IF token[h] = "live" THEN "dead" ELSE token[h]]
          /\ tokenFile' = [h \in Hosts |-> IF tokenFile[h] = "live" THEN "dead" ELSE tokenFile[h]]
     ELSE UNCHANGED <<row, token, tokenFile>>
  /\ UNCHANGED <<head, operator, up, view, key, keyFile, adrift>>

Push ==
  /\ head < Len(DeclaredAt)
  /\ head' = head + 1
  /\ UNCHANGED <<spec, row, strays, operator, memory, disk, faults, adrift>>

-----------------------------------------------------------------------------
(* The agent.                                                              *)

(* What the end of the process leaves of its memory. *)
Exit(h) ==
  /\ pc' = [pc EXCEPT ![h] = "down"] /\ up' = [up EXCEPT ![h] = FALSE]
  /\ view' = [view EXCEPT ![h] = 0]
  /\ key' = [key EXCEPT ![h] = NoKey] /\ token' = [token EXCEPT ![h] = "none"]

FreshKeys(h) ==
  LET used == Range(row) \cup {s.key : s \in strays} \cup Range(keyFile)
      free == {g \in 1..(MaxFaults + 2) : <<h, g>> \notin used}
  IN  {<<h, g>> : g \in {m \in free : \A l \in free : m <= l}}

(* Mutants of LoadOrGenerate: the file is not read, or not parsed. *)
AlwaysGenerate(h) == FreshKeys(h)

LoadUnparsed(h) == IF keyFile[h] # NoKey THEN {keyFile[h]} ELSE FreshKeys(h)

(* The key LoadOrGenerate returns; none for a file it cannot parse. *)
LoadOrGenerate(h) ==
  IF keyFile[h] = Unreadable THEN {}
  ELSE IF keyFile[h] # NoKey THEN {keyFile[h]}
  ELSE FreshKeys(h)

(* Run up to the end of loadOrRegister, or to the first attempt of         *)
(* registerWithRetry.  Without either token it returns an error.           *)
Start(h) ==
  /\ pc[h] = "down" /\ h \in wanted
  /\ \E k \in LoadOrGenerate(h) :
       /\ keyFile' = [keyFile EXCEPT ![h] = k]
       /\ IF tokenFile[h] = "none" /\ h \notin boot
          THEN UNCHANGED memory
          ELSE /\ key' = [key EXCEPT ![h] = k]
               /\ token' = [token EXCEPT ![h] = tokenFile[h]]
               /\ pc' = [pc EXCEPT ![h] = IF tokenFile[h] = "none" THEN "register" ELSE "await"]
               /\ UNCHANGED <<up, view>>
  /\ UNCHANGED <<server, operator, tokenFile, faults, adrift>>

(* The process dies in LoadOrGenerate, or the file cannot be written. *)
KeyNotWritten(h) ==
  /\ Fault
  /\ pc[h] = "down" /\ h \in wanted /\ keyFile[h] = NoKey
  /\ keyFile' = [keyFile EXCEPT ![h] = Unreadable]
  /\ UNCHANGED <<server, operator, memory, tokenFile, adrift>>

(* Mutant of CallsRegister: a heartbeat never leads to it. *)
RegisterAtStartup(h) == pc[h] = "register"

(* register is entered at startup, or when a heartbeat with a token that   *)
(* the server does not know came back Unauthenticated.                     *)
CallsRegister(h) ==
  \/ pc[h] = "register"
  \/ pc[h] = "loop" /\ token[h] # "live" /\ h \in boot

RegisterAccepted(h) ==
  /\ CallsRegister(h)
  /\ RegisterCode(NameOf[h]) = "OK"
  /\ pc' = [pc EXCEPT ![h] = "calling"]
  /\ UNCHANGED <<server, operator, up, view, key, token, disk, faults, adrift>>

(* registerWithRetry gives up; every other error is followed by another    *)
(* attempt, and changes nothing.                                           *)
RegisterAborts(h) ==
  /\ pc[h] = "register"
  /\ RegisterCode(NameOf[h]) = "PermissionDenied"
  /\ Exit(h)
  /\ UNCHANGED <<server, operator, disk, faults, adrift>>

(* Mutant of Registered: a.authToken keeps its old value. *)
RegisteredForgets(h) ==
  /\ pc[h] = "calling"
  /\ row' = [row EXCEPT ![NameOf[h]] = key[h]]
  /\ token' = [Superseded(token, NameOf[h]) EXCEPT ![h] = "dead"]
  /\ tokenFile' = Superseded(tokenFile, NameOf[h])
  /\ pc' = [pc EXCEPT ![h] = "persist"]
  /\ adrift' = adrift \ {h}
  /\ UNCHANGED <<head, spec, strays, operator, up, view, key, keyFile, faults>>

(* UpsertAgent commits and the reply arrives. *)
Registered(h) ==
  /\ pc[h] = "calling"
  /\ row' = [row EXCEPT ![NameOf[h]] = key[h]]
  /\ token' = [Superseded(token, NameOf[h]) EXCEPT ![h] = "live"]
  /\ tokenFile' = Superseded(tokenFile, NameOf[h])
  /\ pc' = [pc EXCEPT ![h] = "persist"]
  /\ adrift' = adrift \ {h}
  /\ UNCHANGED <<head, spec, strays, operator, up, view, key, keyFile, faults>>

Stray(h) == IF pc[h] = "calling" THEN {[name |-> NameOf[h], key |-> key[h]]} ELSE {}

(* The connection breaks before the reply arrives, which may be after the  *)
(* upsert (StrayUpserts follows).                                          *)
ReplyLost(h) ==
  /\ Fault
  /\ pc[h] = "calling"
  /\ strays' = strays \cup Stray(h)
  /\ pc' = [pc EXCEPT ![h] = AfterFailure(h)]
  /\ UNCHANGED <<head, spec, row, operator, up, view, key, token, disk, adrift>>

Persisted(h) ==
  /\ pc[h] = "persist"
  /\ tokenFile' = [tokenFile EXCEPT ![h] = token[h]]
  /\ pc' = [pc EXCEPT ![h] = IF up[h] THEN "loop" ELSE "await"]
  /\ UNCHANGED <<server, operator, up, view, key, token, keyFile, faults, adrift>>

(* WriteFile fails, before or after it has truncated the file. *)
NotPersisted(h) ==
  /\ Fault
  /\ pc[h] = "persist"
  /\ \E left \in {tokenFile[h], "dead"} : tokenFile' = [tokenFile EXCEPT ![h] = left]
  /\ pc' = [pc EXCEPT ![h] = AfterFailure(h)]
  /\ UNCHANGED <<server, operator, up, view, key, token, keyFile, adrift>>

Pull(h) ==
  /\ pc[h] # "down" /\ ~up[h] /\ view[h] # head
  /\ view' = [view EXCEPT ![h] = head]
  /\ UNCHANGED <<server, operator, pc, up, key, token, disk, faults, adrift>>

(* waitForFirstSpec returns; FindSelf decides. *)
FirstSpec(h) ==
  /\ pc[h] = "await" /\ view[h] # 0
  /\ IF NameOf[h] \in DeclaredAt[view[h]]
     THEN /\ pc' = [pc EXCEPT ![h] = "loop"] /\ up' = [up EXCEPT ![h] = TRUE]
          /\ view' = [view EXCEPT ![h] = 0]
          /\ UNCHANGED <<key, token>>
     ELSE Exit(h)
  /\ UNCHANGED <<server, operator, disk, faults, adrift>>

(* The repository is out of reach for all of SpecFirstLoadTimeout. *)
SpecTimeout(h) ==
  /\ Fault
  /\ pc[h] = "await" /\ view[h] = 0
  /\ Exit(h)
  /\ UNCHANGED <<server, operator, disk, adrift>>

(* What a process that dies now may leave in auth.token. *)
TokenFileAfter(h) ==
  {tokenFile[h]} \cup IF pc[h] = "persist" THEN {"dead", token[h]} ELSE {}

Dies(h) ==
  /\ pc[h] # "down"
  /\ Exit(h)
  /\ strays' = strays \cup Stray(h)
  /\ \E left \in TokenFileAfter(h) : tokenFile' = [tokenFile EXCEPT ![h] = left]
  /\ UNCHANGED <<head, spec, row, boot, keyFile, adrift>>

Crash(h) == Fault /\ Dies(h) /\ UNCHANGED wanted

-----------------------------------------------------------------------------
(* The operator.                                                           *)

(* The host is taken out of service for good. *)
Retire(h) == Dies(h) /\ wanted' = wanted \ {h} /\ UNCHANGED faults

(* --bootstrap-token is left out of the next start. *)
DropBootstrap(h) ==
  /\ pc[h] = "down" /\ h \in boot \cap wanted
  /\ boot' = boot \ {h}
  /\ UNCHANGED <<server, wanted, memory, disk, faults, adrift>>

(* The key alone, the token alone, or both. *)
LoseFiles(h, files) ==
  /\ Fault
  /\ pc[h] = "down" /\ h \in wanted
  /\ adrift' = IF files = {"key"} /\ tokenFile[h] = "live" THEN adrift \cup {h} ELSE adrift
  /\ keyFile' = IF "key" \in files THEN [keyFile EXCEPT ![h] = NoKey] ELSE keyFile
  /\ tokenFile' = IF "token" \in files THEN [tokenFile EXCEPT ![h] = "none"] ELSE tokenFile
  /\ UNCHANGED <<server, operator, memory>>

Next ==
  \/ \E s \in strays : StrayUpserts(s) \/ StrayCancelled(s)
  \/ ServerPulls \/ Push
  \/ \E wiped \in BOOLEAN : ServerRestarts(wiped)
  \/ \E h \in Hosts :
       \/ Start(h) \/ KeyNotWritten(h)
       \/ RegisterAccepted(h) \/ RegisterAborts(h) \/ Registered(h) \/ ReplyLost(h)
       \/ Persisted(h) \/ NotPersisted(h)
       \/ Pull(h) \/ FirstSpec(h) \/ SpecTimeout(h)
       \/ Crash(h) \/ Retire(h) \/ DropBootstrap(h)
       \/ \E files \in (SUBSET Files) \ {{}} : LoseFiles(h, files)

Spec == Init /\ [][Next]_vars

(* The supervisor restarts what the operator wants to run (restart:        *)
(* unless-stopped), tickers fire, calls return, watchers go on polling.    *)
Fairness ==
  /\ WF_vars(ServerPulls)
  /\ \A h \in Hosts :
       /\ WF_vars(Start(h)) /\ WF_vars(Pull(h)) /\ WF_vars(FirstSpec(h))
       /\ WF_vars(RegisterAccepted(h)) /\ WF_vars(RegisterAborts(h))
       /\ WF_vars(Registered(h)) /\ WF_vars(Persisted(h))

FairSpec == Spec /\ Fairness

-----------------------------------------------------------------------------
Token == {"none", "live", "dead"}

(* Every variable stays in its range. *)
TypeOK ==
  /\ head \in Commits /\ spec \in Commits \cup {0}
  /\ row \in [Names -> Keys \cup {NoKey}]
  /\ strays \subseteq [name : Names, key : Keys]
  /\ wanted \subseteq Hosts /\ boot \subseteq Hosts
  /\ pc \in [Hosts -> {"down", "register", "calling", "persist", "await", "loop"}]
  /\ up \in [Hosts -> BOOLEAN] /\ view \in [Hosts -> Commits \cup {0}]
  /\ key \in [Hosts -> Keys \cup {NoKey}] /\ token \in [Hosts -> Token]
  /\ keyFile \in [Hosts -> Keys \cup {NoKey, Unreadable}]
  /\ tokenFile \in [Hosts -> Token]
  /\ faults \in 0..MaxFaults /\ adrift \subseteq Hosts

(* A token that authenticates speaks for the key pair beside it: while the *)
(* server accepts the token a host holds in memory or on disk, the public  *)
(* key it hands out under the host's name is that of the private key of    *)
(* this very host, whatever was cut short, lost together or replaced by a  *)
(* namesake in between.  The one exception is a host that has lost         *)
(* private.key alone: loadOrRegister goes on with the token beside the new *)
(* pair, and only the next registration ends this.                         *)
TokenSpeaksForKey ==
  \A h \in Hosts \ adrift :
    /\ token[h] = "live" => row[NameOf[h]] = key[h]
    /\ tokenFile[h] = "live" => row[NameOf[h]] = keyFile[h]

Enrolled(h) ==
  pc[h] = "loop" /\ token[h] = "live" /\ row[NameOf[h]] = key[h]

(* The operator runs the host with the bootstrap token and declares it. *)
Served(h) == h \in boot \cap wanted /\ NameOf[h] \in DeclaredAt[head]

Readable(h) == keyFile[h] # Unreadable

(* agent.go, "re-register transparently so the agent self-heals without    *)
(* operator action": a host that has the bootstrap token and its name for  *)
(* itself ends up enrolled with its own key, and stays so, whatever tokens,*)
(* replies, files or databases were lost on the way.  Two things keep it   *)
(* out: a private.key that was cut short, and a private.key that was lost  *)
(* alone, for as long as the server accepts the token that was left.       *)
SelfHeals ==
  \A h \in Hosts :
    <>[](Served(h) /\ wanted \cap Namesakes(h) = {h})
      => <>[](Readable(h) /\ ~(h \in adrift /\ tokenFile[h] = "live") => Enrolled(h))

(* Two hosts under one name take it from each other, but none is shut out: *)
(* each of them that is wanted and has the bootstrap token is accepted     *)
(* again and again.                                                        *)
NamesakesTakeTurns ==
  \A h \in Hosts :
    <>[]Served(h) => []<>(Readable(h) => token[h] = "live")

(* controlplane.proto, "Re-registration with the same name overwrites the  *)
(* public key - this is the recovery path when an agent loses its keypair":*)
(* a host that runs with the bootstrap token and its name for itself comes *)
(* to be registered with the key it has.  The code does not keep this: a   *)
(* token that is found on disk is used without a look at the key, so there *)
(* is no re-registration after a loss of private.key alone.                *)
LostKeypairRecovers ==
  \A h \in Hosts :
    <>[](Served(h) /\ wanted \cap Namesakes(h) = {h})
      => <>[](Readable(h) => row[NameOf[h]] = keyFile[h])
=============================================================================
