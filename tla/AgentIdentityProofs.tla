------------------------ MODULE AgentIdentityProofs -------------------------
(***************************************************************************)
(* TypeOK and TokenSpeaksForKey of AgentIdentity, for every number of      *)
(* hosts, names, commits and faults.  TokenSpeaksForKey is not inductive:  *)
(* a token is written next to a key file that was written earlier, and     *)
(* read with it after a restart.  KeyOnDisk says what links the two.       *)
(***************************************************************************)
EXTENDS AgentIdentity, TLAPS

(* A running process has the key of its private.key, and no token that the *)
(* server accepts lies in a directory without one, unless the key was lost *)
(* from beside it.                                                         *)
KeyOnDisk ==
  \A h \in Hosts :
    /\ pc[h] # "down" => key[h] = keyFile[h] /\ key[h] # NoKey
    /\ tokenFile[h] = "live" => keyFile[h] # NoKey \/ h \in adrift

Inv == TypeOK /\ TokenSpeaksForKey /\ KeyOnDisk

(* What LoadOrGenerate returns is a key: the one on disk if there is one.  *)
LEMMA LoadedKey ==
  ASSUME TypeOK, NEW h \in Hosts, NEW k \in LoadOrGenerate(h)
  PROVE  /\ k \in Keys /\ k # NoKey
         /\ keyFile[h] # NoKey => k = keyFile[h]
<1>1. CASE keyFile[h] # NoKey
  BY <1>1 DEF TypeOK, LoadOrGenerate
<1>2. CASE keyFile[h] = NoKey
  <2>1. k \in FreshKeys(h)
    BY <1>2 DEF LoadOrGenerate, NoKey, Unreadable
  <2>2. PICK g \in 1..(MaxFaults + 2) : k = <<h, g>>
    BY <2>1 DEF FreshKeys
  <2>3. QED  BY <1>2, <2>2 DEF Keys, NoKey
<1>3. QED  BY <1>1, <1>2

(* Names of hosts are names. *)
LEMMA NameType == \A h \in Hosts : NameOf[h] \in Names
BY HostsAssumption DEF Names

(* Superseding tokens keeps the type and kills the live ones of the name.  *)
LEMMA SupersededTokens ==
  ASSUME NEW f \in [Hosts -> Token], NEW n
  PROVE  /\ Superseded(f, n) \in [Hosts -> Token]
         /\ \A h \in Hosts : Superseded(f, n)[h] = "live" => f[h] = "live" /\ NameOf[h] # n
BY DEF Superseded, Token

(* Init establishes the invariant. *)
LEMMA InitInv == Init => Inv
<1> SUFFICES ASSUME Init PROVE Inv  OBVIOUS
<1>1. TypeOK
  BY HostsAssumption, CommitsAssumption, FaultsAssumption
     DEF Init, TypeOK, Commits, Token
<1>2. TokenSpeaksForKey /\ KeyOnDisk
  BY DEF Init, TokenSpeaksForKey, KeyOnDisk
<1>3. QED  BY <1>1, <1>2 DEF Inv

(* What the process holds is gone with it; the rest of its host stays.     *)
LEMMA ExitKeeps ==
  ASSUME TypeOK, NEW h \in Hosts, Exit(h)
  PROVE  /\ pc' \in [Hosts -> {"down", "register", "calling", "persist", "await", "loop"}]
         /\ up' \in [Hosts -> BOOLEAN] /\ view' \in [Hosts -> Commits \cup {0}]
         /\ key' \in [Hosts -> Keys \cup {NoKey}] /\ token' \in [Hosts -> Token]
         /\ token'[h] = "none" /\ pc'[h] = "down"
         /\ \A g \in Hosts \ {h} : pc'[g] = pc[g] /\ key'[g] = key[g] /\ token'[g] = token[g]
BY DEF TypeOK, Exit, Token

(* Every step keeps the types; a call in flight carries a key. *)
LEMMA NextType == TypeOK /\ KeyOnDisk /\ [Next]_vars => TypeOK'
<1> SUFFICES ASSUME TypeOK, KeyOnDisk, [Next]_vars PROVE TypeOK'  OBVIOUS
<1> USE DEF server, operator, memory, disk
<1>1. CASE UNCHANGED vars
  BY <1>1 DEF TypeOK, vars
<1>2. ASSUME NEW s \in strays, StrayUpserts(s) PROVE TypeOK'
  <2>1. token' \in [Hosts -> Token] /\ tokenFile' \in [Hosts -> Token]
    BY <1>2, SupersededTokens DEF TypeOK, StrayUpserts
  <2>2. row' \in [Names -> Keys \cup {NoKey}]
    BY <1>2 DEF TypeOK, StrayUpserts
  <2>3. QED  BY <1>2, <2>1, <2>2 DEF TypeOK, StrayUpserts
<1>3. ASSUME NEW s \in strays, StrayCancelled(s) PROVE TypeOK'
  BY <1>3 DEF TypeOK, StrayCancelled
<1>4. CASE ServerPulls
  BY <1>4 DEF TypeOK, ServerPulls
<1>5. CASE Push
  BY <1>5, CommitsAssumption DEF TypeOK, Push, Commits
<1>6. ASSUME NEW wiped \in BOOLEAN, ServerRestarts(wiped) PROVE TypeOK'
  <2>1. /\ row' \in [Names -> Keys \cup {NoKey}]
        /\ token' \in [Hosts -> Token] /\ tokenFile' \in [Hosts -> Token]
    BY <1>6 DEF TypeOK, ServerRestarts, Token
  <2>2. pc' \in [Hosts -> {"down", "register", "calling", "persist", "await", "loop"}]
    BY <1>6 DEF TypeOK, ServerRestarts, AfterFailure
  <2>3. QED  BY <1>6, <2>1, <2>2, FaultsAssumption DEF TypeOK, ServerRestarts, Fault
<1>7. ASSUME NEW h \in Hosts, Start(h) PROVE TypeOK'
  <2>1. PICK k \in LoadOrGenerate(h) :
          /\ keyFile' = [keyFile EXCEPT ![h] = k]
          /\ \/ UNCHANGED memory
             \/ /\ key' = [key EXCEPT ![h] = k]
                /\ token' = [token EXCEPT ![h] = tokenFile[h]]
                /\ pc' = [pc EXCEPT ![h] = IF tokenFile[h] = "none" THEN "register" ELSE "await"]
                /\ UNCHANGED <<up, view>>
    BY <1>7 DEF Start
  <2>2. k \in Keys
    BY <2>1, LoadedKey
  <2>3. QED  BY <1>7, <2>1, <2>2 DEF TypeOK, Start
<1>8. ASSUME NEW h \in Hosts, KeyNotWritten(h) PROVE TypeOK'
  BY <1>8, FaultsAssumption DEF TypeOK, KeyNotWritten, Fault
<1>9. ASSUME NEW h \in Hosts, RegisterAccepted(h) PROVE TypeOK'
  BY <1>9 DEF TypeOK, RegisterAccepted
<1>10. ASSUME NEW h \in Hosts, RegisterAborts(h) \/ FirstSpec(h) \/ SpecTimeout(h) PROVE TypeOK'
  <2>1. CASE Exit(h)
    BY <1>10, <2>1, ExitKeeps, FaultsAssumption
       DEF TypeOK, RegisterAborts, FirstSpec, SpecTimeout, Fault
  <2>2. CASE ~Exit(h)
    BY <1>10, <2>2 DEF TypeOK, RegisterAborts, FirstSpec, SpecTimeout
  <2>3. QED  BY <2>1, <2>2
<1>11. ASSUME NEW h \in Hosts, Registered(h) PROVE TypeOK'
  <2>1. token' \in [Hosts -> Token] /\ tokenFile' \in [Hosts -> Token]
    BY <1>11, SupersededTokens DEF TypeOK, Registered, Token
  <2>2. row' \in [Names -> Keys \cup {NoKey}]
    BY <1>11, NameType DEF TypeOK, Registered
  <2>3. QED  BY <1>11, <2>1, <2>2 DEF TypeOK, Registered
<1>12. ASSUME NEW h \in Hosts PROVE Stray(h) \subseteq [name : Names, key : Keys]
  BY <1>12, NameType DEF TypeOK, KeyOnDisk, Stray
<1>13. ASSUME NEW h \in Hosts, ReplyLost(h) PROVE TypeOK'
  BY <1>13, <1>12, FaultsAssumption DEF TypeOK, ReplyLost, AfterFailure, Fault
<1>14. ASSUME NEW h \in Hosts, Persisted(h) PROVE TypeOK'
  BY <1>14 DEF TypeOK, Persisted
<1>15. ASSUME NEW h \in Hosts, NotPersisted(h) PROVE TypeOK'
  BY <1>15, FaultsAssumption DEF TypeOK, NotPersisted, AfterFailure, Fault, Token
<1>16. ASSUME NEW h \in Hosts, Pull(h) PROVE TypeOK'
  BY <1>16 DEF TypeOK, Pull
<1>17. ASSUME NEW h \in Hosts, Crash(h) \/ Retire(h) PROVE TypeOK'
  <2>1. Dies(h) /\ faults' \in 0..MaxFaults /\ wanted' \subseteq Hosts
    BY <1>17, FaultsAssumption DEF TypeOK, Crash, Retire, Fault
  <2>2. tokenFile' \in [Hosts -> Token]
    BY <2>1 DEF TypeOK, Dies, TokenFileAfter, Token
  <2>3. strays' \subseteq [name : Names, key : Keys]
    BY <2>1, <1>12 DEF TypeOK, Dies
  <2>4. QED  BY <2>1, <2>2, <2>3, ExitKeeps DEF TypeOK, Dies
<1>18. ASSUME NEW h \in Hosts, DropBootstrap(h) PROVE TypeOK'
  BY <1>18 DEF TypeOK, DropBootstrap
<1>19. ASSUME NEW h \in Hosts, NEW files \in SUBSET Files, LoseFiles(h, files) PROVE TypeOK'
  BY <1>19, FaultsAssumption DEF TypeOK, LoseFiles, Fault, Token
<1>20. QED
  BY <1>1, <1>2, <1>3, <1>4, <1>5, <1>6, <1>7, <1>8, <1>9, <1>10, <1>11, <1>13, <1>14,
     <1>15, <1>16, <1>17, <1>18, <1>19 DEF Next

(* Every step keeps the links between the registry, memory and disk; what  *)
(* a lost key leaves behind is adrift until Register ends it.              *)
LEMMA NextLinks ==
  ASSUME Inv, [Next]_vars
  PROVE  TokenSpeaksForKey' /\ KeyOnDisk'
<1> DEFINE Links == TokenSpeaksForKey' /\ KeyOnDisk'
<1> USE DEF server, operator, memory, disk
<1>1. CASE UNCHANGED vars
  BY <1>1 DEF Inv, TokenSpeaksForKey, KeyOnDisk, vars
<1>2. ASSUME NEW s \in strays, StrayUpserts(s) PROVE Links
  <2>1. \A h \in Hosts : /\ token'[h] = "live" => token[h] = "live" /\ NameOf[h] # s.name
                         /\ tokenFile'[h] = "live" => tokenFile[h] = "live" /\ NameOf[h] # s.name
    BY <1>2, SupersededTokens DEF Inv, TypeOK, StrayUpserts
  <2>2. \A n \in Names : n # s.name => row'[n] = row[n]
    BY <1>2 DEF Inv, TypeOK, StrayUpserts
  <2>3. TokenSpeaksForKey'
    BY <1>2, <2>1, <2>2, NameType DEF Inv, TokenSpeaksForKey, StrayUpserts
  <2>4. KeyOnDisk'
    BY <1>2, <2>1 DEF Inv, KeyOnDisk, StrayUpserts
  <2>5. QED  BY <2>3, <2>4
<1>3. ASSUME NEW s \in strays, StrayCancelled(s) PROVE Links
  BY <1>3 DEF Inv, TokenSpeaksForKey, KeyOnDisk, StrayCancelled
<1>4. CASE ServerPulls \/ Push
  BY <1>4 DEF Inv, TokenSpeaksForKey, KeyOnDisk, ServerPulls, Push
<1>5. ASSUME NEW wiped \in BOOLEAN, ServerRestarts(wiped) PROVE Links
  <2>1. \A h \in Hosts : pc'[h] # "down" => pc[h] # "down"
    BY <1>5 DEF Inv, TypeOK, ServerRestarts
  <2>2. CASE wiped
    <3>1. \A h \in Hosts : token'[h] # "live" /\ tokenFile'[h] # "live"
      BY <1>5, <2>2 DEF Inv, TypeOK, ServerRestarts
    <3>2. QED  BY <1>5, <2>1, <3>1 DEF Inv, TokenSpeaksForKey, KeyOnDisk, ServerRestarts
  <2>3. CASE ~wiped
    BY <1>5, <2>1, <2>3 DEF Inv, TokenSpeaksForKey, KeyOnDisk, ServerRestarts
  <2>4. QED  BY <2>2, <2>3
<1>6. ASSUME NEW h \in Hosts, Start(h) PROVE Links
  <2>1. PICK k \in LoadOrGenerate(h) :
          /\ keyFile' = [keyFile EXCEPT ![h] = k]
          /\ \/ UNCHANGED memory
             \/ /\ key' = [key EXCEPT ![h] = k]
                /\ token' = [token EXCEPT ![h] = tokenFile[h]]
                /\ pc' = [pc EXCEPT ![h] = IF tokenFile[h] = "none" THEN "register" ELSE "await"]
    BY <1>6 DEF Start
  <2>2. k # NoKey /\ (keyFile[h] # NoKey => k = keyFile[h])
    BY <2>1, LoadedKey DEF Inv
  <2>3. /\ \A g \in Hosts \ {h} : /\ keyFile'[g] = keyFile[g] /\ key'[g] = key[g]
                                  /\ token'[g] = token[g] /\ pc'[g] = pc[g]
        /\ keyFile'[h] = k
        /\ \/ key'[h] = key[h] /\ token'[h] = token[h] /\ pc'[h] = pc[h]
           \/ key'[h] = k /\ token'[h] = tokenFile[h]
        /\ pc[h] = "down" /\ row' = row /\ tokenFile' = tokenFile /\ adrift' = adrift
    BY <1>6, <2>1 DEF Inv, TypeOK, Start
  <2>4. tokenFile[h] = "live" /\ h \notin adrift => k = keyFile[h] /\ row[NameOf[h]] = k
    BY <2>2 DEF Inv, KeyOnDisk, TokenSpeaksForKey
  <2>5. TokenSpeaksForKey'
    BY <2>3, <2>4 DEF Inv, TokenSpeaksForKey
  <2>6. KeyOnDisk'
    BY <2>2, <2>3 DEF Inv, KeyOnDisk
  <2>7. QED  BY <2>5, <2>6
<1>7. ASSUME NEW h \in Hosts, KeyNotWritten(h) PROVE Links
  BY <1>7 DEF Inv, TypeOK, TokenSpeaksForKey, KeyOnDisk, KeyNotWritten
<1>8. ASSUME NEW h \in Hosts, RegisterAccepted(h) PROVE Links
  BY <1>8 DEF Inv, TypeOK, TokenSpeaksForKey, KeyOnDisk, RegisterAccepted, CallsRegister
<1>9. ASSUME NEW h \in Hosts, RegisterAborts(h) \/ FirstSpec(h) \/ SpecTimeout(h) PROVE Links
  <2>1. row' = row /\ keyFile' = keyFile /\ tokenFile' = tokenFile /\ adrift' = adrift
    BY <1>9 DEF RegisterAborts, FirstSpec, SpecTimeout
  <2>2. CASE Exit(h)
    BY <2>1, <2>2, ExitKeeps DEF Inv, TokenSpeaksForKey, KeyOnDisk
  <2>3. CASE ~Exit(h)
    BY <1>9, <2>1, <2>3
       DEF Inv, TypeOK, TokenSpeaksForKey, KeyOnDisk, RegisterAborts, FirstSpec, SpecTimeout
  <2>4. QED  BY <2>2, <2>3
<1>10. ASSUME NEW h \in Hosts, Registered(h) PROVE Links
  <2>1. pc[h] # "down" /\ key' = key /\ keyFile' = keyFile /\ adrift' = adrift \ {h}
    BY <1>10 DEF Registered
  <2>2. /\ row'[NameOf[h]] = key[h]
        /\ \A n \in Names : n # NameOf[h] => row'[n] = row[n]
    BY <1>10, NameType DEF Inv, TypeOK, Registered
  <2>3. \A g \in Hosts : /\ g # h /\ token'[g] = "live" => token[g] = "live" /\ NameOf[g] # NameOf[h]
                         /\ tokenFile'[g] = "live" => tokenFile[g] = "live" /\ NameOf[g] # NameOf[h]
    BY <1>10, SupersededTokens DEF Inv, TypeOK, Registered
  <2>4. TokenSpeaksForKey'
    BY <2>1, <2>2, <2>3, NameType DEF Inv, TokenSpeaksForKey
  <2>5. KeyOnDisk'
    BY <1>10, <2>1, <2>3 DEF Inv, TypeOK, KeyOnDisk, Registered
  <2>6. QED  BY <2>4, <2>5
<1>11. ASSUME NEW h \in Hosts, ReplyLost(h) PROVE Links
  BY <1>11 DEF Inv, TypeOK, TokenSpeaksForKey, KeyOnDisk, ReplyLost
<1>12. ASSUME NEW h \in Hosts, NEW left, tokenFile' = [tokenFile EXCEPT ![h] = left],
              pc[h] = "persist", left \in {tokenFile[h], "dead", token[h]}
       PROVE  \A g \in Hosts \ adrift : tokenFile'[g] = "live" =>
                                           row[NameOf[g]] = keyFile[g] /\ keyFile[g] # NoKey
  BY <1>12 DEF Inv, TypeOK, TokenSpeaksForKey, KeyOnDisk
<1>13. ASSUME NEW h \in Hosts, Persisted(h) \/ NotPersisted(h) PROVE Links
  <2>1. \A g \in Hosts \ adrift : tokenFile'[g] = "live" =>
                                       row[NameOf[g]] = keyFile[g] /\ keyFile[g] # NoKey
    BY <1>12, <1>13 DEF Persisted, NotPersisted
  <2>2. /\ row' = row /\ keyFile' = keyFile /\ key' = key /\ token' = token /\ adrift' = adrift
        /\ \A g \in Hosts : pc'[g] # "down" => pc[g] # "down"
    BY <1>13 DEF Inv, TypeOK, Persisted, NotPersisted
  <2>3. QED  BY <2>1, <2>2 DEF Inv, TokenSpeaksForKey, KeyOnDisk
<1>14. ASSUME NEW h \in Hosts, Pull(h) PROVE Links
  BY <1>14 DEF Inv, TokenSpeaksForKey, KeyOnDisk, Pull
<1>15. ASSUME NEW h \in Hosts, Crash(h) \/ Retire(h) PROVE Links
  <2>1. Dies(h)
    BY <1>15 DEF Crash, Retire
  <2>2. \A g \in Hosts \ adrift : tokenFile'[g] = "live" =>
                                       row[NameOf[g]] = keyFile[g] /\ keyFile[g] # NoKey
    <3>1. CASE pc[h] = "persist"
      BY <1>12, <2>1, <3>1 DEF Dies, TokenFileAfter
    <3>2. CASE pc[h] # "persist"
      BY <2>1, <3>2 DEF Inv, TypeOK, TokenSpeaksForKey, KeyOnDisk, Dies, TokenFileAfter
    <3>3. QED  BY <3>1, <3>2
  <2>3. row' = row /\ keyFile' = keyFile /\ adrift' = adrift /\ Exit(h)
    BY <2>1 DEF Dies
  <2>4. QED  BY <2>2, <2>3, ExitKeeps DEF Inv, TokenSpeaksForKey, KeyOnDisk
<1>16. ASSUME NEW h \in Hosts, DropBootstrap(h) PROVE Links
  BY <1>16 DEF Inv, TokenSpeaksForKey, KeyOnDisk, DropBootstrap
<1>17. ASSUME NEW h \in Hosts, NEW files \in (SUBSET Files) \ {{}}, LoseFiles(h, files) PROVE Links
  <2>1. \A g \in Hosts : /\ tokenFile'[g] = "live" => tokenFile[g] = "live"
                         /\ tokenFile'[g] = "live" /\ g \notin adrift' =>
                              keyFile'[g] = keyFile[g] /\ g \notin adrift
    <3>1. files = {"key"} \/ "token" \in files
      BY DEF Files
    <3>2. QED  BY <1>17, <3>1 DEF Inv, TypeOK, LoseFiles
  <2>2. \A g \in Hosts : pc[g] # "down" => keyFile'[g] = keyFile[g]
    BY <1>17 DEF Inv, TypeOK, LoseFiles
  <2>3. QED  BY <1>17, <2>1, <2>2 DEF Inv, TokenSpeaksForKey, KeyOnDisk, LoseFiles
<1>18. QED
  BY <1>1, <1>2, <1>3, <1>4, <1>5, <1>6, <1>7, <1>8, <1>9, <1>10, <1>11, <1>13, <1>14,
     <1>15, <1>16, <1>17 DEF Next

(* The types of the agent's and the server's state, for any hosts, names,  *)
(* commits and faults.                                                     *)
THEOREM TypeCorrect == Spec => []TypeOK
<1>1. Inv /\ [Next]_vars => Inv'
  BY NextType, NextLinks DEF Inv
<1>2. Inv => TypeOK
  BY DEF Inv
<1>3. QED  BY InitInv, <1>1, <1>2, PTL DEF Spec

(* An accepted token speaks for the key pair beside it, for any number of  *)
(* namesakes, crashes, lost replies, lost files and lost databases:        *)
(* loadOrRegister may skip the registration when it finds auth.token, save *)
(* on a host that has lost private.key alone and not registered since.     *)
THEOREM TokenSound == Spec => []TokenSpeaksForKey
<1>1. Inv /\ [Next]_vars => Inv'
  BY NextType, NextLinks DEF Inv
<1>2. Inv => TokenSpeaksForKey
  BY DEF Inv
<1>3. QED  BY InitInv, <1>1, <1>2, PTL DEF Spec
=============================================================================
