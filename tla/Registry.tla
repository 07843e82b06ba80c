------------------------------ MODULE Registry ------------------------------
(***************************************************************************)
(* What the management server promises its agents, without requests in     *)
(* flight, identifiers or SQL: a registry that maps a name to the          *)
(* enrolment made last under it.  An enrolment is held through one         *)
(* credential, which nobody held before; a beat reaches the enrolment of   *)
(* its credential and no other.                                            *)
(***************************************************************************)
EXTENDS Naturals

CONSTANTS Name, Key, Endpoint, Cred, Time

VARIABLES reg,    \* name -> enrolment, for the names enrolled
          spent   \* every credential ever put into the registry

regvars == <<reg, spent>>

Enrolment == [key : Key, endpoint : Endpoint, cred : Cred, since : Time, seen : Time]

RegInit == reg = [n \in {} |-> {}] /\ spent = {}

(* A first or repeated enrolment under n; the time of the first is kept. *)
Enrol(n, k) ==
  /\ k \notin spent
  /\ spent' = spent \cup {k}
  /\ \E key \in Key, ep \in Endpoint, t \in Time :
       reg' = [m \in DOMAIN reg \cup {n} |->
                 IF m # n THEN reg[m]
                 ELSE [key |-> key, endpoint |-> ep, cred |-> k,
                       since |-> IF n \in DOMAIN reg THEN reg[n].since ELSE t, seen |-> t]]

(* The holder of the enrolment of n is alive at t, reachable at ep. *)
Beat(n, k, ep, t) ==
  /\ n \in DOMAIN reg
  /\ reg[n].cred = k
  /\ reg' = [reg EXCEPT ![n] = [key |-> reg[n].key, endpoint |-> ep, cred |-> k,
                                since |-> reg[n].since, seen |-> t]]
  /\ UNCHANGED spent

(* The database is lost; the credentials stay spent. *)
Lose == reg' = [n \in {} |-> {}] /\ UNCHANGED spent

RegNext ==
  \/ \E n \in Name, k \in Cred : Enrol(n, k)
  \/ \E n \in Name, k \in Cred, ep \in Endpoint, t \in Time : Beat(n, k, ep, t)
  \/ Lose

RegSpec == RegInit /\ [][RegNext]_regvars

-----------------------------------------------------------------------------
(* The registry maps names to enrolments. *)
RegTypeOK ==
  /\ DOMAIN reg \subseteq Name
  /\ reg \in [DOMAIN reg -> Enrolment]
  /\ spent \subseteq Cred

(* One credential speaks for one name, and every credential in use has     *)
(* been recorded as spent (auth_token_hash of UpsertAgent).                *)
OneNamePerCredential ==
  /\ \A n \in DOMAIN reg : reg[n].cred \in spent
  /\ \A n, m \in DOMAIN reg : reg[n].cred = reg[m].cred => n = m

Holds(k) == \E n \in DOMAIN reg : reg[n].cred = k

(* A credential that was replaced, or lost with the database, never opens  *)
(* the registry again ("the original token is invalidated", store.go).     *)
SupersededStaysDead ==
  [][\A k \in spent : ~Holds(k) => ~Holds(k)']_regvars
=============================================================================
