--------------------------- MODULE DocumentProofs ---------------------------
(***************************************************************************)
(* What the pure functions of a document compute, proved for every         *)
(* document Parse may return: the compiled ACL decides as the ACL means;   *)
(* and what a device makes of a list of requests.                          *)
(* Induction is over the subsets of Nat (LeastExists), which needs no      *)
(* operator as a parameter.                                                *)
(***************************************************************************)
EXTENDS WgDevice, NetPolicy, WellFoundedInduction, FiniteSetTheorems, TLAPS

(* A set of naturals that is not empty has a least element. *)
LEMMA LeastExists ==
  ASSUME NEW H, H \subseteq Nat, H # {}
  PROVE  \E m \in H : \A j \in H : m <= j
<1> DEFINE R == OpToRel(<, Nat)
<1>1. PICK m \in H : \A y \in H : ~(<<y, m>> \in R)
  BY NatLessThanWellFounded, WFMin, Zenon
<1>2. ASSUME NEW j \in H PROVE m <= j
  <2>1. j \in Nat /\ m \in Nat
    OBVIOUS
  <2>2. ~(<<j, m>> \in R)
    BY <1>1, Zenon
  <2>3. ~(j < m)
    BY <2>1, <2>2, Zenon DEF OpToRel
  <2> QED
    BY <2>1, <2>3
<1> QED
  BY <1>2

(* Induction up to n, with the property as a set. *)
LEMMA UpTo ==
  ASSUME NEW n \in Nat, NEW H, 0 \in H, \A i \in 0..(n-1) : i \in H => i + 1 \in H
  PROVE  0..n \subseteq H
<1> DEFINE C == {i \in 0..n : i \notin H}
<1> SUFFICES ASSUME C # {} PROVE FALSE
  OBVIOUS
<1>1. C \subseteq Nat
  OBVIOUS
<1>2. PICK m \in C : \A j \in C : m <= j
  <2> HIDE DEF C
  <2> QED  BY <1>1, LeastExists, Zenon
<1>3. m # 0 /\ m - 1 \in 0..(n-1)
  OBVIOUS
<1>4. m - 1 \in H
  BY <1>2, <1>3
<1> QED
  BY <1>3, <1>4

-----------------------------------------------------------------------------
(* A strict total order. *)
Orders(R, S) ==
  /\ \A x \in S : <<x, x>> \notin R
  /\ \A x, y, z \in S : <<x, y>> \in R /\ <<y, z>> \in R => <<x, z>> \in R
  /\ \A x, y \in S : x = y \/ <<x, y>> \in R \/ <<y, x>> \in R

(* Sorting a finite set lists each of its elements once. *)
LEMMA SortedLists ==
  ASSUME NEW S, IsFiniteSet(S), NEW R, Orders(R, S)
  PROVE  /\ Cardinality(S) \in Nat
         /\ DOMAIN Sorted(S, R) = 1..Cardinality(S)
         /\ \A i \in 1..Cardinality(S) : Sorted(S, R)[i] \in S
         /\ \A x \in S : \E i \in 1..Cardinality(S) : Sorted(S, R)[i] = x
         /\ \A i, j \in 1..Cardinality(S) : Sorted(S, R)[i] = Sorted(S, R)[j] => i = j
<1> DEFINE n == Cardinality(S)
           Below(x) == {y \in S : <<y, x>> \in R}
           rank == [x \in S |-> Cardinality(Below(x)) + 1]
<1>1. n \in Nat
  BY FS_CardinalityType
<1>2. \A x \in S : /\ IsFiniteSet(Below(x)) /\ Cardinality(Below(x)) \in Nat
                   /\ Cardinality(Below(x)) < n
  <2> SUFFICES ASSUME NEW x \in S
               PROVE  /\ IsFiniteSet(Below(x)) /\ Cardinality(Below(x)) \in Nat
                      /\ Cardinality(Below(x)) < n
    OBVIOUS
  <2>1. Below(x) \in SUBSET S /\ x \notin Below(x)
    BY DEF Orders
  <2>2. Below(x) # S
    BY <2>1
  <2> HIDE DEF Below
  <2>3. /\ IsFiniteSet(Below(x)) /\ Cardinality(Below(x)) <= n
        /\ n = Cardinality(Below(x)) => S = Below(x)
    BY <2>1, FS_Subset
  <2>4. Cardinality(Below(x)) \in Nat
    BY <2>3, FS_CardinalityType
  <2> QED
    BY <1>1, <2>2, <2>3, <2>4
<1>3. \A x, y \in S : <<x, y>> \in R => Cardinality(Below(x)) < Cardinality(Below(y))
  <2> SUFFICES ASSUME NEW x \in S, NEW y \in S, <<x, y>> \in R
               PROVE  Cardinality(Below(x)) < Cardinality(Below(y))
    OBVIOUS
  <2>1. Below(x) \in SUBSET Below(y) /\ x \in Below(y) /\ x \notin Below(x)
    BY DEF Orders
  <2> HIDE DEF Below
  <2>2. /\ Cardinality(Below(x)) <= Cardinality(Below(y))
        /\ Cardinality(Below(y)) = Cardinality(Below(x)) => Below(y) = Below(x)
    BY <1>2, <2>1, FS_Subset
  <2> QED
    BY <1>2, <2>1, <2>2
<1> HIDE DEF Below
<1>4. rank \in Injection(S, 1..n)
  <2>1. rank \in [S -> 1..n]
    BY <1>1, <1>2
  <2>2. \A x, y \in S : rank[x] = rank[y] => x = y
    <3> SUFFICES ASSUME NEW x \in S, NEW y \in S, rank[x] = rank[y] PROVE x = y
      OBVIOUS
    <3>1. Cardinality(Below(x)) = Cardinality(Below(y))
      BY <1>2
    <3>2. ~(<<x, y>> \in R) /\ ~(<<y, x>> \in R)
      BY <1>2, <1>3, <3>1
    <3> QED
      BY <3>2 DEF Orders
  <2> HIDE DEF rank
  <2> QED
    BY <2>1, <2>2 DEF Injection, IsInjective
<1>5. \A i \in 1..n : \E x \in S : rank[x] = i
  <2>1. IsFiniteSet(1..n) /\ Cardinality(1..n) = n
    BY <1>1, FS_Interval
  <2> HIDE DEF rank
  <2>2. rank \in Surjection(S, 1..n)
    BY <1>4, <2>1, FS_Injection
  <2> QED
    BY <2>2 DEF Surjection
<1>6. \A i \in 1..n : \A x \in S : rank[x] = i <=> Cardinality(Below(x)) = i - 1
  BY <1>2
<1>7. \A i \in 1..n : /\ Sorted(S, R)[i] \in S
                      /\ rank[Sorted(S, R)[i]] = i
  <2> SUFFICES ASSUME NEW i \in 1..n
               PROVE  Sorted(S, R)[i] \in S /\ rank[Sorted(S, R)[i]] = i
    OBVIOUS
  <2>1. \E x \in S : Cardinality(Below(x)) = i - 1
    BY <1>5, <1>6
  <2>2. Sorted(S, R)[i] = CHOOSE x \in S : Cardinality(Below(x)) = i - 1
    BY Zenon DEF Sorted, Below
  <2>3. Sorted(S, R)[i] \in S /\ Cardinality(Below(Sorted(S, R)[i])) = i - 1
    BY <2>1, <2>2
  <2> QED
    BY <1>6, <2>3
<1>8. DOMAIN Sorted(S, R) = 1..n
  BY DEF Sorted
<1>9. \A x \in S : rank[x] \in 1..n /\ Sorted(S, R)[rank[x]] = x
  <2> SUFFICES ASSUME NEW x \in S PROVE rank[x] \in 1..n /\ Sorted(S, R)[rank[x]] = x
    OBVIOUS
  <2> HIDE DEF rank
  <2> QED
    BY <1>4, <1>7 DEF Injection, IsInjective
<1> HIDE DEF rank
<1> QED
  BY <1>1, <1>7, <1>8, <1>9

-----------------------------------------------------------------------------
(* A function on 1..n is a list. *)
LEMMA IsList ==
  ASSUME NEW X, NEW n \in Nat, NEW s \in [1..n -> X]
  PROVE  s \in Seq(X) /\ Len(s) = n
  OBVIOUS

(* The elements of a concatenation. *)
LEMMA Joined ==
  ASSUME NEW X, NEW s \in Seq(X), NEW t \in Seq(X)
  PROVE  /\ s \o t \in Seq(X) /\ Len(s \o t) = Len(s) + Len(t)
         /\ DOMAIN (s \o t) = 1..(Len(s) + Len(t))
         /\ \A i \in 1..Len(s) : (s \o t)[i] = s[i]
         /\ \A i \in 1..Len(t) : (s \o t)[Len(s) + i] = t[i]
<1>1. Len(s) \in Nat /\ Len(t) \in Nat
  OBVIOUS
<1>2. s \o t \in Seq(X) /\ Len(s \o t) = Len(s) + Len(t)
  OBVIOUS
<1>3. \A i \in 1..Len(s) : (s \o t)[i] = s[i]
  OBVIOUS
<1>4. \A i \in 1..Len(t) : (s \o t)[Len(s) + i] = t[i]
  OBVIOUS
<1> QED
  BY <1>1, <1>2, <1>3, <1>4

(* The places of both parts of a concatenation. *)
LEMMA Places ==
  ASSUME NEW X, NEW H \in Seq(X), NEW A \in Seq(X)
  PROVE  /\ \A i \in DOMAIN H : i \in DOMAIN (H \o A) /\ (H \o A)[i] = H[i]
         /\ \A i \in DOMAIN A : Len(H) + i \in DOMAIN (H \o A) /\ (H \o A)[Len(H) + i] = A[i]
         /\ \A i, j \in DOMAIN A : Len(H) + i = Len(H) + j => i = j
         /\ \A i \in DOMAIN H, j \in DOMAIN A : i # Len(H) + j
<1>1. /\ Len(H) \in Nat /\ DOMAIN H = 1..Len(H)
      /\ Len(A) \in Nat /\ DOMAIN A = 1..Len(A)
  OBVIOUS
<1>2. /\ DOMAIN (H \o A) = 1..(Len(H) + Len(A))
      /\ \A i \in 1..Len(H) : (H \o A)[i] = H[i]
      /\ \A i \in 1..Len(A) : (H \o A)[Len(H) + i] = A[i]
  BY Joined
<1> QED
  BY <1>1, <1>2

(* What ValidateNodes asks of a list of nodes. *)
Distinct(nodes, C) ==
  \A i \in DOMAIN nodes :
    /\ nodes[i].name # ""
    /\ nodes[i].ip # 0 /\ nodes[i].ip \in C
    /\ \A j \in DOMAIN nodes :
         nodes[i].name = nodes[j].name \/ nodes[i].ip = nodes[j].ip => i = j

(* A list of distinct nodes has distinct nodes in both its parts. *)
LEMMA PartsDistinct ==
  ASSUME NEW X, NEW H \in Seq(X), NEW A \in Seq(X), NEW C, Distinct(H \o A, C)
  PROVE  /\ \A i \in DOMAIN H : H[i].name # "" /\ H[i].ip \in C
         /\ \A i \in DOMAIN A : A[i].name # "" /\ A[i].ip \in C
         /\ \A i, j \in DOMAIN H : H[i].name = H[j].name \/ H[i].ip = H[j].ip => i = j
         /\ \A i, j \in DOMAIN A : A[i].name = A[j].name \/ A[i].ip = A[j].ip => i = j
         /\ \A i \in DOMAIN H, j \in DOMAIN A : H[i].name # A[j].name /\ H[i].ip # A[j].ip
<1> DEFINE nodes == H \o A
           D == DOMAIN nodes
           later(i) == Len(H) + i
           Node(x) == x.name # "" /\ x.ip \in C
           Alike(x, y) == x.name = y.name \/ x.ip = y.ip
<1>1. /\ \A i \in D : Node(nodes[i])
      /\ \A i, j \in D : Alike(nodes[i], nodes[j]) => i = j
  BY Zenon DEF Distinct
<1>2. \A i \in DOMAIN H : i \in D /\ nodes[i] = H[i]
  BY Places
<1>3. /\ \A i \in DOMAIN A : later(i) \in D /\ nodes[later(i)] = A[i]
      /\ \A i, j \in DOMAIN A : later(i) = later(j) => i = j
      /\ \A i \in DOMAIN H, j \in DOMAIN A : i # later(j)
  <2>1. \A i \in DOMAIN A : later(i) \in D /\ nodes[later(i)] = A[i]
    BY Places
  <2>2. \A i, j \in DOMAIN A : later(i) = later(j) => i = j
    BY Places, Zenon
  <2>3. \A i \in DOMAIN H, j \in DOMAIN A : i # later(j)
    BY Places, Zenon
  <2> QED
    BY <2>1, <2>2, <2>3
<1> HIDE DEF nodes, D, later, Node, Alike
<1>4. \A i \in DOMAIN H : Node(H[i])
  BY <1>1, <1>2, Zenon
<1>5. \A i \in DOMAIN A : Node(A[i])
  BY <1>1, <1>3, Zenon
<1>6. \A i, j \in DOMAIN H : Alike(H[i], H[j]) => i = j
  BY <1>1, <1>2, Zenon
<1>7. ASSUME NEW i \in DOMAIN A, NEW j \in DOMAIN A, Alike(A[i], A[j]) PROVE i = j
  <2>1. later(i) = later(j)
    BY <1>1, <1>3, <1>7, Zenon
  <2> QED
    BY <1>3, <2>1, Zenon
<1>8. \A i \in DOMAIN H, j \in DOMAIN A : ~Alike(H[i], A[j])
  BY <1>1, <1>2, <1>3, Zenon
<1> QED
  BY <1>4, <1>5, <1>6, <1>7, <1>8, Zenon DEF Node, Alike

(* Validate makes names and tunnel IPs unique over hubs and agents         *)
(* together, and puts every tunnel IP into the overlay prefix.             *)
LEMMA NodesDistinct ==
  ASSUME NEW d, Parsed(d)
  PROVE  /\ \A i \in DOMAIN d.hubs : d.hubs[i].name # "" /\ d.hubs[i].tunnelIP \in d.cidr
         /\ \A i \in DOMAIN d.agents : d.agents[i].name # "" /\ d.agents[i].tunnelIP \in d.cidr
         /\ \A i, j \in DOMAIN d.hubs :
              d.hubs[i].name = d.hubs[j].name \/ d.hubs[i].tunnelIP = d.hubs[j].tunnelIP => i = j
         /\ \A i, j \in DOMAIN d.agents :
              \/ d.agents[i].name = d.agents[j].name
              \/ d.agents[i].tunnelIP = d.agents[j].tunnelIP
              => i = j
         /\ \A i \in DOMAIN d.hubs, j \in DOMAIN d.agents :
              d.hubs[i].name # d.agents[j].name /\ d.hubs[i].tunnelIP # d.agents[j].tunnelIP
<1> DEFINE H == [i \in DOMAIN d.hubs |-> [name |-> d.hubs[i].name, ip |-> d.hubs[i].tunnelIP]]
           A == [i \in DOMAIN d.agents |-> [name |-> d.agents[i].name, ip |-> d.agents[i].tunnelIP]]
           X == {H[i] : i \in DOMAIN d.hubs} \cup {A[i] : i \in DOMAIN d.agents}
<1>1. PICK n \in Nat, m \in Nat : DOMAIN d.hubs = 1..n /\ DOMAIN d.agents = 1..m
  BY DEF Parsed, Document
<1>2. Distinct(H \o A, d.cidr)
  BY Zenon DEF Parsed, Validate, ValidateNodes, Distinct
<1>3. DOMAIN H = DOMAIN d.hubs /\ DOMAIN A = DOMAIN d.agents
  OBVIOUS
<1>4. \A i \in DOMAIN d.hubs : H[i].name = d.hubs[i].name /\ H[i].ip = d.hubs[i].tunnelIP
  OBVIOUS
<1>5. \A i \in DOMAIN d.agents : A[i].name = d.agents[i].name /\ A[i].ip = d.agents[i].tunnelIP
  OBVIOUS
<1>6. H = [i \in 1..n |-> H[i]] /\ A = [i \in 1..m |-> A[i]]
  BY <1>1
<1> HIDE DEF H, A
<1>7. H \in [1..n -> X] /\ A \in [1..m -> X]
  BY <1>1, <1>6
<1> HIDE DEF X
<1>8. H \in Seq(X) /\ A \in Seq(X)
  BY <1>7, IsList
<1>9. /\ \A i \in DOMAIN H : H[i].name # "" /\ H[i].ip \in d.cidr
      /\ \A i \in DOMAIN A : A[i].name # "" /\ A[i].ip \in d.cidr
      /\ \A i, j \in DOMAIN H : H[i].name = H[j].name \/ H[i].ip = H[j].ip => i = j
      /\ \A i, j \in DOMAIN A : A[i].name = A[j].name \/ A[i].ip = A[j].ip => i = j
      /\ \A i \in DOMAIN H, j \in DOMAIN A : H[i].name # A[j].name /\ H[i].ip # A[j].ip
  BY <1>2, <1>8, PartsDistinct, Zenon
<1>10. \A i \in DOMAIN d.hubs : d.hubs[i].name # "" /\ d.hubs[i].tunnelIP \in d.cidr
  BY <1>3, <1>4, <1>9, Zenon
<1>11. \A i \in DOMAIN d.agents : d.agents[i].name # "" /\ d.agents[i].tunnelIP \in d.cidr
  BY <1>3, <1>5, <1>9, Zenon
<1>12. ASSUME NEW i \in DOMAIN d.hubs, NEW j \in DOMAIN d.hubs,
              d.hubs[i].name = d.hubs[j].name \/ d.hubs[i].tunnelIP = d.hubs[j].tunnelIP
       PROVE  i = j
  <2>1. i \in DOMAIN H /\ j \in DOMAIN H /\ (H[i].name = H[j].name \/ H[i].ip = H[j].ip)
    BY <1>3, <1>4, <1>12
  <2> QED
    BY <1>9, <2>1, Zenon
<1>13. ASSUME NEW i \in DOMAIN d.agents, NEW j \in DOMAIN d.agents,
              \/ d.agents[i].name = d.agents[j].name
              \/ d.agents[i].tunnelIP = d.agents[j].tunnelIP
       PROVE  i = j
  <2>1. i \in DOMAIN A /\ j \in DOMAIN A /\ (A[i].name = A[j].name \/ A[i].ip = A[j].ip)
    BY <1>3, <1>5, <1>13
  <2> QED
    BY <1>9, <2>1, Zenon
<1>14. ASSUME NEW i \in DOMAIN d.hubs, NEW j \in DOMAIN d.agents
       PROVE  d.hubs[i].name # d.agents[j].name /\ d.hubs[i].tunnelIP # d.agents[j].tunnelIP
  <2>1. i \in DOMAIN H /\ j \in DOMAIN A
    BY <1>3
  <2>2. H[i].name # A[j].name /\ H[i].ip # A[j].ip
    BY <1>9, <2>1, Zenon
  <2> QED
    BY <1>4, <1>5, <2>2
<1> QED
  BY <1>10, <1>11, <1>12, <1>13, <1>14, Zenon

-----------------------------------------------------------------------------
(* iptables takes the first match: a chain whose matching rules share a    *)
(* target decides with that target.                                        *)
LEMMA SameTarget ==
  ASSUME NEW c \in Seq(RuleSet), NEW f, NEW t,
         \E i \in DOMAIN c : Matches(c[i], f),
         \A i \in DOMAIN c : Matches(c[i], f) => c[i].target = t
  PROVE  Verdict(c, f) = t
<1> DEFINE hits == {i \in DOMAIN c : Matches(c[i], f)}
<1>1. hits \subseteq Nat /\ hits # {} /\ \A i \in hits : c[i].target = t
  OBVIOUS
<1>2. Verdict(c, f) = c[CHOOSE i \in hits : \A j \in hits : i <= j].target
  BY <1>1, Zenon DEF Verdict
<1> HIDE DEF hits
<1>3. (CHOOSE i \in hits : \A j \in hits : i <= j) \in hits
  BY <1>1, LeastExists, Zenon
<1> QED
  BY <1>1, <1>2, <1>3, Zenon

(* The first match in a concatenation. *)
LEMMA VerdictJoined ==
  ASSUME NEW a \in Seq(RuleSet), NEW b \in Seq(RuleSet), NEW f
  PROVE  Verdict(a \o b, f) = IF \E i \in DOMAIN a : Matches(a[i], f)
                              THEN Verdict(a, f) ELSE Verdict(b, f)
<1> DEFINE Hits(c) == {i \in DOMAIN c : Matches(c[i], f)}
           First(H) == CHOOSE i \in H : \A j \in H : i <= j
<1>1. \A c : Verdict(c, f) = IF Hits(c) = {} THEN "RETURN" ELSE c[First(Hits(c))].target
  BY Zenon DEF Verdict
<1>2. ASSUME NEW H, H \subseteq Nat, H # {}
      PROVE  First(H) \in H /\ \A j \in H : First(H) <= j
  BY <1>2, LeastExists, Zenon
<1>3. ASSUME NEW H, H \subseteq Nat, NEW m \in H, \A j \in H : m <= j
      PROVE  m = First(H)
  <2>1. First(H) \in H /\ \A j \in H : First(H) <= j
    BY <1>2, <1>3, Zenon
  <2> HIDE DEF First
  <2>2. m \in Nat /\ First(H) \in Nat /\ m <= First(H) /\ First(H) <= m
    BY <1>3, <2>1, Zenon
  <2> QED
    BY <2>2
<1>4. /\ Len(a) \in Nat /\ DOMAIN a = 1..Len(a)
      /\ Len(b) \in Nat /\ DOMAIN b = 1..Len(b)
      /\ DOMAIN (a \o b) = 1..(Len(a) + Len(b))
      /\ \A i \in 1..Len(a) : (a \o b)[i] = a[i]
      /\ \A i \in 1..Len(b) : (a \o b)[Len(a) + i] = b[i]
  BY Joined
<1>5. Hits(a) \subseteq 1..Len(a) /\ Hits(b) \subseteq 1..Len(b) /\ Hits(a \o b) \subseteq Nat
  BY <1>4
<1>6. \A i \in 1..Len(a) : i \in Hits(a \o b) <=> i \in Hits(a)
  BY <1>4
<1>7. \A i \in 1..Len(b) : Len(a) + i \in Hits(a \o b) <=> i \in Hits(b)
  BY <1>4
<1>8. \A j \in Hits(a \o b) : j \in 1..Len(a) \/ \E i \in 1..Len(b) : j = Len(a) + i
  <2> SUFFICES ASSUME NEW j \in 1..(Len(a) + Len(b)), j \notin 1..Len(a)
               PROVE  \E i \in 1..Len(b) : j = Len(a) + i
    BY <1>4
  <2>1. j - Len(a) \in 1..Len(b) /\ j = Len(a) + (j - Len(a))
    BY <1>4
  <2> QED
    BY <2>1
<1>9. (\E i \in DOMAIN a : Matches(a[i], f)) <=> Hits(a) # {}
  OBVIOUS
<1> HIDE DEF Hits, First
<1>10. CASE Hits(a) # {}
  <2>1. First(Hits(a)) \in Hits(a) /\ \A j \in Hits(a) : First(Hits(a)) <= j
    BY <1>2, <1>4, <1>5, <1>10
  <2>2. First(Hits(a)) \in Hits(a \o b) /\ First(Hits(a)) \in 1..Len(a)
    BY <1>5, <1>6, <2>1
  <2>3. \A j \in Hits(a \o b) : First(Hits(a)) <= j
    BY <1>4, <1>6, <1>8, <2>1, <2>2
  <2>4. First(Hits(a)) = First(Hits(a \o b))
    BY <1>3, <1>5, <2>2, <2>3
  <2>5. Hits(a \o b) # {}
    BY <2>2
  <2> QED
    BY <1>1, <1>4, <1>9, <1>10, <2>2, <2>4, <2>5, Zenon
<1>11. CASE Hits(a) = {} /\ Hits(b) = {}
  <2>1. Hits(a \o b) = {}
    BY <1>6, <1>7, <1>8, <1>11
  <2> QED
    BY <1>1, <1>9, <1>11, <2>1
<1>12. CASE Hits(a) = {} /\ Hits(b) # {}
  <2> DEFINE m == First(Hits(b))
  <2>1. m \in Hits(b) /\ \A j \in Hits(b) : m <= j
    BY <1>2, <1>4, <1>5, <1>12
  <2>2. Len(a) + m \in Hits(a \o b) /\ m \in 1..Len(b)
    BY <1>5, <1>7, <2>1
  <2>3. \A j \in Hits(a \o b) : Len(a) + m <= j
    <3> SUFFICES ASSUME NEW j \in Hits(a \o b) PROVE Len(a) + m <= j
      OBVIOUS
    <3>1. PICK i \in 1..Len(b) : j = Len(a) + i
      BY <1>6, <1>8, <1>12
    <3>2. m <= i
      BY <1>7, <2>1, <3>1
    <3> QED
      BY <1>4, <2>2, <3>1, <3>2
  <2>4. Len(a) + m = First(Hits(a \o b))
    BY <1>3, <1>5, <2>2, <2>3
  <2>5. Hits(a \o b) # {}
    BY <2>2
  <2>6. (a \o b)[Len(a) + m] = b[m]
    BY <1>4, <2>2
  <2> HIDE DEF m
  <2>7. m = First(Hits(b))
    BY DEF m
  <2> QED
    BY <1>1, <1>9, <1>12, <2>4, <2>5, <2>6, <2>7, Zenon
<1> QED
  BY <1>10, <1>11, <1>12

(* A concatenation matches when one of its parts does. *)
LEMMA HitJoined ==
  ASSUME NEW a \in Seq(RuleSet), NEW b \in Seq(RuleSet), NEW f
  PROVE  (\E i \in DOMAIN (a \o b) : Matches((a \o b)[i], f))
           <=> (\E i \in DOMAIN a : Matches(a[i], f)) \/ (\E i \in DOMAIN b : Matches(b[i], f))
<1>1. /\ Len(a) \in Nat /\ DOMAIN a = 1..Len(a)
      /\ Len(b) \in Nat /\ DOMAIN b = 1..Len(b)
      /\ DOMAIN (a \o b) = 1..(Len(a) + Len(b))
      /\ \A i \in 1..Len(a) : (a \o b)[i] = a[i]
      /\ \A i \in 1..Len(b) : (a \o b)[Len(a) + i] = b[i]
  BY Joined
<1>2. ASSUME NEW i \in DOMAIN a, Matches(a[i], f)
      PROVE  \E j \in DOMAIN (a \o b) : Matches((a \o b)[j], f)
  BY <1>1, <1>2
<1>3. ASSUME NEW i \in DOMAIN b, Matches(b[i], f)
      PROVE  \E j \in DOMAIN (a \o b) : Matches((a \o b)[j], f)
  <2>1. Len(a) + i \in DOMAIN (a \o b) /\ (a \o b)[Len(a) + i] = b[i]
    BY <1>1
  <2> QED
    BY <1>3, <2>1
<1>4. ASSUME NEW j \in DOMAIN (a \o b), Matches((a \o b)[j], f)
      PROVE  (\E i \in DOMAIN a : Matches(a[i], f)) \/ (\E i \in DOMAIN b : Matches(b[i], f))
  <2>1. CASE j \in 1..Len(a)
    BY <1>1, <1>4, <2>1
  <2>2. CASE j \notin 1..Len(a)
    <3>1. j - Len(a) \in 1..Len(b) /\ j = Len(a) + (j - Len(a))
      BY <1>1, <2>2
    <3>2. Matches(b[j - Len(a)], f)
      BY <1>1, <1>4, <3>1
    <3> QED
      BY <1>1, <3>1, <3>2
  <2> QED
    BY <2>1, <2>2
<1> QED
  BY <1>2, <1>3, <1>4

(* The two rules of each hub accept what it sends or receives. *)
LEMMA HubRulesAccept ==
  ASSUME NEW ips \in Seq(Address)
  PROVE  /\ HubRules(ips) \in Seq(RuleSet)
         /\ \A f \in Flow : (\E i \in DOMAIN HubRules(ips) : Matches(HubRules(ips)[i], f))
                              <=> \E j \in DOMAIN ips : ips[j] \in {f[1], f[2]}
         /\ \A i \in DOMAIN HubRules(ips) : HubRules(ips)[i].target = "ACCEPT"
<1> DEFINE n == Len(ips)
           sends(j) == Rule({ips[j]}, Address, "ACCEPT")
           receives(j) == Rule(Address, {ips[j]}, "ACCEPT")
           rules == HubRules(ips)
<1>1. n \in Nat /\ DOMAIN ips = 1..n /\ \A j \in 1..n : ips[j] \in Address
  OBVIOUS
<1>2. \A j \in 1..n : /\ sends(j) \in RuleSet /\ receives(j) \in RuleSet
                      /\ sends(j).target = "ACCEPT" /\ receives(j).target = "ACCEPT"
  BY <1>1 DEF Rule, RuleSet
<1>3. \A j \in 1..n : \A f \in Flow : /\ Matches(sends(j), f) <=> ips[j] = f[1]
                                      /\ Matches(receives(j), f) <=> ips[j] = f[2]
  BY <1>1 DEF Rule, Matches, Flow
<1> HIDE DEF sends, receives
<1>4. rules = [i \in 1..(2 * n) |-> IF i % 2 = 1 THEN sends((i + 1) \div 2) ELSE receives((i + 1) \div 2)]
  BY Zenon DEF HubRules, sends, receives
<1>5. \A i \in 1..(2 * n) : (i + 1) \div 2 \in 1..n
  BY <1>1
<1>6. \A i \in 1..(2 * n) : \E j \in 1..n : rules[i] = sends(j) \/ rules[i] = receives(j)
  <2> SUFFICES ASSUME NEW i \in 1..(2 * n)
               PROVE  \E j \in 1..n : rules[i] = sends(j) \/ rules[i] = receives(j)
    OBVIOUS
  <2>1. rules[i] = sends((i + 1) \div 2) \/ rules[i] = receives((i + 1) \div 2)
    BY <1>4
  <2> QED
    BY <1>5, <2>1
<1>7. \A j \in 1..n : /\ 2 * j - 1 \in 1..(2 * n) /\ rules[2 * j - 1] = sends(j)
                      /\ 2 * j \in 1..(2 * n) /\ rules[2 * j] = receives(j)
  <2> SUFFICES ASSUME NEW j \in 1..n
               PROVE  /\ 2 * j - 1 \in 1..(2 * n) /\ rules[2 * j - 1] = sends(j)
                      /\ 2 * j \in 1..(2 * n) /\ rules[2 * j] = receives(j)
    OBVIOUS
  <2>1. /\ 2 * j - 1 \in 1..(2 * n) /\ (2 * j - 1) % 2 = 1 /\ (2 * j - 1 + 1) \div 2 = j
        /\ 2 * j \in 1..(2 * n) /\ (2 * j) % 2 # 1 /\ (2 * j + 1) \div 2 = j
    BY <1>1
  <2> HIDE DEF n, rules
  <2> QED
    BY <1>4, <2>1
<1>8. DOMAIN rules = 1..(2 * n) /\ rules = [i \in 1..(2 * n) |-> rules[i]]
  BY <1>4
<1> HIDE DEF rules
<1>9. \A i \in 1..(2 * n) : rules[i] \in RuleSet /\ rules[i].target = "ACCEPT"
  BY <1>2, <1>6
<1>10. rules \in Seq(RuleSet)
  <2>1. rules \in [1..(2 * n) -> RuleSet] /\ 2 * n \in Nat
    BY <1>1, <1>8, <1>9
  <2> QED
    BY <2>1, IsList
<1>11. ASSUME NEW f \in Flow
       PROVE  (\E i \in DOMAIN rules : Matches(rules[i], f)) <=> \E j \in DOMAIN ips : ips[j] \in {f[1], f[2]}
  <2>1. ASSUME NEW i \in DOMAIN rules, Matches(rules[i], f)
        PROVE  \E j \in DOMAIN ips : ips[j] \in {f[1], f[2]}
    BY <1>1, <1>3, <1>6, <1>8, <2>1
  <2>2. ASSUME NEW j \in DOMAIN ips, ips[j] = f[1]
        PROVE  \E i \in DOMAIN rules : Matches(rules[i], f)
    <3>1. Matches(sends(j), f)
      BY <1>1, <1>3, <2>2
    <3> QED
      BY <1>1, <1>7, <1>8, <3>1, Zenon
  <2>3. ASSUME NEW j \in DOMAIN ips, ips[j] = f[2]
        PROVE  \E i \in DOMAIN rules : Matches(rules[i], f)
    <3>1. Matches(receives(j), f)
      BY <1>1, <1>3, <2>3
    <3> QED
      BY <1>1, <1>7, <1>8, <3>1, Zenon
  <2> QED
    BY <2>1, <2>2, <2>3
<1> QED
  BY <1>8, <1>9, <1>10, <1>11 DEF rules

(* The rules of a list of pairs match exactly those flows. *)
LEMMA PairRulesMatch ==
  ASSUME NEW pairs \in Seq(Address \X Address), NEW t \in {"ACCEPT", "DROP"}
  PROVE  /\ PairRules(pairs, t) \in Seq(RuleSet)
         /\ \A f \in Flow :
              (\E i \in DOMAIN PairRules(pairs, t) : Matches(PairRules(pairs, t)[i], f))
                <=> \E j \in DOMAIN pairs : pairs[j] = f
         /\ \A i \in DOMAIN PairRules(pairs, t) : PairRules(pairs, t)[i].target = t
<1> DEFINE n == Len(pairs)
           rules == PairRules(pairs, t)
<1>1. n \in Nat /\ DOMAIN pairs = 1..n /\ \A j \in 1..n : pairs[j] \in Address \X Address
  OBVIOUS
<1>2. \A f \in Flow : f \in Address \X Address
  BY DEF Flow
<1>3. rules = [i \in 1..n |-> Rule({pairs[i][1]}, {pairs[i][2]}, t)]
  BY <1>1 DEF PairRules
<1>4. \A j \in 1..n : LET r == Rule({pairs[j][1]}, {pairs[j][2]}, t)
                      IN  /\ r \in RuleSet /\ r.target = t
                          /\ \A f \in Flow : Matches(r, f) <=> pairs[j] = f
  BY <1>1, <1>2 DEF Rule, RuleSet, Matches
<1> HIDE DEF n, rules
<1>5. \A j \in 1..n : /\ rules[j] \in RuleSet /\ rules[j].target = t
                      /\ \A f \in Flow : Matches(rules[j], f) <=> pairs[j] = f
  BY <1>3, <1>4, Zenon
<1>6. rules \in [1..n -> RuleSet]
  <2>1. rules = [i \in 1..n |-> rules[i]]
    BY <1>3
  <2> QED
    BY <1>5, <2>1
<1>7. rules \in Seq(RuleSet) /\ DOMAIN rules = 1..n
  BY <1>1, <1>6, IsList
<1> QED
  BY <1>1, <1>5, <1>7 DEF rules

(* ExpandACLs lists the flows between different nodes that a rule covers. *)
LEMMA ExpandedAsCovered ==
  ASSUME NEW d, NEW action, NEW f, f = <<f[1], f[2]>>, f[1] # f[2]
  PROVE  f \in ExpandACLs(d, action)
           <=> \E r \in Range(d.acls) : r.action = action /\ Covers(d, r, f)
<1> DEFINE Among(ip, gs) == \E a \in Range(d.agents) : a.tunnelIP = ip /\ Range(a.groups) \cap gs # {}
<1>1. \A ip, g : ip \in groupMembers(d, g)
                   <=> \E a \in Range(d.agents) : a.tunnelIP = ip /\ g \in Range(a.groups)
  BY DEF groupMembers
<1>2. \A r : Covers(d, r, f) <=> Among(f[1], Range(r.from)) /\ Among(f[2], Range(r.to))
  BY DEF Covers
<1>3. \A ip, gs : Among(ip, gs) <=> \E g \in gs : ip \in groupMembers(d, g)
  BY <1>1
<1> HIDE DEF Among
<1>4. f \in ExpandACLs(d, action)
        <=> \E r \in Range(d.acls) :
              /\ r.action = action
              /\ \E from \in Range(r.from), to \in Range(r.to) :
                   f \in groupMembers(d, from) \X groupMembers(d, to)
  <2> DEFINE Product(from, to) == {g \in groupMembers(d, from) \X groupMembers(d, to) : g[1] # g[2]}
             Products(r) == UNION {Product(from, to) : from \in Range(r.from), to \in Range(r.to)}
  <2>1. \A r : f \in Products(r) <=> \E from \in Range(r.from), to \in Range(r.to) :
                                       f \in groupMembers(d, from) \X groupMembers(d, to)
    <3>1. \A from, to : f \in Product(from, to) <=> f \in groupMembers(d, from) \X groupMembers(d, to)
      OBVIOUS
    <3> HIDE DEF Product
    <3> QED
      BY <3>1
  <2>2. ExpandACLs(d, action) = UNION {Products(r) : r \in {x \in Range(d.acls) : x.action = action}}
    BY DEF ExpandACLs
  <2> HIDE DEF Products
  <2> QED
    BY <2>1, <2>2
<1>5. \A A, B : f \in A \X B <=> f[1] \in A /\ f[2] \in B
  OBVIOUS
<1>6. \A r : (\E from \in Range(r.from), to \in Range(r.to) :
                f \in groupMembers(d, from) \X groupMembers(d, to))
             <=> Among(f[1], Range(r.from)) /\ Among(f[2], Range(r.to))
  BY <1>3, <1>5
<1> QED
  BY <1>2, <1>4, <1>6

(* The orders sortRules and Compile sort by are total. *)
LEMMA OrdersTotal ==
  /\ \A S \in SUBSET Nat : Orders(Ascending(S), S)
  /\ \A S \in SUBSET (Nat \X Nat) : Orders(PairOrder(S), S)
<1>1. ASSUME NEW S \in SUBSET Nat PROVE Orders(Ascending(S), S)
  BY DEF Orders, Ascending
<1>2. ASSUME NEW S \in SUBSET (Nat \X Nat) PROVE Orders(PairOrder(S), S)
  <2> DEFINE Less(x, y) == x[1] < y[1] \/ (x[1] = y[1] /\ x[2] < y[2])
  <2>1. \A x, y \in S : <<x, y>> \in PairOrder(S) <=> Less(x, y)
    BY DEF PairOrder
  <2>2. \A x \in S : x = <<x[1], x[2]>> /\ x[1] \in Nat /\ x[2] \in Nat
    OBVIOUS
  <2>3. \A x \in S : ~Less(x, x)
    BY <2>2
  <2>4. \A x, y, z \in S : Less(x, y) /\ Less(y, z) => Less(x, z)
    BY <2>2
  <2>5. \A x, y \in S : x = y \/ Less(x, y) \/ Less(y, x)
    BY <2>2
  <2> HIDE DEF Less
  <2> QED
    BY <2>1, <2>3, <2>4, <2>5 DEF Orders
<1> QED
  BY <1>1, <1>2

(* Sorting loses and adds nothing. *)
LEMMA SortedIsList ==
  ASSUME NEW X, NEW S \in SUBSET X, IsFiniteSet(S), NEW R, Orders(R, S)
  PROVE  /\ Sorted(S, R) \in Seq(X)
         /\ \A x : (\E i \in DOMAIN Sorted(S, R) : Sorted(S, R)[i] = x) <=> x \in S
<1> DEFINE s == Sorted(S, R)
           n == Cardinality(S)
<1>1. /\ n \in Nat /\ DOMAIN s = 1..n
      /\ \A i \in 1..n : s[i] \in S
      /\ \A x \in S : \E i \in 1..n : s[i] = x
  BY SortedLists
<1>2. s = [i \in 1..n |-> s[i]]
  <2> DEFINE e(i) == CHOOSE x \in S : Cardinality({y \in S : <<y, x>> \in R}) = i - 1
  <2>1. s = [i \in 1..n |-> e(i)]
    BY DEF Sorted
  <2> HIDE DEF e, s
  <2> QED
    BY <2>1
<1> HIDE DEF s, n
<1>3. s \in [1..n -> X]
  BY <1>1, <1>2
<1>4. s \in Seq(X)
  BY <1>1, <1>3, IsList
<1> QED
  BY <1>1, <1>4 DEF s

(* A prefix holds finitely many addresses. *)
LEMMA PrefixFinite ==
  ASSUME NEW d, Parsed(d)
  PROVE  d.cidr \subseteq Nat /\ IsFiniteSet(d.cidr)
<1>1. d \in Document /\ ValidateWireGuard(d)
  BY DEF Parsed, Validate
<1>2. d.cidr \subseteq Nat
  BY <1>1 DEF Document
<1>3. IsFiniteSet(d.cidr)
  BY <1>1 DEF ValidateWireGuard
<1> QED
  BY <1>2, <1>3

(* Compile and buildRules, for every document Parse returns: a list of     *)
(* rules whose first match decides each flow as the ACL means it.          *)
THEOREM CompiledAsMeant ==
  ASSUME NEW d, Parsed(d), d.cidr \subseteq Address
  PROVE  Compiled(d)
<1> DEFINE allows == ExpandACLs(d, "allow")
           denies == ExpandACLs(d, "deny")
           hubs == {h.tunnelIP : h \in Range(d.hubs)}
           c == Compile(d)
           H == HubRules(c.hubIPs)
           D == PairRules(c.denies, "DROP")
           A == PairRules(c.allows, "ACCEPT")
           T == <<Rule(c.overlay, c.overlay, "DROP"), Rule(Address, Address, "RETURN")>>
<1> HIDE DEF allows, denies, hubs, c, H, D, A, T
<1>1. d.cidr \subseteq Nat /\ IsFiniteSet(d.cidr)
  BY PrefixFinite
<1>2. hubs \in SUBSET d.cidr
  <2>1. \A i \in DOMAIN d.hubs : d.hubs[i].tunnelIP \in d.cidr
    BY NodesDistinct, Zenon
  <2>2. \A h \in Range(d.hubs) : h.tunnelIP \in d.cidr
    BY <2>1 DEF Range
  <2> QED
    BY <2>2 DEF hubs
<1>3. \A a \in Range(d.agents) : a.tunnelIP \in d.cidr
  <2>1. \A i \in DOMAIN d.agents : d.agents[i].tunnelIP \in d.cidr
    BY NodesDistinct, Zenon
  <2> QED
    BY <2>1 DEF Range
<1>4. \A action : ExpandACLs(d, action) \in SUBSET (d.cidr \X d.cidr)
  BY <1>3 DEF ExpandACLs, groupMembers
<1>5. IsFiniteSet(hubs) /\ IsFiniteSet(allows) /\ IsFiniteSet(denies)
  <2>1. IsFiniteSet(d.cidr \X d.cidr)
    BY <1>1, FS_Product
  <2>2. allows \in SUBSET (d.cidr \X d.cidr) /\ denies \in SUBSET (d.cidr \X d.cidr)
    BY <1>4 DEF allows, denies
  <2> QED
    BY <1>1, <1>2, <2>1, <2>2, FS_Subset
<1>6. /\ c.hubIPs \in Seq(Address)
      /\ \A x : (\E i \in DOMAIN c.hubIPs : c.hubIPs[i] = x) <=> x \in hubs
  <2>1. hubs \in SUBSET Address /\ hubs \in SUBSET Nat
    BY <1>1, <1>2
  <2>2. c.hubIPs = Sorted(hubs, Ascending(hubs))
    BY DEF Compile, c, hubs
  <2>3. Orders(Ascending(hubs), hubs)
    BY <2>1, OrdersTotal
  <2>4. /\ Sorted(hubs, Ascending(hubs)) \in Seq(Address)
        /\ \A x : (\E i \in DOMAIN Sorted(hubs, Ascending(hubs)) : Sorted(hubs, Ascending(hubs))[i] = x) <=> x \in hubs
    BY <1>5, <2>1, <2>3, SortedIsList, Zenon
  <2> QED
    BY <2>2, <2>4, Zenon
<1>7. /\ c.allows \in Seq(Address \X Address)
      /\ \A x : (\E i \in DOMAIN c.allows : c.allows[i] = x) <=> x \in allows
  <2>1. allows \in SUBSET (Address \X Address) /\ allows \in SUBSET (Nat \X Nat)
    BY <1>1, <1>4 DEF allows
  <2>2. c.allows = Sorted(allows, PairOrder(allows))
    BY DEF Compile, c, allows
  <2>3. Orders(PairOrder(allows), allows)
    BY <2>1, OrdersTotal
  <2>4. /\ Sorted(allows, PairOrder(allows)) \in Seq(Address \X Address)
        /\ \A x : (\E i \in DOMAIN Sorted(allows, PairOrder(allows)) : Sorted(allows, PairOrder(allows))[i] = x) <=> x \in allows
    BY <1>5, <2>1, <2>3, SortedIsList, Zenon
  <2> QED
    BY <2>2, <2>4, Zenon
<1>8. /\ c.denies \in Seq(Address \X Address)
      /\ \A x : (\E i \in DOMAIN c.denies : c.denies[i] = x) <=> x \in denies
  <2>1. denies \in SUBSET (Address \X Address) /\ denies \in SUBSET (Nat \X Nat)
    BY <1>1, <1>4 DEF denies
  <2>2. c.denies = Sorted(denies, PairOrder(denies))
    BY DEF Compile, c, denies
  <2>3. Orders(PairOrder(denies), denies)
    BY <2>1, OrdersTotal
  <2>4. /\ Sorted(denies, PairOrder(denies)) \in Seq(Address \X Address)
        /\ \A x : (\E i \in DOMAIN Sorted(denies, PairOrder(denies)) : Sorted(denies, PairOrder(denies))[i] = x) <=> x \in denies
    BY <1>5, <2>1, <2>3, SortedIsList
  <2> QED
    BY <2>2, <2>4, Zenon
<1>9. c.overlay = d.cidr
  BY DEF Compile, c
<1>10. H \in Seq(RuleSet) /\ D \in Seq(RuleSet) /\ A \in Seq(RuleSet)
  BY <1>6, <1>7, <1>8, HubRulesAccept, PairRulesMatch DEF H, D, A
<1>11. T \in Seq(RuleSet) /\ T # <<>> /\ DOMAIN T = 1..2
       /\ \A f \in Flow : Verdict(T, f) = IF f[1] \in d.cidr /\ f[2] \in d.cidr THEN "DROP" ELSE "RETURN"
  <2>1. /\ T[1] = Rule(d.cidr, d.cidr, "DROP") /\ T[2] = Rule(Address, Address, "RETURN")
        /\ DOMAIN T = 1..2
    BY <1>9 DEF T
  <2>2. T[1] \in RuleSet /\ T[2] \in RuleSet
    BY <2>1 DEF Rule, RuleSet
  <2>3. T \in Seq(RuleSet) /\ T # <<>>
    BY <2>2 DEF T
  <2>4. ASSUME NEW f \in Flow
        PROVE  Verdict(T, f) = IF f[1] \in d.cidr /\ f[2] \in d.cidr THEN "DROP" ELSE "RETURN"
    <3>1. (Matches(T[1], f) <=> f[1] \in d.cidr /\ f[2] \in d.cidr) /\ Matches(T[2], f)
      BY <2>1 DEF Matches, Rule, Flow
    <3>2. T[1].target = "DROP" /\ T[2].target = "RETURN"
      BY <2>1 DEF Rule
    <3>3. CASE Matches(T[1], f)
      <4> DEFINE hits == {i \in DOMAIN T : Matches(T[i], f)}
      <4>1. hits = {1, 2}
        BY <2>1, <3>1, <3>3
      <4>2. (CHOOSE i \in hits : \A j \in hits : i <= j) = 1
        BY <4>1
      <4>3. Verdict(T, f) = T[1].target
        <5>1. Verdict(T, f) = IF hits = {} THEN "RETURN"
                              ELSE T[CHOOSE i \in hits : \A j \in hits : i <= j].target
          BY Zenon DEF Verdict
        <5> QED
          BY <4>1, <4>2, <5>1
      <4> QED
        BY <3>1, <3>2, <3>3, <4>3
    <3>4. CASE ~Matches(T[1], f)
      <4>1. \A i \in DOMAIN T : Matches(T[i], f) => T[i].target = "RETURN"
        BY <2>1, <3>2, <3>4
      <4>2. Verdict(T, f) = "RETURN"
        <5>1. \E i \in DOMAIN T : Matches(T[i], f)
          BY <2>1, <3>1
        <5> QED
          BY <2>3, <4>1, <5>1, SameTarget, Zenon
      <4> QED
        BY <3>1, <3>4, <4>2
    <3> QED
      BY <3>3, <3>4
  <2> QED
    BY <2>1, <2>3, <2>4
<1>12. RulesFor(d) = ((H \o D) \o A) \o T
  BY DEF RulesFor, buildRules, H, D, A, T, c
<1>13. /\ \A f \in Flow : (\E i \in DOMAIN H : Matches(H[i], f)) <=> f[1] \in hubs \/ f[2] \in hubs
       /\ \A i \in DOMAIN H : H[i].target = "ACCEPT"
  BY <1>6, HubRulesAccept DEF H
<1>14. /\ \A f \in Flow : (\E i \in DOMAIN D : Matches(D[i], f)) <=> f \in denies
       /\ \A i \in DOMAIN D : D[i].target = "DROP"
  <2>1. /\ \A f \in Flow : (\E i \in DOMAIN D : Matches(D[i], f))
                             <=> \E j \in DOMAIN c.denies : c.denies[j] = f
        /\ \A i \in DOMAIN D : D[i].target = "DROP"
    BY <1>8, PairRulesMatch, Zenon DEF D
  <2> QED
    BY <1>8, <2>1
<1>15. /\ \A f \in Flow : (\E i \in DOMAIN A : Matches(A[i], f)) <=> f \in allows
       /\ \A i \in DOMAIN A : A[i].target = "ACCEPT"
  <2>1. /\ \A f \in Flow : (\E i \in DOMAIN A : Matches(A[i], f))
                             <=> \E j \in DOMAIN c.allows : c.allows[j] = f
        /\ \A i \in DOMAIN A : A[i].target = "ACCEPT"
    BY <1>7, PairRulesMatch DEF A
  <2> QED
    BY <1>7, <2>1
<1>16. RulesFor(d) \in Seq(RuleSet) /\ RulesFor(d) # <<>>
  <2>1. Len(T) \in Nat \ {0}
    BY <1>11
  <2>2. (H \o D) \o A \in Seq(RuleSet)
    BY <1>10
  <2> QED
    BY <1>11, <1>12, <2>1, <2>2, Joined
<1>17. ASSUME NEW f \in Flow
       PROVE  Verdict(RulesFor(d), f) = Policy(d, f)
  <2> DEFINE overlay == f[1] \in d.cidr /\ f[2] \in d.cidr
  <2>1. f = <<f[1], f[2]>> /\ f[1] # f[2]
    BY DEF Flow
  <2>2. Policy(d, f) = IF f[1] \in hubs \/ f[2] \in hubs THEN "ACCEPT"
                       ELSE IF f \in denies THEN "DROP"
                       ELSE IF f \in allows THEN "ACCEPT"
                       ELSE IF overlay THEN "DROP" ELSE "RETURN"
    <3>1. (\E h \in Range(d.hubs) : h.tunnelIP \in {f[1], f[2]}) <=> f[1] \in hubs \/ f[2] \in hubs
      BY DEF hubs
    <3>2. \A action : f \in ExpandACLs(d, action)
                        <=> {r \in Range(d.acls) : r.action = action /\ Covers(d, r, f)} # {}
      BY <2>1, ExpandedAsCovered
    <3> QED
      BY <3>1, <3>2, Zenon DEF Policy, allows, denies
  <2> HIDE DEF overlay
  <2>3. Verdict(RulesFor(d), f) =
          IF \E i \in DOMAIN H : Matches(H[i], f) THEN Verdict(H, f)
          ELSE IF \E i \in DOMAIN D : Matches(D[i], f) THEN Verdict(D, f)
          ELSE IF \E i \in DOMAIN A : Matches(A[i], f) THEN Verdict(A, f)
          ELSE Verdict(T, f)
    <3> DEFINE Hit(r) == \E i \in DOMAIN r : Matches(r[i], f)
    <3>1. ASSUME NEW a \in Seq(RuleSet), NEW b \in Seq(RuleSet)
          PROVE  /\ a \o b \in Seq(RuleSet)
                 /\ Verdict(a \o b, f) = IF Hit(a) THEN Verdict(a, f) ELSE Verdict(b, f)
                 /\ Hit(a \o b) <=> Hit(a) \/ Hit(b)
      <4>1. a \o b \in Seq(RuleSet)
        BY Joined
      <4>2. Verdict(a \o b, f) = IF Hit(a) THEN Verdict(a, f) ELSE Verdict(b, f)
        BY VerdictJoined, Zenon
      <4>3. Hit(a \o b) <=> Hit(a) \/ Hit(b)
        BY HitJoined, Zenon
      <4> QED
        BY <4>1, <4>2, <4>3
    <3> HIDE DEF Hit
    <3>2. H \o D \in Seq(RuleSet) /\ (H \o D) \o A \in Seq(RuleSet)
      BY <1>10, <3>1, Zenon
    <3>3. Verdict(((H \o D) \o A) \o T, f) =
            IF Hit(H) THEN Verdict(H, f) ELSE IF Hit(D) THEN Verdict(D, f)
            ELSE IF Hit(A) THEN Verdict(A, f) ELSE Verdict(T, f)
      <4>1. Verdict(((H \o D) \o A) \o T, f) =
              IF Hit((H \o D) \o A) THEN Verdict((H \o D) \o A, f) ELSE Verdict(T, f)
        <5>1. T \in Seq(RuleSet)
          BY <1>11
        <5> QED
          BY <3>1, <3>2, <5>1, Zenon
      <4>2. /\ Verdict((H \o D) \o A, f) = IF Hit(H \o D) THEN Verdict(H \o D, f) ELSE Verdict(A, f)
            /\ Hit((H \o D) \o A) <=> Hit(H \o D) \/ Hit(A)
        BY <1>10, <3>1, <3>2, Zenon
      <4>3. /\ Verdict(H \o D, f) = IF Hit(H) THEN Verdict(H, f) ELSE Verdict(D, f)
            /\ Hit(H \o D) <=> Hit(H) \/ Hit(D)
        BY <1>10, <3>1, Zenon
      <4> QED
        BY <4>1, <4>2, <4>3, Zenon
    <3> QED
      BY <1>12, <3>3 DEF Hit
  <2>4. f[1] \in hubs \/ f[2] \in hubs => Verdict(H, f) = "ACCEPT"
    BY <1>10, <1>13, SameTarget, Zenon
  <2>5. f \in denies => Verdict(D, f) = "DROP"
    BY <1>10, <1>14, SameTarget, Zenon
  <2>6. f \in allows => Verdict(A, f) = "ACCEPT"
    BY <1>10, <1>15, SameTarget, Zenon
  <2>7. Verdict(T, f) = IF overlay THEN "DROP" ELSE "RETURN"
    BY <1>11 DEF overlay
  <2> QED
    BY <1>13, <1>14, <1>15, <2>2, <2>3, <2>4, <2>5, <2>6, <2>7
<1> QED
  BY <1>16, <1>17 DEF Compiled, DecidesAsPolicy

-----------------------------------------------------------------------------
(* The elements of s at places I, each listed once in t. *)
Lists(t, s, I) ==
  \E at \in [DOMAIN t -> I] :
    /\ \A j \in DOMAIN t : t[j] = s[at[j]]
    /\ \A i \in I : \E j \in DOMAIN t : at[j] = i
    /\ \A j, k \in DOMAIN t : at[j] = at[k] => j = k

(* A loop that skips some elements lists the others. *)
LEMMA SelectedLists ==
  ASSUME NEW X, NEW s \in Seq(X), NEW I \in SUBSET DOMAIN s
  PROVE  Selected(s, I) \in Seq(X) /\ Lists(Selected(s, I), s, I)
<1> DEFINE n == Cardinality(I)
           R == Ascending(I)
           at == Sorted(I, R)
           sel == Selected(s, I)
<1>1. Len(s) \in Nat /\ DOMAIN s = 1..Len(s)
  OBVIOUS
<1>2. I \in SUBSET Nat /\ IsFiniteSet(I)
  <2>1. IsFiniteSet(1..Len(s))
    BY <1>1, FS_Interval
  <2> QED
    BY <1>1, <2>1, FS_Subset
<1>3. Orders(R, I)
  BY <1>2, OrdersTotal
<1>4. sel = [j \in 1..n |-> s[at[j]]]
  <2> DEFINE e(J) == [j \in 1..Cardinality(J) |-> s[Sorted(J, Ascending(J))[j]]]
             pick == [J \in SUBSET DOMAIN s |-> e(J)]
  <2>1. sel = pick[I]
    BY Zenon DEF Selected
  <2> HIDE DEF e
  <2>2. sel = e(I)
    BY <2>1
  <2> QED
    BY <2>2 DEF e
<1> HIDE DEF R
<1>5. /\ n \in Nat /\ DOMAIN at = 1..n
      /\ \A j \in 1..n : at[j] \in I
      /\ \A i \in I : \E j \in 1..n : at[j] = i
      /\ \A j, k \in 1..n : at[j] = at[k] => j = k
  BY <1>2, <1>3, SortedLists
<1>6. at \in Seq(I)
  BY <1>2, <1>3, SortedIsList
<1> HIDE DEF at, n, sel
<1>7. at \in [1..n -> I]
  BY <1>5, <1>6
<1>8. sel \in [1..n -> X] /\ DOMAIN sel = 1..n
  BY <1>4, <1>5
<1>9. sel \in Seq(X)
  BY <1>5, <1>8, IsList
<1>10. \A j \in DOMAIN sel : sel[j] = s[at[j]]
  BY <1>4, <1>8
<1>11. /\ at \in [DOMAIN sel -> I]
       /\ \A i \in I : \E j \in DOMAIN sel : at[j] = i
       /\ \A j, k \in DOMAIN sel : at[j] = at[k] => j = k
  BY <1>5, <1>7, <1>8
<1> QED
  BY <1>9, <1>10, <1>11, Zenon DEF Lists, sel

(* g lists the devices between dev and the last request. *)
InOrder(g, dev, configs) ==
  /\ g[0] = dev
  /\ \A i \in 1..Len(configs) : g[i] = ConfigurePeer(g[i - 1], configs[i])
  /\ ConfigurePeers(dev, configs) = g[Len(configs)]

(* ConfigurePeers makes one request after the other. *)
LEMMA ConfiguredInOrder ==
  ASSUME NEW dev, NEW configs, Len(configs) \in Nat
  PROVE  \E g : InOrder(g, dev, configs)
<1> DEFINE n == Len(configs)
           step(x, i) == ConfigurePeer(x, configs[i])
           Good(k, g) == /\ g = [i \in 0..k |-> g[i]] /\ g[0] = dev
                         /\ \A i \in 1..k : g[i] = step(g[i - 1], i)
           H == {k \in 0..n : \E g : Good(k, g)}
<1> HIDE DEF step, n
<1>0. n \in Nat
  BY DEF n
<1>1. Good(0, [i \in 0..0 |-> dev])
  OBVIOUS
<1>2. ASSUME NEW k \in 0..(n - 1), NEW g, Good(k, g) PROVE \E h : Good(k + 1, h)
  <2> DEFINE h == [i \in 0..(k + 1) |-> IF i = k + 1 THEN step(g[k], k + 1) ELSE g[i]]
  <2>0. k \in Nat /\ 0 \in 0..(k + 1) /\ 0 # k + 1
    BY <1>0
  <2>1. h = [i \in 0..(k + 1) |-> h[i]]
    OBVIOUS
  <2>2. h[0] = dev
    BY <1>2, <2>0
  <2>3. ASSUME NEW i \in 1..(k + 1) PROVE h[i] = step(h[i - 1], i)
    <3>1. i \in 0..(k + 1) /\ i - 1 \in 0..(k + 1) /\ i - 1 # k + 1
      BY <2>0
    <3>2. h[i - 1] = g[i - 1]
      BY <3>1
    <3>3. CASE i = k + 1
      <4>1. h[i] = step(g[k], k + 1) /\ i - 1 = k
        BY <2>0, <3>1, <3>3
      <4> QED
        BY <3>2, <3>3, <4>1
    <3>4. CASE i # k + 1
      <4>1. i \in 1..k /\ h[i] = g[i]
        BY <2>0, <3>1, <3>4
      <4> QED
        BY <1>2, <3>2, <4>1, Zenon
    <3> QED
      BY <3>3, <3>4
  <2> HIDE DEF h
  <2> QED
    BY <2>1, <2>2, <2>3
<1> HIDE DEF Good
<1>3. n \in H
  <2>1. 0 \in H
    BY <1>0, <1>1
  <2>2. \A i \in 0..(n - 1) : i \in H => i + 1 \in H
    BY <1>0, <1>2
  <2>3. 0..n \subseteq H
    <3> HIDE DEF H
    <3> QED  BY <1>0, <2>1, <2>2, UpTo
  <2> QED
    BY <1>0, <2>3
<1>4. PICK g : Good(n, g)
  BY <1>3
<1>5. g = [i \in 0..n |-> IF i = 0 THEN dev ELSE step(g[i - 1], i)]
  <2>1. g = [i \in 0..n |-> g[i]] /\ g[0] = dev /\ \A i \in 1..n : g[i] = step(g[i - 1], i)
    BY <1>4, Zenon DEF Good
  <2>2. \A i \in 0..n : g[i] = IF i = 0 THEN dev ELSE step(g[i - 1], i)
    <3>1. \A i \in 0..n : i # 0 => i \in 1..n
      BY <1>0
    <3> QED
      BY <2>1, <3>1, Zenon
  <2> QED
    BY <2>1, <2>2
<1> DEFINE after == CHOOSE f : f = [i \in 0..n |-> IF i = 0 THEN dev ELSE step(f[i - 1], i)]
<1>6. after = [i \in 0..n |-> IF i = 0 THEN dev ELSE step(after[i - 1], i)]
  BY <1>5, Zenon
<1>7. ConfigurePeers(dev, configs) = after[n]
  BY Zenon DEF ConfigurePeers, step, n
<1> HIDE DEF after
<1>8. /\ after[0] = dev
      /\ \A i \in 1..n : after[i] = step(after[i - 1], i)
  BY <1>0, <1>6
<1> QED
  BY <1>7, <1>8, Zenon DEF InOrder, step, n

-----------------------------------------------------------------------------
(* Milliseconds that the kernel may report: whole seconds. *)
WholeSeconds == {ms \in Int : ms % 1000 = 0}

PublicKeys == STRING \ {"", BadKey}
Prefixes == {x \in SUBSET Nat : x # {} /\ IsFiniteSet(x)}

(* A peer of a device and a request for one, with endpoints in E. *)
DevPeer(E) == [endpoint : E, allowed : SUBSET Prefixes, keepalive : WholeSeconds]
Config(E) == [publicKey : PublicKeys, replace : BOOLEAN, endpoint : E, allowed : SUBSET Prefixes,
              setKeepalive : BOOLEAN, keepalive : Int]

IsDevice(dev, E) == DOMAIN dev \subseteq PublicKeys /\ dev \in [DOMAIN dev -> DevPeer(E)]

(* The peers of a device share no prefix. *)
Disjoint(dev) == \A k, l \in DOMAIN dev : k # l => dev[k].allowed \cap dev[l].allowed = {}

(* What is sent in seconds is reported in whole seconds. *)
LEMMA SecondsWhole == \A ms \in Int : Seconds(ms) \in WholeSeconds
<1> SUFFICES ASSUME NEW ms \in Int PROVE Seconds(ms) \in WholeSeconds
  OBVIOUS
<1> DEFINE x == (ms \div 1000) % U16
<1>1. U16 \in Nat \ {0}
  BY DEF U16
<1>2. x \in Int
  BY <1>1
<1> HIDE DEF x
<1>3. x * 1000 \in Int /\ (x * 1000) % 1000 = 0
  BY <1>2
<1> QED
  BY <1>3 DEF x, Seconds, WholeSeconds

(* One request: its peer gets the prefixes, the others lose them. *)
HasTaken(new, dev, c, E) ==
  /\ DOMAIN new = DOMAIN dev \cup {c.publicKey}
  /\ IsDevice(new, E)
  /\ c.replace \/ c.publicKey \notin DOMAIN dev => new[c.publicKey].allowed = c.allowed
  /\ \A k \in DOMAIN dev \ {c.publicKey} : new[k].allowed = dev[k].allowed \ c.allowed

(* The kernel takes a request. *)
LEMMA OneConfigured ==
  ASSUME NEW E, NoAddr \in E, NEW dev, IsDevice(dev, E), NEW c \in Config(E)
  PROVE  HasTaken(ConfigurePeer(dev, c), dev, c, E)
<1> DEFINE new == ConfigurePeer(dev, c)
           key == c.publicKey
           old == IF key \in DOMAIN dev THEN dev[key]
                  ELSE [endpoint |-> NoAddr, allowed |-> {}, keepalive |-> 0]
           peer == [endpoint |-> IF c.endpoint = NoAddr THEN old.endpoint ELSE c.endpoint,
                    allowed |-> c.allowed \cup IF c.replace THEN {} ELSE old.allowed,
                    keepalive |-> IF c.setKeepalive THEN Seconds(c.keepalive) ELSE old.keepalive]
           rest(k) == [dev[k] EXCEPT !.allowed = @ \ c.allowed]
<1>1. new = [k \in DOMAIN dev \cup {key} |-> IF k = key THEN peer ELSE rest(k)]
  BY Zenon DEF ConfigurePeer
<1>2. 0 \in WholeSeconds /\ Seconds(c.keepalive) \in WholeSeconds
  BY SecondsWhole DEF WholeSeconds, Config
<1>3. \A k \in DOMAIN dev : dev[k] \in DevPeer(E)
  BY DEF IsDevice
<1>4. old \in DevPeer(E)
  BY <1>2, <1>3 DEF DevPeer
<1>5. peer \in DevPeer(E) /\ (c.replace \/ key \notin DOMAIN dev => peer.allowed = c.allowed)
  <2>1. peer \in DevPeer(E)
    <3> HIDE DEF old
    <3> QED  BY <1>2, <1>4 DEF DevPeer, Config
  <2>2. key \notin DOMAIN dev => old.allowed = {}
    OBVIOUS
  <2> QED
    BY <2>1, <2>2
<1>6. \A k \in DOMAIN dev : rest(k) \in DevPeer(E) /\ rest(k).allowed = dev[k].allowed \ c.allowed
  BY <1>3 DEF DevPeer
<1> HIDE DEF peer, rest, new
<1>7. DOMAIN new = DOMAIN dev \cup {key}
  BY <1>1
<1>8. \A k \in DOMAIN new : new[k] \in DevPeer(E)
  BY <1>1, <1>5, <1>6, <1>7
<1>9. IsDevice(new, E)
  <2>1. key \in PublicKeys /\ DOMAIN dev \subseteq PublicKeys
    BY DEF IsDevice, Config
  <2> QED
    BY <1>1, <1>7, <1>8, <2>1 DEF IsDevice
<1>10. new[key] = peer /\ \A k \in DOMAIN dev \ {key} : new[k] = rest(k)
  BY <1>1
<1> QED
  BY <1>5, <1>6, <1>7, <1>9, <1>10 DEF HasTaken, new

(* Requests for different peers with different prefixes, each of which     *)
(* sets the prefixes of its peer.                                          *)
Requests(cs, dev, E) ==
  /\ cs \in Seq(Config(E))
  /\ \A i \in DOMAIN cs : cs[i].replace \/ cs[i].publicKey \notin DOMAIN dev
  /\ \A i, j \in DOMAIN cs :
       i # j => cs[i].publicKey # cs[j].publicKey /\ cs[i].allowed \cap cs[j].allowed = {}

(* The device new holds after the first n of them. *)
HasConfigured(new, dev, cs, n, E) ==
  /\ IsDevice(new, E)
  /\ DOMAIN new = DOMAIN dev \cup {cs[i].publicKey : i \in 1..n}
  /\ \A i \in 1..n : new[cs[i].publicKey].allowed = cs[i].allowed
  /\ \A k \in DOMAIN dev :
       (\A i \in 1..n : cs[i].publicKey # k) =>
         \A x : x \in new[k].allowed <=> x \in dev[k].allowed /\ \A i \in 1..n : x \notin cs[i].allowed

(* WireGuard applies one more of them: a peer that is replaced or new ends *)
(* with exactly its allowed IPs, and every other peer loses those.         *)
LEMMA OneMoreConfigured ==
  ASSUME NEW E, NoAddr \in E, NEW dev, IsDevice(dev, E), NEW cs, Requests(cs, dev, E),
         NEW n \in Nat, n + 1 \in DOMAIN cs, NEW have, HasConfigured(have, dev, cs, n, E),
         NEW new, new = ConfigurePeer(have, cs[n + 1])
  PROVE  HasConfigured(new, dev, cs, n + 1, E)
<1> DEFINE c == cs[n + 1]
           key(i) == cs[i].publicKey
           gets(i) == cs[i].allowed
           holds(k) == have[k].allowed
           held(k) == dev[k].allowed
           will(k) == new[k].allowed
<1>1. /\ Len(cs) \in Nat /\ DOMAIN cs = 1..Len(cs) /\ n + 1 \in 1..Len(cs)
      /\ 1..n \subseteq DOMAIN cs /\ 1..(n + 1) = 1..n \cup {n + 1} /\ n + 1 \notin 1..n
      /\ c \in Config(E)
  <2>1. cs \in Seq(Config(E))
    BY Zenon DEF Requests
  <2> QED
    BY <2>1
<1>2. /\ \A i \in DOMAIN cs : cs[i].replace \/ key(i) \notin DOMAIN dev
      /\ \A i, j \in DOMAIN cs : i # j => key(i) # key(j) /\ gets(i) \cap gets(j) = {}
  BY DEF Requests
<1>3. /\ DOMAIN new = DOMAIN have \cup {key(n + 1)}
      /\ IsDevice(new, E)
      /\ c.replace \/ key(n + 1) \notin DOMAIN have => will(key(n + 1)) = gets(n + 1)
      /\ \A k \in DOMAIN have \ {key(n + 1)} : will(k) = holds(k) \ gets(n + 1)
  <2>1. IsDevice(have, E)
    BY DEF HasConfigured
  <2>2. HasTaken(new, have, c, E)
    BY <1>1, <2>1, OneConfigured
  <2> QED
    BY <2>2, Zenon DEF HasTaken
<1>4. /\ DOMAIN have = DOMAIN dev \cup {key(i) : i \in 1..n}
      /\ \A i \in 1..n : holds(key(i)) = gets(i)
      /\ \A k \in DOMAIN dev : (\A i \in 1..n : key(i) # k) =>
           \A x : x \in holds(k) <=> x \in held(k) /\ \A i \in 1..n : x \notin gets(i)
  BY Zenon DEF HasConfigured
<1> HIDE DEF c, key, gets, holds, held, will
<1>5. \A i \in 1..n : key(i) # key(n + 1) /\ gets(i) \cap gets(n + 1) = {}
  BY <1>1, <1>2
<1>6. DOMAIN new = DOMAIN dev \cup {key(i) : i \in 1..(n + 1)}
  BY <1>1, <1>3, <1>4
<1>7. ASSUME NEW i \in 1..(n + 1) PROVE will(key(i)) = gets(i)
  <2>1. CASE i = n + 1
    <3>1. c.replace \/ key(n + 1) \notin DOMAIN have
      BY <1>1, <1>2, <1>4, <1>5 DEF c
    <3> QED
      BY <1>3, <2>1, <3>1
  <2>2. CASE i \in 1..n
    <3>1. key(i) \in DOMAIN have \ {key(n + 1)} /\ holds(key(i)) = gets(i)
      BY <1>4, <1>5, <2>2
    <3>2. will(key(i)) = gets(i) \ gets(n + 1)
      BY <1>3, <3>1
    <3> QED
      BY <1>5, <2>2, <3>2
  <2> QED
    BY <1>1, <2>1, <2>2
<1>8. ASSUME NEW k \in DOMAIN dev, \A i \in 1..(n + 1) : key(i) # k, NEW x
      PROVE  x \in will(k) <=> x \in held(k) /\ \A i \in 1..(n + 1) : x \notin gets(i)
  <2>1. k \in DOMAIN have \ {key(n + 1)} /\ \A i \in 1..n : key(i) # k
    BY <1>1, <1>4, <1>8
  <2>2. x \in will(k) <=> x \in holds(k) /\ x \notin gets(n + 1)
    BY <1>3, <2>1
  <2>3. x \in holds(k) <=> x \in held(k) /\ \A i \in 1..n : x \notin gets(i)
    BY <1>4, <2>1
  <2> QED
    BY <1>1, <2>2, <2>3
<1> QED
  BY <1>3, <1>6, <1>7, <1>8, Zenon DEF HasConfigured, key, gets, held, will

(* A sequence of requests, and what it does not touch. *)
LEMMA AllConfigured ==
  ASSUME NEW E, NoAddr \in E, NEW dev, IsDevice(dev, E), NEW cs, Requests(cs, dev, E)
  PROVE  HasConfigured(ConfigurePeers(dev, cs), dev, cs, Len(cs), E)
<1> DEFINE n == Len(cs)
<1>1. n \in Nat /\ DOMAIN cs = 1..n
  BY DEF Requests
<1>2. PICK g : InOrder(g, dev, cs)
  BY <1>1, ConfiguredInOrder
<1>3. /\ g[0] = dev
      /\ \A i \in 1..n : g[i] = ConfigurePeer(g[i - 1], cs[i])
      /\ ConfigurePeers(dev, cs) = g[n]
  BY <1>2, Zenon DEF InOrder
<1> HIDE DEF n
<1> DEFINE H == {i \in 0..n : HasConfigured(g[i], dev, cs, i, E)}
<1>4. 0 \in H
  <2>1. HasConfigured(dev, dev, cs, 0, E)
    BY DEF HasConfigured
  <2> QED
    BY <1>1, <1>3, <2>1
<1>5. ASSUME NEW i \in 0..(n - 1), i \in H PROVE i + 1 \in H
  <2>1. i \in Nat /\ i + 1 \in DOMAIN cs /\ i + 1 \in 1..n /\ i + 1 - 1 = i /\ i + 1 \in 0..n
    BY <1>1
  <2>2. g[i + 1] = ConfigurePeer(g[i], cs[i + 1])
    BY <1>3, <2>1
  <2>3. HasConfigured(g[i + 1], dev, cs, i + 1, E)
    BY <1>5, <2>1, <2>2, OneMoreConfigured
  <2> QED
    BY <2>1, <2>3
<1> HIDE DEF H
<1>6. 0..n \subseteq H
  BY <1>1, <1>4, <1>5, UpTo
<1> QED
  BY <1>1, <1>3, <1>6 DEF H, n

(* Requests keep the prefixes of a device disjoint. *)
LEMMA ConfiguredDisjoint ==
  ASSUME NEW E, NEW dev, Disjoint(dev), NEW cs, Requests(cs, dev, E), NEW new,
         HasConfigured(new, dev, cs, Len(cs), E)
  PROVE  Disjoint(new)
<1> DEFINE n == Len(cs)
           key(i) == cs[i].publicKey
           gets(i) == cs[i].allowed
           held(k) == dev[k].allowed
           has(k) == new[k].allowed
<1>1. DOMAIN cs = 1..n
  BY DEF Requests
<1>2. \A i, j \in 1..n : i # j => key(i) # key(j) /\ gets(i) \cap gets(j) = {}
  BY <1>1 DEF Requests
<1>3. /\ DOMAIN new = DOMAIN dev \cup {key(i) : i \in 1..n}
      /\ \A i \in 1..n : has(key(i)) = gets(i)
      /\ \A k \in DOMAIN dev : (\A i \in 1..n : key(i) # k) =>
           \A x : x \in has(k) <=> x \in held(k) /\ \A i \in 1..n : x \notin gets(i)
  BY Zenon DEF HasConfigured
<1>4. \A k, l \in DOMAIN dev : k # l => held(k) \cap held(l) = {}
  BY DEF Disjoint
<1> HIDE DEF n, key, gets, held, has
<1>5. ASSUME NEW k \in DOMAIN new, NEW l \in DOMAIN new, k # l PROVE has(k) \cap has(l) = {}
  <2>1. CASE \E i \in 1..n : key(i) = k
    <3>1. PICK i \in 1..n : key(i) = k
      BY <2>1
    <3>2. CASE \E j \in 1..n : key(j) = l
      BY <1>2, <1>3, <1>5, <3>1, <3>2
    <3>3. CASE ~\E j \in 1..n : key(j) = l
      BY <1>3, <3>1, <3>3
    <3> QED
      BY <3>2, <3>3
  <2>2. CASE ~\E i \in 1..n : key(i) = k
    <3>1. CASE \E j \in 1..n : key(j) = l
      BY <1>3, <2>2, <3>1
    <3>2. CASE ~\E j \in 1..n : key(j) = l
      BY <1>3, <1>4, <1>5, <2>2, <3>2
    <3> QED
      BY <3>1, <3>2
  <2> QED
    BY <2>1, <2>2
<1> QED
  BY <1>5 DEF Disjoint, has
=============================================================================
