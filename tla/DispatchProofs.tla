--------------------------- MODULE DispatchProofs ---------------------------
(***************************************************************************)
(* Proofs about subscriptions and the way of a message to the subscribers, *)
(* for any sessions, packets and topics: what the recursive walk through   *)
(* the subscription tree finds, that a session that has ended stays        *)
(* forgotten, and whom a message may miss.                                 *)
(*                                                                         *)
(* Recursive definitions are reasoned about with a smallest                *)
(* counterexample (LeastNat) in the place of induction.                    *)
(***************************************************************************)
EXTENDS Dispatch, SequenceTheorems, WellFoundedInduction, TLAPS

-----------------------------------------------------------------------------
(* A set of numbers that is not empty has a least element. *)
LEMMA LeastNat ==
    ASSUME NEW S \in SUBSET Nat, S # {}
    PROVE  \E n \in S : \A m \in S : n <= m
<1> DEFINE R == OpToRel(<, Nat)
<1>1. IsWellFoundedOn(R, Nat)
  BY NatLessThanWellFounded
<1>2. \A m, n \in Nat : m < n => <<m, n>> \in R
  BY DEF OpToRel
<1> HIDE DEF R
<1>3. PICK n \in S : \A m \in S : ~ (<<m, n>> \in R)
  BY <1>1, WFMin
<1>4. \A m \in S : ~ (m < n)
  BY <1>2, <1>3
<1> QED
  BY <1>4

(* A set of numbers that is not empty and has a bound has a largest one. *)
LEMMA LargestNat ==
    ASSUME NEW b \in Nat, NEW S \in SUBSET (0 .. b), S # {}
    PROVE  \E n \in S : \A m \in S : m <= n
<1> DEFINE D == {b - n : n \in S}
<1>1. D \in SUBSET Nat /\ D # {}
  <2>1. \A n \in S : n \in 0 .. b /\ b - n \in Nat
    OBVIOUS
  <2> QED
    BY <2>1
<1>2. PICK d \in D : \A e \in D : d <= e
  BY <1>1, LeastNat
<1>3. PICK n \in S : d = b - n
  BY <1>2
<1>4. \A m \in S : b - n <= b - m
  BY <1>2, <1>3
<1>5. \A m \in S : m <= n
  BY <1>4
<1> QED
  BY <1>5

(* What holds at 0 and is kept up to L holds up to L. *)
LEMMA UpTo ==
    ASSUME NEW L \in Nat, NEW h, NEW T, h[0] \in T,
           \A n \in 1 .. L : h[n - 1] \in T => h[n] \in T
    PROVE  \A n \in 0 .. L : h[n] \in T
<1> DEFINE Bad == {n \in 0 .. L : h[n] \notin T}
<1> SUFFICES ASSUME Bad # {} PROVE FALSE
  OBVIOUS
<1>0. \A n : n \in Bad <=> n \in 0 .. L /\ h[n] \notin T
  OBVIOUS
<1>e. Bad \in SUBSET Nat
  OBVIOUS
<1> HIDE DEF Bad
<1>1. PICK n \in Bad : \A m \in Bad : n <= m
  BY <1>e, LeastNat
<1>2. n \in 1 .. L /\ h[n] \notin T
  <2>1. n \in 0 .. L /\ h[n] \notin T
    BY <1>0, <1>1
  <2>2. n # 0
    BY <2>1
  <2> QED
    BY <2>1, <2>2
<1>3. n - 1 \in 0 .. L /\ n - 1 \notin Bad
  <2>1. n - 1 \in 0 .. L /\ ~ (n <= n - 1)
    BY <1>2
  <2> QED
    BY <1>1, <2>1
<1>4. h[n - 1] \in T
  BY <1>0, <1>3
<1> QED
  BY <1>2, <1>4

(* f holds the results of L rounds of F that begin with a. *)
Rounds(f, L, a, F) == f[0] = a /\ \A n \in 1 .. L : f[n] = F[<<f[n - 1], n>>]

(* A loop over 1 .. L has a result after each round. *)
LEMMA LoopExists ==
    ASSUME NEW L \in Nat, NEW T, NEW a \in T, NEW F \in [T \X (1 .. L) -> T]
    PROVE  \E f \in [0 .. L -> T] : Rounds(f, L, a, F)
<1> DEFINE Is(f, k) == f[0] = a /\ \A n \in 1 .. k : f[n] = F[<<f[n - 1], n>>]
           Bad == {k \in 0 .. L : ~ \E f \in [0 .. k -> T] : Is(f, k)}
<1>0. \A k : k \in Bad <=> k \in 0 .. L /\ ~ \E f \in [0 .. k -> T] : Is(f, k)
  OBVIOUS
<1>e. Bad \in SUBSET Nat
  OBVIOUS
<1> HIDE DEF Bad
<1>1. Bad = {}
  <2> SUFFICES ASSUME Bad # {} PROVE FALSE
    OBVIOUS
  <2>1. PICK k \in Bad : \A m \in Bad : k <= m
    BY <1>e, LeastNat
  <2>2. CASE k = 0
    <3> DEFINE f == [n \in 0 .. k |-> a]
    <3>1. f \in [0 .. k -> T] /\ f[0] = a /\ 1 .. k = {}
      BY <2>2
    <3>2. Is(f, k)
      BY <3>1
    <3> HIDE DEF f, Is
    <3> QED
      BY <1>0, <2>1, <3>1, <3>2
  <2>3. CASE k # 0
    <3>1. k \in 1 .. L /\ k - 1 \in 0 .. L /\ k - 1 \notin Bad
      <4>1. k \in 1 .. L /\ k - 1 \in 0 .. L /\ ~ (k <= k - 1)
        BY <1>0, <2>1, <2>3
      <4> QED
        BY <2>1, <4>1
    <3>2. PICK f \in [0 .. k - 1 -> T] : Is(f, k - 1)
      BY <1>0, <3>1
    <3> DEFINE g == [n \in 0 .. k |-> IF n = k THEN F[<<f[k - 1], k>>] ELSE f[n]]
    <3>3. F[<<f[k - 1], k>>] \in T
      BY <3>1
    <3>4. g \in [0 .. k -> T]
      BY <3>1, <3>3
    <3>5. g[0] = a
      BY <3>1, <3>2
    <3>6. ASSUME NEW n \in 1 .. k PROVE g[n] = F[<<g[n - 1], n>>]
      <4>1. n - 1 \in 0 .. k /\ n - 1 # k /\ g[n - 1] = f[n - 1]
        BY <3>1
      <4>2. CASE n = k
        BY <4>1, <4>2
      <4>3. CASE n # k
        <5>1. n \in 1 .. k - 1 /\ g[n] = f[n]
          BY <3>1, <4>3
        <5> QED
          BY <3>2, <4>1, <5>1
      <4> QED
        BY <4>2, <4>3
    <3> HIDE DEF g
    <3>7. Is(g, k)
      BY <3>5, <3>6
    <3> HIDE DEF Is
    <3> QED
      BY <1>0, <2>1, <3>4, <3>7
  <2> QED
    BY <2>2, <2>3
<1>2. \E f \in [0 .. L -> T] : Is(f, L)
  <2>1. L \in 0 .. L /\ L \notin Bad
    BY <1>1
  <2> HIDE DEF Is
  <2> QED
    BY <1>0, <2>1
<1> QED
  BY <1>2 DEF Rounds

-----------------------------------------------------------------------------
(* Appending a level, whatever it is. *)
LEMMA AppendFacts ==
    ASSUME NEW p \in Seq(STRING), NEW x
    PROVE  /\ Len(Append(p, x)) = Len(p) + 1
           /\ \A i \in 1 .. Len(p) : Append(p, x)[i] = p[i]
           /\ Append(p, x)[Len(p) + 1] = x
<1> DEFINE S == STRING \cup {x}
<1>1. p \in Seq(S) /\ x \in S
  BY SeqMonotonic
<1> HIDE DEF S
<1> QED
  BY <1>1, AppendProperties

(* A path is the first levels of a filter. *)
LEMMA PathFacts ==
    ASSUME NEW q \in Seq(STRING), NEW n \in 0 .. Len(q)
    PROVE  /\ SubSeq(q, 1, n) \in Seq(STRING)
           /\ Len(SubSeq(q, 1, n)) = n
           /\ \A i \in 1 .. n : SubSeq(q, 1, n)[i] = q[i]
<1>1. n \in Int /\ n \in Nat /\ n <= Len(q) /\ Len(q) \in Nat
  OBVIOUS
<1>2. \A i \in 1 .. n : q[i] \in STRING
  BY <1>1, LenProperties
<1>3. /\ SubSeq(q, 1, n) \in Seq(STRING)
      /\ Len(SubSeq(q, 1, n)) = IF 1 <= n THEN n - 1 + 1 ELSE 0
      /\ \A i \in 1 .. n - 1 + 1 : SubSeq(q, 1, n)[i] = q[1 + i - 1]
  BY <1>1, <1>2, SubSeqProperties
<1>4. (IF 1 <= n THEN n - 1 + 1 ELSE 0) = n /\ n - 1 + 1 = n
  BY <1>1
<1>5. \A i \in 1 .. n : 1 + i - 1 = i
  BY <1>1
<1> QED
  BY <1>3, <1>4, <1>5

(* The paths of a path of a filter are paths of the filter. *)
LEMMA PathsOfPath ==
    ASSUME NEW q \in Seq(STRING), NEW p \in Paths(q)
    PROVE  p \in Seq(STRING) /\ Len(p) \in 1 .. Len(q) /\ Paths(p) \subseteq Paths(q)
<1>1. PICK n \in 1 .. Len(q) : p = SubSeq(q, 1, n)
  BY DEF Paths
<1>2. n \in 0 .. Len(q) /\ Len(q) \in Nat
  OBVIOUS
<1>3. p \in Seq(STRING) /\ Len(p) = n /\ \A i \in 1 .. n : p[i] = q[i]
  BY <1>1, <1>2, PathFacts
<1>4. ASSUME NEW m \in 1 .. n PROVE SubSeq(p, 1, m) = SubSeq(q, 1, m)
  <2>1. m \in 0 .. Len(p) /\ m \in 0 .. Len(q) /\ \A i \in 1 .. m : i \in 1 .. n
    BY <1>2, <1>3
  <2> DEFINE a == SubSeq(p, 1, m)
             b == SubSeq(q, 1, m)
  <2>2. a \in Seq(STRING) /\ Len(a) = m /\ \A i \in 1 .. m : a[i] = p[i]
    BY <1>3, <2>1, PathFacts
  <2>3. b \in Seq(STRING) /\ Len(b) = m /\ \A i \in 1 .. m : b[i] = q[i]
    BY <2>1, PathFacts
  <2>4. \A i \in 1 .. m : a[i] = b[i]
    BY <1>3, <2>1, <2>2, <2>3
  <2> HIDE DEF a, b
  <2>5. a = b
    BY <2>2, <2>3, <2>4, SeqEqual
  <2> QED
    BY <2>5 DEF a, b
<1>5. \A m \in 1 .. n : m \in 1 .. Len(q)
  BY <1>2
<1> QED
  BY <1>2, <1>3, <1>4, <1>5 DEF Paths

LEMMA OwnPath ==
    ASSUME NEW q \in Split
    PROVE  q \in Paths(q) /\ q \in Seq(STRING)
<1>1. q \in Seq(STRING) /\ Len(q) \in 1 .. Len(q)
  BY DEF Split
<1>2. q = SubSeq(q, 1, Len(q))
  BY <1>1, SubSeqFull
<1> QED
  BY <1>1, <1>2 DEF Paths

(* The filters of a packet. *)
LEMMA PacketFacts ==
    ASSUME NEW k \in SubPackets, NEW n \in 1 .. Len(k)
    PROVE  k[n].filter \in Split /\ k[n].qos \in Qoss /\ Paths(k[n].filter) \subseteq Levels
<1>1. k \in Seq([filter : Split, qos : Qoss])
  BY DispatchAssumption
<1>2. k[n] \in [filter : Split, qos : Qoss]
  BY <1>1, ElementOfSeq
<1>3. k[n] \in UNION {{p[i] : i \in 1 .. Len(p)} : p \in SubPackets}
  OBVIOUS
<1> QED
  BY <1>2, <1>3 DEF Levels, Paths

(* The nodes a tree can have. *)
LEMMA LevelFacts ==
    ASSUME NEW p \in Levels
    PROVE  p \in Seq(STRING) /\ Len(p) \in 1 .. MaxLevels /\ Paths(p) \subseteq Levels
<1>1. PICK k \in SubPackets : \E i \in 1 .. Len(k) : p \in Paths(k[i].filter)
  <2>1. PICK e \in UNION {{k[i] : i \in 1 .. Len(k)} : k \in SubPackets} :
             p \in {SubSeq(e.filter, 1, n) : n \in 1 .. Len(e.filter)}
    BY DEF Levels
  <2> QED
    BY <2>1 DEF Paths
<1>a. PICK i \in 1 .. Len(k) : p \in Paths(k[i].filter)
  BY <1>1
<1>2. k[i].filter \in Seq(STRING) /\ Len(k[i].filter) \in 1 .. MaxLevels
  BY PacketFacts DEF Split
<1>3. p \in Seq(STRING) /\ Len(p) \in 1 .. Len(k[i].filter) /\ Paths(p) \subseteq Paths(k[i].filter)
  BY <1>a, <1>2, PathsOfPath
<1>4. Paths(k[i].filter) \subseteq Levels
  BY PacketFacts
<1>5. MaxLevels \in Nat
  BY DEF MaxLevels
<1>6. Len(p) \in 1 .. MaxLevels
  BY <1>2, <1>3, <1>5
<1> QED
  BY <1>3, <1>4, <1>6

-----------------------------------------------------------------------------
(* The trees: every node has its parents. *)
Domains == {E \in SUBSET Levels : \A p \in E : Paths(p) \subseteq E}

Trees == UNION {[D -> NodeType] : D \in Domains}

(* The trees without a subscription of session r. *)
Without(r) == {t \in Trees : \A p \in DOMAIN t : t[p][r] = NoQos}

LEMMA TreeFacts ==
    ASSUME NEW t \in Trees
    PROVE  DOMAIN t \in Domains /\ t \in [DOMAIN t -> NodeType]
BY DEF Trees

LEMMA InsertFacts ==
    ASSUME NEW t \in Trees, NEW f \in Split, Paths(f) \subseteq Levels,
           NEW q \in Qoss, NEW s \in Sessions
    PROVE  /\ insert(t, f, q, s) \in Trees
           /\ \A r \in Sessions \ {s} : t \in Without(r) => insert(t, f, q, s) \in Without(r)
<1> DEFINE D == DOMAIN t \cup Paths(f)
           u == insert(t, f, q, s)
           Node(p) == IF p \in DOMAIN t THEN t[p] ELSE newNode
<1>1. DOMAIN t \in Domains /\ t \in [DOMAIN t -> NodeType]
  BY TreeFacts
<1>2. D \in Domains
  <2>1. \A p \in Paths(f) : Paths(p) \subseteq Paths(f)
    BY OwnPath, PathsOfPath
  <2> QED
    BY <1>1, <2>1 DEF Domains
<1>3. newNode \in NodeType
  BY DEF newNode, NodeType
<1>4. \A p \in D : Node(p) \in NodeType
  BY <1>1, <1>3
<1>5. u = [p \in D |-> IF p = f THEN [Node(p) EXCEPT ![s] = q] ELSE Node(p)]
  BY DEF insert
<1>6. \A c \in NodeType : [c EXCEPT ![s] = q] \in NodeType
  BY DEF NodeType
<1> HIDE DEF D, Node, u
<1>7. DOMAIN u = D /\ u \in [D -> NodeType]
  BY <1>4, <1>5, <1>6
<1>8. u \in Trees
  BY <1>2, <1>7 DEF Trees
<1>9. ASSUME NEW r \in Sessions \ {s}, t \in Without(r) PROVE u \in Without(r)
  <2>1. ASSUME NEW p \in D PROVE u[p][r] = NoQos
    <3>1. Node(p)[r] = NoQos
      BY <1>9 DEF Node, Without, newNode
    <3>2. Node(p) \in NodeType
      BY <1>4
    <3>3. [Node(p) EXCEPT ![s] = q][r] = Node(p)[r]
      BY <3>2 DEF NodeType
    <3>4. u[p] = IF p = f THEN [Node(p) EXCEPT ![s] = q] ELSE Node(p)
      BY <1>5
    <3> QED
      BY <3>1, <3>3, <3>4
  <2> QED
    BY <1>7, <1>8, <2>1 DEF Without
<1> QED
  BY <1>8, <1>9 DEF u

(* The loop of Add stays in a set of trees that each insert stays in. *)
LEMMA AddLoop ==
    ASSUME NEW t \in Trees, NEW subs \in SubPackets, NEW s \in Sessions,
           NEW T \in SUBSET Trees, t \in T,
           \A u \in T, n \in 1 .. Len(subs) : insert(u, subs[n].filter, subs[n].qos, s) \in T
    PROVE  Add(t, subs, s) \in T
<1> DEFINE L == Len(subs)
           F == [x \in T \X (1 .. L) |-> insert(x[1], subs[x[2]].filter, subs[x[2]].qos, s)]
           h == CHOOSE g : g = [n \in 0 .. Len(subs) |->
                                  IF n = 0 THEN t
                                  ELSE insert(g[n - 1], subs[n].filter, subs[n].qos, s)]
<1>1. L \in Nat
  BY DispatchAssumption
<1>2. F \in [T \X (1 .. L) -> T]
  OBVIOUS
<1>3. PICK f \in [0 .. L -> T] : Rounds(f, L, t, F)
  <2> HIDE DEF L, F
  <2> QED
    BY <1>1, <1>2, LoopExists
<1>4. \A n \in 1 .. L : f[n] = insert(f[n - 1], subs[n].filter, subs[n].qos, s)
  <2> SUFFICES ASSUME NEW n \in 1 .. L
               PROVE  f[n] = insert(f[n - 1], subs[n].filter, subs[n].qos, s)
    OBVIOUS
  <2>1. n - 1 \in 0 .. L
    BY <1>1
  <2>2. <<f[n - 1], n>> \in T \X (1 .. L)
    BY <2>1
  <2> QED
    BY <1>3, <2>2 DEF Rounds
<1> HIDE DEF F
<1>5. f = [n \in 0 .. Len(subs) |-> IF n = 0 THEN t
                                    ELSE insert(f[n - 1], subs[n].filter, subs[n].qos, s)]
  <2>1. \A n \in 0 .. L : n # 0 => n \in 1 .. L
    BY <1>1
  <2> QED
    BY <1>3, <1>4, <2>1 DEF Rounds
<1>6. h = [n \in 0 .. Len(subs) |-> IF n = 0 THEN t
                                    ELSE insert(h[n - 1], subs[n].filter, subs[n].qos, s)]
  BY <1>5
<1>7. Add(t, subs, s) = h[Len(subs)]
  BY DEF Add
<1> HIDE DEF h
<1>8. h[0] = t /\ \A n \in 1 .. L : h[n] = insert(h[n - 1], subs[n].filter, subs[n].qos, s)
  <2>1. 0 \in 0 .. L /\ \A n \in 1 .. L : n \in 0 .. L /\ n # 0
    BY <1>1
  <2> QED
    BY <1>6, <2>1
<1>9. \A n \in 1 .. L : h[n - 1] \in T => h[n] \in T
  BY <1>8
<1>10. \A n \in 0 .. L : h[n] \in T
  <2> HIDE DEF L
  <2> QED
    BY <1>1, <1>8, <1>9, UpTo
<1>11. L \in 0 .. L
  BY <1>1
<1> QED
  BY <1>7, <1>10, <1>11

(* SUBSCRIBE of session s: a tree, and the subscriptions of others are not *)
(* added to.                                                               *)
LEMMA AddFacts ==
    ASSUME NEW t \in Trees, NEW subs \in SubPackets, NEW s \in Sessions
    PROVE  /\ Add(t, subs, s) \in Trees
           /\ \A r \in Sessions \ {s} : t \in Without(r) => Add(t, subs, s) \in Without(r)
<1>1. \A n \in 1 .. Len(subs) : /\ subs[n].filter \in Split /\ subs[n].qos \in Qoss
                                /\ Paths(subs[n].filter) \subseteq Levels
  BY PacketFacts
<1>2. \A u \in Trees, n \in 1 .. Len(subs) :
         /\ insert(u, subs[n].filter, subs[n].qos, s) \in Trees
         /\ \A r \in Sessions \ {s} :
              u \in Without(r) => insert(u, subs[n].filter, subs[n].qos, s) \in Without(r)
  BY <1>1, InsertFacts
<1>3. Add(t, subs, s) \in Trees
  BY <1>2, AddLoop
<1>4. ASSUME NEW r \in Sessions \ {s}, t \in Without(r)
      PROVE  Add(t, subs, s) \in Without(r)
  <2>1. Without(r) \in SUBSET Trees
    BY DEF Without
  <2> QED
    BY <1>2, <1>4, <2>1, AddLoop
<1> QED
  BY <1>3, <1>4

LEMMA RemoveFacts ==
    ASSUME NEW t \in Trees, NEW f, NEW s \in Sessions
    PROVE  /\ Remove(t, f, s) \in Trees
           /\ \A r \in Sessions : t \in Without(r) => Remove(t, f, s) \in Without(r)
<1> DEFINE u == [t EXCEPT ![f] = [t[f] EXCEPT ![s] = NoQos]]
<1> SUFFICES ASSUME f \in DOMAIN t
             PROVE  u \in Trees /\ \A r \in Sessions : t \in Without(r) => u \in Without(r)
  BY DEF Remove
<1>1. DOMAIN t \in Domains /\ t \in [DOMAIN t -> NodeType]
  BY TreeFacts
<1>2. [t[f] EXCEPT ![s] = NoQos] \in NodeType
  BY <1>1 DEF NodeType
<1>3. u \in [DOMAIN t -> NodeType]
  BY <1>1, <1>2
<1>4. u \in Trees
  BY <1>1, <1>3 DEF Trees
<1>5. ASSUME NEW r \in Sessions, t \in Without(r), NEW p \in DOMAIN t PROVE u[p][r] = NoQos
  <2>1. t[p][r] = NoQos /\ t[f][r] = NoQos
    BY <1>5 DEF Without
  <2>2. [t[f] EXCEPT ![s] = NoQos][r] = NoQos
    BY <1>1, <2>1 DEF NodeType
  <2> QED
    BY <1>1, <2>1, <2>2
<1>6. DOMAIN u = DOMAIN t
  OBVIOUS
<1> HIDE DEF u
<1> QED
  BY <1>4, <1>5, <1>6 DEF Without

(* RemoveSession leaves nothing of the session. *)
LEMMA RemoveSessionFacts ==
    ASSUME NEW t \in Trees, NEW s \in Sessions
    PROVE  /\ RemoveSession(t, s) \in Without(s)
           /\ \A r \in Sessions : t \in Without(r) => RemoveSession(t, s) \in Without(r)
<1> DEFINE u == RemoveSession(t, s)
<1>1. DOMAIN t \in Domains /\ t \in [DOMAIN t -> NodeType]
  BY TreeFacts
<1>2. u = [p \in DOMAIN t |-> [t[p] EXCEPT ![s] = NoQos]]
  BY DEF RemoveSession
<1> HIDE DEF u
<1>3. \A c \in NodeType : /\ [c EXCEPT ![s] = NoQos] \in NodeType
                          /\ [c EXCEPT ![s] = NoQos][s] = NoQos
                          /\ \A r \in Sessions : c[r] = NoQos => [c EXCEPT ![s] = NoQos][r] = NoQos
  BY DEF NodeType
<1>4. DOMAIN u = DOMAIN t /\ u \in [DOMAIN t -> NodeType]
  BY <1>1, <1>2, <1>3
<1>5. u \in Trees
  BY <1>1, <1>4 DEF Trees
<1>6. \A p \in DOMAIN t : t[p] \in NodeType /\ u[p] = [t[p] EXCEPT ![s] = NoQos]
  BY <1>1, <1>2
<1>7. ASSUME NEW p \in DOMAIN t
      PROVE  /\ u[p][s] = NoQos
             /\ \A r \in Sessions : t[p][r] = NoQos => u[p][r] = NoQos
  <2>1. t[p] \in NodeType /\ u[p] = [t[p] EXCEPT ![s] = NoQos]
    BY <1>6
  <2> QED
    BY <2>1 DEF NodeType
<1> QED
  BY <1>4, <1>5, <1>7 DEF Without, u

-----------------------------------------------------------------------------
(* The recursion of Visits: what the walk hands to the callback at node p  *)
(* and below, from what it does at the children (g).                       *)
Nodes(t) == DOMAIN t \cup {<< >>}

Rest(topic, p) == SubSeq(topic, Len(p) + 1, Len(topic))

AtHash(t, p) == IF Append(p, "#") \in DOMAIN t THEN <<Append(p, "#")>> ELSE << >>

AtChild(t, topic, g, p, x) ==
    IF Append(p, x) \notin DOMAIN t THEN << >>
    ELSE IF Len(Rest(topic, p)) = 1 THEN <<Append(p, x)>>
    ELSE g[Append(p, x)]

Walk(t, topic, g, p) ==
    IF Rest(topic, p) = <<"">> THEN << >>
    ELSE AtHash(t, p) \o AtChild(t, topic, g, p, "+")
                      \o AtChild(t, topic, g, p, Head(Rest(topic, p)))

LEMMA NodeFacts ==
    ASSUME NEW t \in Trees, NEW p \in Nodes(t)
    PROVE  p \in Seq(STRING) /\ Len(p) \in 0 .. MaxLevels
<1>1. MaxLevels \in Nat
  BY DEF MaxLevels
<1>2. CASE p = << >>
  BY <1>1, <1>2
<1>3. CASE p \in DOMAIN t
  <2>1. p \in Levels
    BY <1>3, TreeFacts DEF Domains
  <2>2. p \in Seq(STRING) /\ Len(p) \in 1 .. MaxLevels
    BY <2>1, LevelFacts
  <2> QED
    BY <1>1, <2>2
<1> QED
  BY <1>2, <1>3 DEF Nodes

(* What holds at a node whenever it holds at its children holds at all.    *)
LEMMA FromBelow ==
    ASSUME NEW t \in Trees, NEW G \in SUBSET Nodes(t),
           \A p \in Nodes(t) :
              (\A x : Append(p, x) \in DOMAIN t => Append(p, x) \in G) => p \in G
    PROVE  G = Nodes(t)
<1> DEFINE Bad == Nodes(t) \ G
           Depths == {Len(p) : p \in Bad}
<1> SUFFICES ASSUME Bad # {} PROVE FALSE
  OBVIOUS
<1>1. MaxLevels \in Nat
  BY DEF MaxLevels
<1>2. Depths \in SUBSET (0 .. MaxLevels) /\ Depths # {}
  BY NodeFacts
<1>3. PICK d \in Depths : \A e \in Depths : e <= d
  <2> HIDE DEF Depths
  <2> QED
    BY <1>1, <1>2, LargestNat
<1>4. PICK p \in Bad : d = Len(p)
  BY <1>3
<1>5. p \in Nodes(t) /\ p \in Seq(STRING) /\ Len(p) \in Nat
  BY <1>4, NodeFacts
<1>6. ASSUME NEW x, Append(p, x) \in DOMAIN t PROVE Append(p, x) \in G
  <2>1. Len(Append(p, x)) = Len(p) + 1
    BY <1>5, AppendFacts
  <2>2. Append(p, x) \notin Bad
    <3> SUFFICES ASSUME Append(p, x) \in Bad PROVE FALSE
      OBVIOUS
    <3>1. Len(Append(p, x)) \in Depths
      OBVIOUS
    <3>2. Len(p) + 1 <= Len(p)
      BY <1>3, <1>4, <2>1, <3>1
    <3> QED
      BY <1>5, <3>2
  <2> QED
    BY <1>6, <2>2 DEF Nodes
<1>7. p \in G
  BY <1>5, <1>6
<1> QED
  BY <1>4, <1>7

LEMMA WalkType ==
    ASSUME NEW t \in Trees, NEW topic, NEW g, NEW p,
           \A x : Append(p, x) \in DOMAIN t => g[Append(p, x)] \in Seq(DOMAIN t)
    PROVE  Walk(t, topic, g, p) \in Seq(DOMAIN t)
<1> DEFINE S == Seq(DOMAIN t)
<1>0. << >> \in S /\ \A q \in DOMAIN t : <<q>> \in S
  OBVIOUS
<1> HIDE DEF S
<1>1. AtHash(t, p) \in S
  BY <1>0, Zenon DEF AtHash
<1>2. ASSUME NEW x PROVE AtChild(t, topic, g, p, x) \in S
  <2>1. Append(p, x) \in DOMAIN t => g[Append(p, x)] \in S
    BY DEF S
  <2> QED
    BY <1>0, <2>1, Zenon DEF AtChild
<1>3. \A a, b, c \in S : a \o b \o c \in S
  BY ConcatProperties DEF S
<1>4. Walk(t, topic, g, p) \in S
  BY <1>0, <1>1, <1>2, <1>3, Zenon DEF Walk
<1> QED
  BY <1>4 DEF S

LEMMA WalkSame ==
    ASSUME NEW t, NEW topic, NEW g, NEW h, NEW p,
           \A x : Append(p, x) \in DOMAIN t => g[Append(p, x)] = h[Append(p, x)]
    PROVE  Walk(t, topic, g, p) = Walk(t, topic, h, p)
<1>1. \A x : AtChild(t, topic, g, p, x) = AtChild(t, topic, h, p, x)
  BY DEF AtChild
<1>2. CASE Rest(topic, p) = <<"">>
  BY <1>2, Zenon DEF Walk
<1>3. CASE Rest(topic, p) # <<"">>
  <2>1. /\ AtChild(t, topic, g, p, "+") = AtChild(t, topic, h, p, "+")
        /\ AtChild(t, topic, g, p, Head(Rest(topic, p)))
             = AtChild(t, topic, h, p, Head(Rest(topic, p)))
    BY <1>1
  <2> QED
    BY <1>3, <2>1, Zenon DEF Walk
<1> QED
  BY <1>2, <1>3

(* The recursion has a solution: after more rounds than the tree is deep   *)
(* nothing changes any more.                                               *)
LEMMA WalkExists ==
    ASSUME NEW t \in Trees, NEW topic
    PROVE  \E g : g = [p \in Nodes(t) |-> Walk(t, topic, g, p)]
<1> DEFINE M == MaxLevels + 1
           L == MaxLevels + 2
           T == [Nodes(t) -> Seq(DOMAIN t)]
           a == [p \in Nodes(t) |-> << >>]
           Step(g) == [p \in Nodes(t) |-> Walk(t, topic, g, p)]
           F == [x \in T \X (1 .. L) |-> Step(x[1])]
<1>1. MaxLevels \in Nat
  BY DEF MaxLevels
<1>2. a \in T
  OBVIOUS
<1>3. \A g \in T : Step(g) \in T
  <2> SUFFICES ASSUME NEW g \in T, NEW p \in Nodes(t)
               PROVE  Walk(t, topic, g, p) \in Seq(DOMAIN t)
    OBVIOUS
  <2>1. \A q \in DOMAIN t : g[q] \in Seq(DOMAIN t)
    BY DEF Nodes
  <2> QED
    BY <2>1, WalkType
<1> HIDE DEF Step
<1>4. F \in [T \X (1 .. L) -> T]
  <2> HIDE DEF T
  <2> QED
    BY <1>3
<1>5. PICK f \in [0 .. L -> T] : Rounds(f, L, a, F)
  <2>1. L \in Nat
    BY <1>1
  <2> HIDE DEF L, T, F, a
  <2> QED
    BY <1>2, <1>4, <2>1, LoopExists
<1>6. \A n \in 0 .. M : n \in 0 .. L /\ n + 1 \in 0 .. L /\ f[n] \in T /\ f[n + 1] = Step(f[n])
  <2> SUFFICES ASSUME NEW n \in 0 .. M
               PROVE  n \in 0 .. L /\ n + 1 \in 0 .. L /\ f[n] \in T /\ f[n + 1] = Step(f[n])
    OBVIOUS
  <2>1. n \in 0 .. L /\ n + 1 \in 0 .. L /\ n + 1 \in 1 .. L /\ n + 1 - 1 = n
    BY <1>1
  <2> HIDE DEF T
  <2>2. f[n] \in T /\ <<f[n], n + 1>> \in T \X (1 .. L)
    BY <2>1
  <2>3. F[<<f[n], n + 1>>] = Step(f[n])
    BY <2>2
  <2> HIDE DEF F, a, L
  <2>4. f[n + 1] = F[<<f[n], n + 1>>]
    BY <1>5, <2>1 DEF Rounds
  <2> QED
    BY <2>1, <2>2, <2>3, <2>4
<1> HIDE DEF F
<1> DEFINE Bad == {n \in 0 .. M : \E p \in Nodes(t) : Len(p) >= M - n /\ f[n + 1][p] # f[n][p]}
<1>7. Bad = {}
  <2> SUFFICES ASSUME Bad # {} PROVE FALSE
    OBVIOUS
  <2>1. PICK n \in Bad : \A m \in Bad : n <= m
    <3>1. Bad \in SUBSET Nat
      OBVIOUS
    <3> HIDE DEF Bad
    <3> QED
      BY <3>1, LeastNat
  <2>2. PICK p \in Nodes(t) : Len(p) >= M - n /\ f[n + 1][p] # f[n][p]
    BY <2>1
  <2>3. n \in 0 .. M /\ p \in Seq(STRING) /\ Len(p) \in 0 .. MaxLevels
    BY <2>1, NodeFacts
  <2>4. n \in 1 .. M /\ n - 1 \in 0 .. M /\ n - 1 + 1 = n /\ ~ (n <= n - 1)
    BY <1>1, <2>2, <2>3
  <2>5. n - 1 \notin Bad
    <3> HIDE DEF Bad
    <3> QED
      BY <2>1, <2>4
  <2>6. \A q \in Nodes(t) : Len(q) >= M - (n - 1) => f[n][q] = f[n - 1][q]
    BY <2>4, <2>5
  <2> HIDE DEF Bad
  <2>7. ASSUME NEW x, Append(p, x) \in DOMAIN t
        PROVE  f[n][Append(p, x)] = f[n - 1][Append(p, x)]
    <3>1. Len(Append(p, x)) = Len(p) + 1
      BY <2>3, AppendFacts
    <3>2. Len(p) + 1 >= M - (n - 1)
      BY <1>1, <2>2, <2>3, <2>4
    <3> QED
      BY <2>6, <2>7, <3>1, <3>2 DEF Nodes
  <2>8. Walk(t, topic, f[n], p) = Walk(t, topic, f[n - 1], p)
    BY <2>7, WalkSame
  <2>9. f[n + 1] = Step(f[n]) /\ f[n] = Step(f[n - 1])
    BY <1>6, <2>3, <2>4
  <2> QED
    BY <2>2, <2>8, <2>9 DEF Step
<1>8. \A p \in Nodes(t) : f[M + 1][p] = f[M][p]
  <2> SUFFICES ASSUME NEW p \in Nodes(t) PROVE f[M + 1][p] = f[M][p]
    OBVIOUS
  <2>1. Len(p) >= M - M /\ M \in 0 .. M
    BY <1>1, NodeFacts
  <2> QED
    BY <1>7, <2>1
<1>9. f[M] \in T /\ f[M + 1] = Step(f[M])
  BY <1>1, <1>6
<1>10. f[M] = [p \in Nodes(t) |-> Walk(t, topic, f[M], p)]
  BY <1>8, <1>9 DEF Step
<1> QED
  BY <1>10

LEMMA VisitsWalks ==
    ASSUME NEW t \in Trees, NEW topic
    PROVE  \E b : b = [p \in Nodes(t) |-> Walk(t, topic, b, p)] /\ Visits(t, topic) = b[<< >>]
<1> DEFINE b == CHOOSE below : below =
               [p \in DOMAIN t \cup {<< >>} |->
                  LET rest   == SubSeq(topic, Len(p) + 1, Len(topic))
                      Has(x) == Append(p, x) \in DOMAIN t
                      Child(x) == IF ~Has(x) THEN << >>
                                  ELSE IF Len(rest) = 1 THEN <<Append(p, x)>>
                                  ELSE below[Append(p, x)]
                  IN  IF rest = <<"">> THEN << >>
                      ELSE (IF Has("#") THEN <<Append(p, "#")>> ELSE << >>)
                           \o Child("+") \o Child(Head(rest))]
           c == CHOOSE below : below = [p \in Nodes(t) |-> Walk(t, topic, below, p)]
<1>1. Visits(t, topic) = b[<< >>]
  BY DEF Visits
<1>2. b = c
  BY DEF Walk, AtHash, AtChild, Rest, Nodes
<1>3. c = [p \in Nodes(t) |-> Walk(t, topic, c, p)]
  BY WalkExists
<1> QED
  BY <1>1, <1>2, <1>3

-----------------------------------------------------------------------------
(* What the walk finds. *)
Elems(v) == {v[i] : i \in 1 .. Len(v)}

(* p leads along the topic. *)
Along(p, topic) ==
    Len(p) < Len(topic) /\ \A i \in 1 .. Len(p) : p[i] \in {"+", topic[i]}

(* q lies below p. *)
Below(q, p) == Len(p) < Len(q) /\ \A i \in 1 .. Len(p) : q[i] = p[i]

LEMMA ElemsOfThree ==
    ASSUME NEW S, NEW a \in Seq(S), NEW b \in Seq(S), NEW c \in Seq(S)
    PROVE  Elems(a \o b \o c) = Elems(a) \cup Elems(b) \cup Elems(c)
<1>1. ASSUME NEW u \in Seq(S), NEW v \in Seq(S)
      PROVE  u \o v \in Seq(S) /\ Elems(u \o v) = Elems(u) \cup Elems(v)
  <2>1. /\ u \o v \in Seq(S) /\ Len(u) \in Nat /\ Len(v) \in Nat
        /\ Len(u \o v) = Len(u) + Len(v)
        /\ \A i \in 1 .. Len(u) + Len(v) :
              (u \o v)[i] = IF i <= Len(u) THEN u[i] ELSE v[i - Len(u)]
    BY ConcatProperties
  <2>2. ASSUME NEW i \in 1 .. Len(u) + Len(v) PROVE (u \o v)[i] \in Elems(u) \cup Elems(v)
    <3>1. CASE i <= Len(u)
      <4>1. i \in 1 .. Len(u)
        BY <2>1, <3>1
      <4> QED
        BY <2>1, <3>1, <4>1 DEF Elems
    <3>2. CASE ~ (i <= Len(u))
      <4>1. i - Len(u) \in 1 .. Len(v)
        BY <2>1, <3>2
      <4> QED
        BY <2>1, <3>2, <4>1 DEF Elems
    <3> QED
      BY <3>1, <3>2
  <2>3. ASSUME NEW i \in 1 .. Len(u) PROVE u[i] \in Elems(u \o v)
    <3>1. i \in 1 .. Len(u) + Len(v) /\ i <= Len(u)
      BY <2>1
    <3> QED
      BY <2>1, <3>1 DEF Elems
  <2>4. ASSUME NEW i \in 1 .. Len(v) PROVE v[i] \in Elems(u \o v)
    <3>1. /\ i + Len(u) \in 1 .. Len(u) + Len(v) /\ ~ (i + Len(u) <= Len(u))
          /\ i + Len(u) - Len(u) = i
      BY <2>1
    <3>2. (u \o v)[i + Len(u)] = v[i]
      BY <2>1, <3>1
    <3> QED
      BY <2>1, <3>1, <3>2 DEF Elems
  <2> QED
    BY <2>1, <2>2, <2>3, <2>4 DEF Elems
<1>2. a \o b \in Seq(S) /\ Elems(a \o b) = Elems(a) \cup Elems(b)
  BY <1>1
<1> QED
  BY <1>1, <1>2

(* The next level of the topic at a node on its way. *)
LEMMA RestFacts ==
    ASSUME NEW topic \in Split, NEW p \in Seq(STRING), Len(p) < Len(topic)
    PROVE  /\ Len(Rest(topic, p)) = Len(topic) - Len(p)
           /\ Head(Rest(topic, p)) = topic[Len(p) + 1]
           /\ Len(p) + 1 \in 1 .. Len(topic)
           /\ Rest(topic, p) = <<"">> => topic[Len(topic)] = ""
<1>1. topic \in Seq(STRING) /\ Len(topic) \in Nat /\ Len(p) \in Nat
  BY DEF Split
<1>2. Len(p) + 1 \in 1 .. Len(topic) /\ Len(topic) \in (Len(p) + 1) .. Len(topic)
  BY <1>1
<1>3. Head(Rest(topic, p)) = topic[Len(p) + 1]
  BY <1>1, <1>2, HeadTailOfSubSeq DEF Rest
<1>4. \A i \in (Len(p) + 1) .. Len(topic) : topic[i] \in STRING
  <2>1. \A i \in (Len(p) + 1) .. Len(topic) : i \in 1 .. Len(topic)
    BY <1>1
  <2> QED
    BY <1>1, <2>1, ElementOfSeq
<1>5. Len(Rest(topic, p)) = IF Len(p) + 1 <= Len(topic) THEN Len(topic) - (Len(p) + 1) + 1 ELSE 0
  <2>1. Len(p) + 1 \in Int /\ Len(topic) \in Int
    BY <1>1
  <2> QED
    BY <1>4, <2>1, SubSeqProperties DEF Rest
<1>6. Len(Rest(topic, p)) = Len(topic) - Len(p)
  BY <1>1, <1>2, <1>5
<1>8. Len(topic) - Len(p) = 1 => Len(p) + 1 = Len(topic)
  BY <1>1
<1>7. ASSUME Rest(topic, p) = <<"">> PROVE topic[Len(topic)] = ""
  <2>0. Len(<<"">>) = 1 /\ Head(<<"">>) = ""
    BY ONLY TRUE
  <2>1. Len(Rest(topic, p)) = 1 /\ Head(Rest(topic, p)) = ""
    BY <1>7, <2>0, Zenon
  <2>2. Len(p) + 1 = Len(topic)
    BY <1>6, <1>8, <2>1, Zenon
  <2> QED
    BY <1>3, <2>1, <2>2, Zenon
<1> QED
  BY <1>2, <1>3, <1>6, <1>7

(* The levels of a child. *)
LEMMA ChildAlong ==
    ASSUME NEW topic \in Split, NEW p \in Seq(STRING), Along(p, topic),
           NEW x \in {"+", topic[Len(p) + 1]}
    PROVE  /\ Len(Append(p, x)) = Len(p) + 1
           /\ \A i \in 1 .. Len(p) + 1 : Append(p, x)[i] \in {"+", topic[i]}
<1>1. /\ Len(Append(p, x)) = Len(p) + 1
      /\ \A i \in 1 .. Len(p) : Append(p, x)[i] = p[i]
      /\ Append(p, x)[Len(p) + 1] = x
  BY AppendFacts
<1>2. ASSUME NEW i \in 1 .. Len(p) + 1 PROVE Append(p, x)[i] \in {"+", topic[i]}
  <2>1. CASE i = Len(p) + 1
    BY <1>1, <2>1
  <2>2. CASE i # Len(p) + 1
    <3>1. i \in 1 .. Len(p)
      BY <2>2
    <3> QED
      BY <1>1, <3>1 DEF Along
  <2> QED
    BY <2>1, <2>2
<1> QED
  BY <1>1, <1>2

(* A function that solves the recursion of Visits. *)
Solves(b, t, topic) == b = [p \in Nodes(t) |-> Walk(t, topic, b, p)]

LEMMA SolutionType ==
    ASSUME NEW t \in Trees, NEW topic, NEW b, Solves(b, t, topic)
    PROVE  \A p \in Nodes(t) : b[p] \in Seq(DOMAIN t)
<1> DEFINE G == {p \in Nodes(t) : b[p] \in Seq(DOMAIN t)}
<1>1. ASSUME NEW p \in Nodes(t), \A x : Append(p, x) \in DOMAIN t => Append(p, x) \in G
      PROVE  p \in G
  <2>1. \A x : Append(p, x) \in DOMAIN t => b[Append(p, x)] \in Seq(DOMAIN t)
    BY <1>1
  <2>2. Walk(t, topic, b, p) \in Seq(DOMAIN t)
    BY <2>1, WalkType
  <2>3. b[p] = Walk(t, topic, b, p)
    BY DEF Solves
  <2> QED
    BY <2>2, <2>3
<1>2. G \in SUBSET Nodes(t)
  OBVIOUS
<1>3. G = Nodes(t)
  <2> HIDE DEF G
  <2> QED
    BY <1>1, <1>2, FromBelow
<1> QED
  BY <1>3

(* The nodes the walk visits from p on. *)
Found(t, topic, b, p) ==
    IF Rest(topic, p) = <<"">> THEN {}
    ELSE Elems(AtHash(t, p)) \cup Elems(AtChild(t, topic, b, p, "+"))
                             \cup Elems(AtChild(t, topic, b, p, topic[Len(p) + 1]))

LEMMA SolutionElems ==
    ASSUME NEW t \in Trees, NEW topic \in Split, NEW b, Solves(b, t, topic),
           NEW p \in Nodes(t), Along(p, topic)
    PROVE  Elems(b[p]) = Found(t, topic, b, p)
<1>1. b[p] = Walk(t, topic, b, p)
  BY DEF Solves
<1>2. p \in Seq(STRING)
  BY NodeFacts
<1>3. Head(Rest(topic, p)) = topic[Len(p) + 1]
  BY <1>2, RestFacts DEF Along
<1>4. CASE Rest(topic, p) = <<"">>
  <2>1. b[p] = << >>
    BY <1>1, <1>4, Zenon DEF Walk
  <2>2. Elems(<< >>) = {}
    BY DEF Elems
  <2> QED
    BY <1>4, <2>1, <2>2, Zenon DEF Found
<1>5. CASE Rest(topic, p) # <<"">>
  <2> DEFINE S == Seq(DOMAIN t)
  <2>0. << >> \in S /\ \A q \in DOMAIN t : <<q>> \in S
    OBVIOUS
  <2>1. \A x : Append(p, x) \in DOMAIN t => b[Append(p, x)] \in S
    BY SolutionType DEF Nodes
  <2> HIDE DEF S
  <2>2. AtHash(t, p) \in S
    BY <2>0, Zenon DEF AtHash
  <2>3. \A x : AtChild(t, topic, b, p, x) \in S
    BY <2>0, <2>1, Zenon DEF AtChild
  <2>4. b[p] = AtHash(t, p) \o AtChild(t, topic, b, p, "+")
                            \o AtChild(t, topic, b, p, topic[Len(p) + 1])
    BY <1>1, <1>3, <1>5, Zenon DEF Walk
  <2>5. /\ AtChild(t, topic, b, p, "+") \in S
        /\ AtChild(t, topic, b, p, topic[Len(p) + 1]) \in S
    BY <2>3
  <2>6. Elems(b[p]) = Elems(AtHash(t, p))
                        \cup Elems(AtChild(t, topic, b, p, "+"))
                        \cup Elems(AtChild(t, topic, b, p, topic[Len(p) + 1]))
    BY ONLY <2>2, <2>4, <2>5, ElemsOfThree DEF S
  <2> QED
    BY <1>5, <2>6, Zenon DEF Found
<1> QED
  BY <1>4, <1>5

LEMMA SmallElems == Elems(<< >>) = {} /\ \A q : Elems(<<q>>) = {q}
<1>1. Elems(<< >>) = {}
  BY DEF Elems
<1>2. ASSUME NEW q PROVE Elems(<<q>>) = {q}
  <2>1. Len(<<q>>) = 1 /\ <<q>>[1] = q /\ 1 .. 1 = {1}
    OBVIOUS
  <2> QED
    BY <2>1 DEF Elems
<1> QED
  BY <1>1, <1>2

LEMMA ChildElems ==
    ASSUME NEW t, NEW topic \in Split, NEW b, NEW p \in Seq(STRING), Along(p, topic), NEW x
    PROVE  /\ Append(p, x) \notin DOMAIN t => Elems(AtChild(t, topic, b, p, x)) = {}
           /\ Append(p, x) \in DOMAIN t /\ Len(topic) = Len(p) + 1
                => Elems(AtChild(t, topic, b, p, x)) = {Append(p, x)}
           /\ Append(p, x) \in DOMAIN t /\ Len(topic) # Len(p) + 1
                => Elems(AtChild(t, topic, b, p, x)) = Elems(b[Append(p, x)])
<1>1. Len(Rest(topic, p)) = Len(topic) - Len(p)
  BY RestFacts DEF Along
<1>2. Len(topic) - Len(p) = 1 <=> Len(topic) = Len(p) + 1
  BY DEF Split
<1>3. Len(Rest(topic, p)) = 1 <=> Len(topic) = Len(p) + 1
  BY <1>1, <1>2, Zenon
<1>4. CASE Append(p, x) \notin DOMAIN t
  <2>1. AtChild(t, topic, b, p, x) = << >>
    BY <1>4, Zenon DEF AtChild
  <2> QED
    BY <1>4, <2>1, SmallElems, Zenon
<1>5. CASE Append(p, x) \in DOMAIN t /\ Len(topic) = Len(p) + 1
  <2>1. AtChild(t, topic, b, p, x) = <<Append(p, x)>>
    BY <1>3, <1>5, Zenon DEF AtChild
  <2> QED
    BY <1>5, <2>1, SmallElems, Zenon
<1>6. CASE Append(p, x) \in DOMAIN t /\ Len(topic) # Len(p) + 1
  <2>1. AtChild(t, topic, b, p, x) = b[Append(p, x)]
    BY <1>3, <1>6, Zenon DEF AtChild
  <2> QED
    BY <1>6, <2>1, Zenon
<1> QED
  BY <1>4, <1>5, <1>6, Zenon

(* Every node of the walk along a topic is a filter that matches it. *)
LEMMA WalkSound ==
    ASSUME NEW t \in Trees, NEW topic \in Split, NEW b, Solves(b, t, topic)
    PROVE  \A p \in Nodes(t) : Along(p, topic) => \A q \in Elems(b[p]) : Matches(q, topic)
<1> DEFINE Ok(p) == Along(p, topic) => \A q \in Elems(b[p]) : Matches(q, topic)
           G == {p \in Nodes(t) : Ok(p)}
<1>0. topic \in Seq(STRING) /\ Len(topic) \in Nat
  BY DEF Split
<1>1. ASSUME NEW p \in Nodes(t), \A x : Append(p, x) \in DOMAIN t => Append(p, x) \in G,
             Along(p, topic), NEW q \in Elems(b[p])
      PROVE  Matches(q, topic)
  <2>1. p \in Seq(STRING) /\ Len(p) \in Nat
    BY NodeFacts
  <2>2. Len(p) < Len(topic) /\ \A i \in 1 .. Len(p) : p[i] \in {"+", topic[i]}
    BY <1>1 DEF Along
  <2>3. \/ q \in Elems(AtHash(t, p))
        \/ q \in Elems(AtChild(t, topic, b, p, "+"))
        \/ q \in Elems(AtChild(t, topic, b, p, topic[Len(p) + 1]))
    <3>1. Elems(b[p]) = Found(t, topic, b, p)
      BY <1>1, SolutionElems
    <3> QED
      BY <1>1, <3>1, Zenon DEF Found
  <2>4. CASE q \in Elems(AtHash(t, p))
    <3>1. q = Append(p, "#")
      BY <2>4, SmallElems, Zenon DEF AtHash
    <3>2. Len(q) = Len(p) + 1 /\ q[Len(p) + 1] = "#" /\ \A i \in 1 .. Len(p) : q[i] = p[i]
      BY <2>1, <3>1, AppendFacts
    <3>3. q[Len(q)] = "#" /\ Len(q) - 1 = Len(p) /\ Len(q) - 1 < Len(q)
      BY <2>1, <3>2
    <3>4. \A i \in 1 .. Len(p) : q[i] \in {"+", topic[i]}
      BY <2>2, <3>2
    <3>5. Len(topic) >= Len(p) /\ Len(p) < Len(q)
      BY <1>0, <2>1, <2>2, <3>2
    <3> QED
      BY <3>3, <3>4, <3>5 DEF Matches
  <2>5. ASSUME NEW x \in {"+", topic[Len(p) + 1]}, q \in Elems(AtChild(t, topic, b, p, x))
        PROVE  Matches(q, topic)
    <3> DEFINE c == Append(p, x)
    <3>1. Len(c) = Len(p) + 1 /\ \A i \in 1 .. Len(p) + 1 : c[i] \in {"+", topic[i]}
      BY <1>1, <2>1, ChildAlong
    <3>2. /\ c \in DOMAIN t
          /\ Len(topic) = Len(p) + 1 => q = c
          /\ Len(topic) # Len(p) + 1 => q \in Elems(b[c])
      BY <1>1, <2>1, <2>5, ChildElems
    <3> HIDE DEF c
    <3>3. CASE Len(topic) = Len(p) + 1
      <4>1. q = c /\ Len(topic) = Len(q)
        BY <3>1, <3>2, <3>3
      <4>2. Len(topic) >= Len(q) - 1 /\ Len(q) - 1 < Len(q) /\ ~ (Len(q) < Len(q))
        BY <1>0, <4>1
      <4>3. \A i \in 1 .. Len(q) : q[i] \in {"+", topic[i]}
        BY <3>1, <4>1
      <4>4. \A i \in 1 .. Len(q) - 1 : i \in 1 .. Len(q)
        BY <1>0, <4>1
      <4>5. \A i \in 1 .. Len(q) - 1 : q[i] \in {"+", topic[i]}
        BY <4>3, <4>4
      <4>6. CASE q[Len(q)] = "#"
        BY <4>2, <4>5, <4>6, Zenon DEF Matches
      <4>7. CASE q[Len(q)] # "#"
        BY <4>1, <4>2, <4>3, <4>7, Zenon DEF Matches
      <4> QED
        BY <4>6, <4>7, Zenon
    <3>4. CASE Len(topic) # Len(p) + 1
      <4>1. Len(c) < Len(topic)
        BY <1>0, <2>1, <2>2, <3>1, <3>4
      <4>2. Along(c, topic)
        BY <3>1, <4>1 DEF Along
      <4>3. c \in G
        BY <1>1, <3>2 DEF c
      <4> QED
        BY <3>2, <3>4, <4>2, <4>3
    <3> QED
      BY <3>3, <3>4
  <2> QED
    BY <2>3, <2>4, <2>5
<1>2. \A p \in Nodes(t) : (\A x : Append(p, x) \in DOMAIN t => Append(p, x) \in G) => p \in G
  BY <1>1
<1>3. G \in SUBSET Nodes(t)
  OBVIOUS
<1>4. G = Nodes(t)
  <2> HIDE DEF G
  <2> QED
    BY <1>2, <1>3, FromBelow
<1> QED
  BY <1>4

(* Every filter of the tree below a node of the walk that matches and that *)
(* the walk can find is a node of the walk.                                *)
LEMMA WalkComplete ==
    ASSUME NEW t \in Trees, NEW topic \in Split, NEW b, Solves(b, t, topic)
    PROVE  \A p \in Nodes(t), q \in DOMAIN t :
              Along(p, topic) /\ Below(q, p) /\ Matches(q, topic) /\ Findable(q, topic)
              => q \in Elems(b[p])
<1> DEFINE Wanted(q, p) ==
               Along(p, topic) /\ Below(q, p) /\ Matches(q, topic) /\ Findable(q, topic)
           G == {p \in Nodes(t) : \A q \in DOMAIN t : Wanted(q, p) => q \in Elems(b[p])}
<1>0. topic \in Seq(STRING) /\ Len(topic) \in Nat
  BY DEF Split
<1>1. ASSUME NEW p \in Nodes(t), \A x : Append(p, x) \in DOMAIN t => Append(p, x) \in G,
             NEW q \in DOMAIN t, Wanted(q, p)
      PROVE  q \in Elems(b[p])
  <2>1. p \in Seq(STRING) /\ Len(p) \in Nat /\ q \in Seq(STRING) /\ Len(q) \in Nat
    BY NodeFacts DEF Nodes
  <2> DEFINE x == q[Len(p) + 1]
             c == Append(p, x)
  <2>2. /\ Len(p) < Len(topic) /\ Len(p) < Len(q) /\ Len(q) <= Len(topic)
        /\ \A i \in 1 .. Len(p) : q[i] = p[i]
    <3>1. Len(q) <= Len(topic)
      <4>1. Len(q) <= Len(topic) \/ Len(q) < Len(topic)
        BY <1>1, Zenon DEF Findable
      <4> QED
        BY ONLY <1>0, <2>1, <4>1
    <3> QED
      BY <1>1, <3>1 DEF Along, Below
  <2>3. Len(c) = Len(p) + 1 /\ \A i \in 1 .. Len(p) + 1 : c[i] = q[i]
    <3>1. /\ Len(c) = Len(p) + 1 /\ \A i \in 1 .. Len(p) : c[i] = p[i]
          /\ c[Len(p) + 1] = x
      BY <2>1, AppendFacts
    <3>2. \A i \in 1 .. Len(p) + 1 : i = Len(p) + 1 \/ i \in 1 .. Len(p)
      BY <2>1
    <3> HIDE DEF c
    <3> QED
      BY <2>2, <3>1, <3>2
  <2>4. Len(p) + 1 \in 1 .. Len(q) /\ Len(p) + 1 \in 0 .. Len(q)
    BY <2>1, <2>2
  <2>5. x \in STRING /\ c \in Seq(STRING)
    BY <2>1, <2>4, ElementOfSeq, AppendProperties
  <2>6. c = SubSeq(q, 1, Len(p) + 1)
    <3> DEFINE d == SubSeq(q, 1, Len(p) + 1)
    <3>1. /\ d \in Seq(STRING) /\ Len(d) = Len(p) + 1
          /\ \A i \in 1 .. Len(p) + 1 : d[i] = q[i]
      BY <2>1, <2>4, PathFacts
    <3> HIDE DEF c, d
    <3>2. c = d
      BY <2>3, <2>5, <3>1, SeqEqual
    <3> QED
      BY <3>2 DEF d
  <2>7. c \in DOMAIN t
    <3>1. Paths(q) \subseteq DOMAIN t
      BY TreeFacts DEF Domains
    <3> HIDE DEF c
    <3> QED
      BY <2>4, <2>6, <3>1 DEF Paths
  <2>8. ~ (Rest(topic, p) = <<"">>)
    <3>1. topic[Len(topic)] # "" \/ Len(q) < Len(topic)
      BY <1>1 DEF Findable
    <3>2. Rest(topic, p) = <<"">> => topic[Len(topic)] = ""
      BY <2>1, <2>2, RestFacts
    <3>3. Len(Rest(topic, p)) = Len(topic) - Len(p)
      BY <2>1, <2>2, RestFacts
    <3>4. Len(q) < Len(topic) => Len(topic) - Len(p) # 1
      BY <1>0, <2>1, <2>2
    <3>5. Len(<<"">>) = 1
      OBVIOUS
    <3> QED
      BY <3>1, <3>2, <3>3, <3>4, <3>5, Zenon
  <2>9. Elems(b[p]) = Elems(AtHash(t, p))
                        \cup Elems(AtChild(t, topic, b, p, "+"))
                        \cup Elems(AtChild(t, topic, b, p, topic[Len(p) + 1]))
    <3>1. Along(p, topic)
      BY <1>1
    <3>2. Elems(b[p]) = Found(t, topic, b, p)
      BY <3>1, SolutionElems
    <3> QED
      BY <2>8, <3>2, Zenon DEF Found
  <2>10. CASE Len(q) = Len(p) + 1 /\ x = "#"
    <3>1. q = c
      <4> HIDE DEF c
      <4> QED
        BY <2>1, <2>3, <2>5, <2>10, SeqEqual
    <3>2. q = Append(p, "#")
      BY <2>10, <3>1
    <3>3. AtHash(t, p) = <<Append(p, "#")>>
      BY <3>2, Zenon DEF AtHash
    <3>4. q \in Elems(AtHash(t, p))
      BY <3>2, <3>3, SmallElems, Zenon
    <3> QED
      BY <2>9, <3>4
  <2>11. CASE ~ (Len(q) = Len(p) + 1 /\ x = "#")
    <3>1. x \in {"+", topic[Len(p) + 1]} /\ (Len(q) = Len(p) + 1 => Len(topic) = Len(q))
      <4> DEFINE fixed == IF q[Len(q)] = "#" THEN Len(q) - 1 ELSE Len(q)
      <4>1. /\ IF fixed < Len(q) THEN Len(topic) >= fixed ELSE Len(topic) = Len(q)
            /\ \A i \in 1 .. fixed : q[i] \in {"+", topic[i]}
        BY <1>1 DEF Matches
      <4>2. Len(p) + 1 \in 1 .. fixed
        <5>1. Len(q) = Len(p) + 1 => fixed = Len(q)
          BY <2>11
        <5>2. fixed = Len(q) \/ fixed = Len(q) - 1
          OBVIOUS
        <5> HIDE DEF fixed
        <5> QED
          BY <2>1, <2>2, <5>1, <5>2
      <4>3. Len(q) = Len(p) + 1 => Len(topic) = Len(q)
        <5>1. Len(q) = Len(p) + 1 => fixed = Len(q)
          BY <2>11
        <5>2. ~ (Len(q) < Len(q))
          BY <2>1
        <5> HIDE DEF fixed
        <5> QED
          BY <4>1, <5>1, <5>2
      <4> HIDE DEF fixed
      <4> QED
        BY <4>1, <4>2, <4>3
    <3>2. q \in Elems(AtChild(t, topic, b, p, x))
      <4>0. Along(p, topic)
        BY <1>1
      <4>1. /\ Len(topic) = Len(p) + 1 => Elems(AtChild(t, topic, b, p, x)) = {c}
            /\ Len(topic) # Len(p) + 1 => Elems(AtChild(t, topic, b, p, x)) = Elems(b[c])
        BY <2>1, <2>7, <4>0, ChildElems
      <4>2. CASE Len(topic) = Len(p) + 1
        <5>1. Len(q) = Len(p) + 1
          BY <1>0, <2>1, <2>2, <4>2
        <5>2. q = c
          <6> HIDE DEF c
          <6> QED
            BY <2>1, <2>3, <2>5, <5>1, SeqEqual
        <5> QED
          BY <4>1, <4>2, <5>2
      <4>3. CASE Len(topic) # Len(p) + 1
        <5>1. Len(q) # Len(p) + 1 /\ Len(c) < Len(q) /\ Len(c) < Len(topic)
          <6> HIDE DEF c
          <6> QED
            BY <1>0, <2>1, <2>2, <2>3, <3>1, <4>3
        <5>2. Along(c, topic)
          <6>1. \A i \in 1 .. Len(p) + 1 : c[i] \in {"+", topic[i]}
            BY <2>1, <3>1, <4>0, ChildAlong
          <6> HIDE DEF c
          <6> QED
            BY <2>3, <5>1, <6>1 DEF Along
        <5>3. Below(q, c)
          <6> HIDE DEF c
          <6> QED
            BY <2>3, <5>1 DEF Below
        <5>4. c \in G
          BY <1>1, <2>7
        <5>5. Wanted(q, c)
          BY <1>1, <5>2, <5>3
        <5>6. q \in Elems(b[c])
          BY <5>4, <5>5
        <5> QED
          BY <4>1, <4>3, <5>6
      <4> QED
        BY <4>2, <4>3
    <3> QED
      BY <2>9, <3>1, <3>2
  <2> QED
    BY <2>10, <2>11
<1>2. \A p \in Nodes(t) : (\A x : Append(p, x) \in DOMAIN t => Append(p, x) \in G) => p \in G
  BY <1>1
<1>3. G \in SUBSET Nodes(t)
  OBVIOUS
<1>4. G = Nodes(t)
  <2> HIDE DEF G
  <2> QED
    BY <1>2, <1>3, FromBelow
<1> QED
  BY <1>4

(* _getSessions hands the maps of filters to the callback that match the   *)
(* topic, and of all those that match and that it can find.                *)
LEMMA VisitsFacts ==
    ASSUME NEW t \in Trees, NEW topic \in Split
    PROVE  /\ Visits(t, topic) \in Seq(DOMAIN t)
           /\ \A q \in Elems(Visits(t, topic)) : Matches(q, topic)
           /\ \A q \in DOMAIN t : Matches(q, topic) /\ Findable(q, topic)
                                  => q \in Elems(Visits(t, topic))
<1>1. PICK b : Solves(b, t, topic) /\ Visits(t, topic) = b[<< >>]
  BY VisitsWalks DEF Solves
<1>2. << >> \in Nodes(t) /\ Len(<< >>) = 0 /\ 1 .. 0 = {}
  BY DEF Nodes
<1>3. Along(<< >>, topic)
  BY <1>2 DEF Along, Split
<1>4. \A q \in DOMAIN t : Below(q, << >>)
  <2> SUFFICES ASSUME NEW q \in DOMAIN t PROVE Below(q, << >>)
    OBVIOUS
  <2>1. q \in Levels
    BY TreeFacts DEF Domains
  <2>2. Len(q) \in 1 .. MaxLevels
    BY <2>1, LevelFacts
  <2>3. 0 < Len(q)
    BY <2>2
  <2> QED
    BY <1>2, <2>3 DEF Below
<1>5. b[<< >>] \in Seq(DOMAIN t)
  BY <1>1, <1>2, SolutionType
<1>6. \A q \in Elems(b[<< >>]) : Matches(q, topic)
  BY <1>1, <1>2, <1>3, WalkSound
<1>7. \A q \in DOMAIN t : Matches(q, topic) /\ Findable(q, topic) => q \in Elems(b[<< >>])
  BY <1>1, <1>2, <1>3, <1>4, WalkComplete
<1> QED
  BY <1>1, <1>5, <1>6, <1>7, Zenon

LEMMA GetSessionsFacts ==
    ASSUME NEW t \in Trees, NEW topic \in Split
    PROVE  /\ GetSessions(t, topic) \in NodeType
           /\ \A r \in Sessions :
                LET mine == {f \in DOMAIN t : t[f][r] # NoQos /\ Matches(f, topic)}
                IN  /\ GetSessions(t, topic)[r] # NoQos
                         => \E f \in mine : t[f][r] = GetSessions(t, topic)[r]
                    /\ (\E f \in mine : Findable(f, topic)) => GetSessions(t, topic)[r] # NoQos
<1> DEFINE v == Visits(t, topic)
           Hits(r) == {i \in 1 .. Len(v) : t[v[i]][r] # NoQos}
           Last(S) == CHOOSE i \in S : \A j \in S : j <= i
           Q(r) == IF Hits(r) = {} THEN NoQos ELSE t[v[Last(Hits(r))]][r]
<1>1. GetSessions(t, topic) = [r \in Sessions |-> Q(r)]
  BY DEF GetSessions
<1>2. /\ v \in Seq(DOMAIN t)
      /\ \A i \in 1 .. Len(v) : v[i] \in DOMAIN t /\ Matches(v[i], topic)
      /\ \A q \in DOMAIN t : Matches(q, topic) /\ Findable(q, topic) => \E i \in 1 .. Len(v) : v[i] = q
  <2>1. /\ v \in Seq(DOMAIN t)
        /\ \A q \in Elems(v) : Matches(q, topic)
        /\ \A q \in DOMAIN t : Matches(q, topic) /\ Findable(q, topic) => q \in Elems(v)
    BY VisitsFacts
  <2> HIDE DEF v
  <2>2. \A i \in 1 .. Len(v) : v[i] \in DOMAIN t
    BY <2>1, ElementOfSeq
  <2> QED
    BY <2>1, <2>2 DEF Elems
<1>3. t \in [DOMAIN t -> NodeType]
  BY TreeFacts
<1> HIDE DEF v
<1>4. ASSUME NEW r \in Sessions, Hits(r) # {} PROVE Last(Hits(r)) \in Hits(r)
  <2>1. Hits(r) \in SUBSET (0 .. Len(v)) /\ Len(v) \in Nat
    BY <1>2
  <2> HIDE DEF Hits
  <2>2. \E i \in Hits(r) : \A j \in Hits(r) : j <= i
    BY <1>4, <2>1, LargestNat
  <2> QED
    BY <2>2
<1> HIDE DEF Last
<1>5. ASSUME NEW r \in Sessions
      PROVE  /\ Q(r) \in Qoss \cup {NoQos}
             /\ Q(r) # NoQos => \E f \in DOMAIN t : /\ t[f][r] # NoQos /\ Matches(f, topic)
                                                    /\ t[f][r] = Q(r)
             /\ \A f \in DOMAIN t : t[f][r] # NoQos /\ Matches(f, topic) /\ Findable(f, topic)
                                    => Q(r) # NoQos
  <2>1. CASE Hits(r) = {}
    <3>1. \A i \in 1 .. Len(v) : t[v[i]][r] = NoQos
      BY <2>1
    <3> QED
      BY <1>2, <2>1, <3>1
  <2>2. CASE Hits(r) # {}
    <3>1. PICK i \in Hits(r) : Q(r) = t[v[i]][r]
      <4>1. Last(Hits(r)) \in Hits(r)
        BY <1>4, <2>2
      <4>2. Q(r) = t[v[Last(Hits(r))]][r]
        BY <2>2
      <4> HIDE DEF Hits, Q
      <4> QED
        BY <4>1, <4>2
    <3>2. i \in 1 .. Len(v) /\ t[v[i]][r] # NoQos
      OBVIOUS
    <3> HIDE DEF Hits, Q
    <3>3. v[i] \in DOMAIN t /\ Matches(v[i], topic)
      BY <1>2, <3>2
    <3>4. t[v[i]][r] \in Qoss \cup {NoQos}
      BY <1>3, <3>3 DEF NodeType
    <3> QED
      BY <3>1, <3>2, <3>3, <3>4
  <2> QED
    BY <2>1, <2>2
<1> HIDE DEF Q
<1> QED
  BY <1>1, <1>5 DEF NodeType

-----------------------------------------------------------------------------
(* The inductive invariant. *)
Lists == UNION {Rests(p) : p \in UnsubPackets}

Typed ==
    /\ tree \in Trees
    /\ clostep \in [Sessions -> {0, closing, closed}]
    /\ pc \in [Goroutines -> {"home", "add", "del", "lookup", "fanout", "publish",
                              "remove", "store", "gone"}]
    /\ pc["tick"] \in {"home", "remove", "store"}
    /\ DOMAIN packet = Sessions
    /\ audience \in [Sessions -> NodeType]
    /\ todo \in [Sessions -> SUBSET Sessions]
    /\ reached \in [Sessions -> SUBSET Sessions]
    /\ target \in [Goroutines -> Sessions \cup {NoSession}]

(* The packet in hand is of the kind that is handled. *)
InHand ==
    \A s \in Sessions :
      /\ pc[s] = "add" => packet[s] \in SubPackets
      /\ pc[s] = "del" => packet[s] \in Lists
      /\ pc[s] \in {"lookup", "fanout", "publish"} => packet[s] \in Topics
      /\ pc[s] \notin {"add", "del", "lookup", "fanout", "publish"} => packet[s] = << >>

(* A message goes to sessions that GetSessions named. *)
ToNamed ==
    \A s \in Sessions :
      /\ \A r \in todo[s] \cup reached[s] : audience[s][r] # NoQos
      /\ pc[s] \notin {"fanout", "publish"} => todo[s] = {} /\ reached[s] = {}
      /\ pc[s] = "publish" => target[s] \in Sessions /\ audience[s][target[s]] # NoQos

(* A recvRun ends its own session, the ticker any. *)
EndsOwn ==
    /\ \A s \in Sessions : pc[s] \in {"remove", "store"} => target[s] = s
    /\ pc["tick"] \in {"remove", "store"} => target["tick"] \in Sessions

TypeInv == Typed /\ InHand /\ ToNamed /\ EndsOwn

LEMMA ListFacts ==
    ASSUME NEW k \in Lists, Len(k) # 1 PROVE Tail(k) \in Lists
<1>1. PICK p \in UnsubPackets : k \in Rests(p)
  BY DEF Lists
<1>2. PICK n \in 1 .. Len(p) : k = SubSeq(p, n, Len(p))
  BY <1>1 DEF Rests
<1>3. p \in Seq(Split) /\ Len(p) \in Nat
  BY DispatchAssumption
<1>4. Len(p) \in n .. Len(p)
  BY <1>3
<1>5. Tail(k) = SubSeq(p, n + 1, Len(p))
  BY <1>2, <1>3, <1>4, HeadTailOfSubSeq
<1>6. n # Len(p)
  <2> SUFFICES ASSUME n = Len(p) PROVE FALSE
    OBVIOUS
  <2>1. \A i \in n .. Len(p) : p[i] \in Split
    BY <1>3, ElementOfSeq
  <2>2. Len(k) = IF n <= Len(p) THEN Len(p) - n + 1 ELSE 0
    BY <1>2, <1>3, <2>1, SubSeqProperties
  <2> QED
    BY <1>3, <2>2
<1>7. n + 1 \in 1 .. Len(p)
  BY <1>3, <1>6
<1>8. Tail(k) \in Rests(p)
  BY <1>5, <1>7 DEF Rests
<1> QED
  BY <1>8 DEF Lists

LEMMA FirstList ==
    ASSUME NEW p \in UnsubPackets PROVE p \in Lists
<1>1. p \in Seq(Split) /\ p # << >>
  BY DispatchAssumption
<1>2. 1 \in 1 .. Len(p)
  BY <1>1
<1>3. p = SubSeq(p, 1, Len(p))
  BY <1>1, SubSeqFull
<1> QED
  BY <1>2, <1>3 DEF Lists, Rests

LEMMA InitTypeInv == Init => TypeInv
<1> SUFFICES ASSUME Init PROVE TypeInv
  OBVIOUS
<1>1. emptyTree \in Trees
  <2>1. DOMAIN emptyTree = {} /\ emptyTree \in [{} -> NodeType]
    BY DEF emptyTree
  <2>2. {} \in Domains
    BY DEF Domains
  <2> QED
    BY <2>1, <2>2 DEF Trees
<1>2. newNode \in NodeType
  BY DEF newNode, NodeType
<1>3. Typed
  BY <1>1, <1>2 DEF Init, Typed, Goroutines
<1>4. InHand /\ ToNamed /\ EndsOwn
  BY DispatchAssumption DEF Init, InHand, ToNamed, EndsOwn, Goroutines
<1> QED
  BY <1>3, <1>4 DEF TypeInv

LEMMA NextTypeInv == TypeInv /\ [Next]_vars => TypeInv'
<1> SUFFICES ASSUME TypeInv, [Next]_vars PROVE TypeInv'
  OBVIOUS
<1> USE DispatchAssumption DEF Goroutines, Goto, dispatchVars
<1>0. Typed /\ InHand /\ ToNamed /\ EndsOwn
  BY DEF TypeInv
<1>a. newNode \in NodeType /\ \A r \in Sessions : newNode[r] = NoQos
  BY DEF newNode, NodeType
<1>1. ASSUME NEW s \in Sessions, RecvSubscribe(s) PROVE TypeInv'
  <2>1. Typed'
    BY <1>0, <1>a, <1>1 DEF RecvSubscribe, RecvMsg, Typed, InHand, ToNamed, EndsOwn
  <2>2. InHand'
    BY <1>0, <1>a, <1>1 DEF RecvSubscribe, RecvMsg, Typed, InHand, ToNamed, EndsOwn
  <2>3. ToNamed'
    BY <1>0, <1>a, <1>1 DEF RecvSubscribe, RecvMsg, Typed, InHand, ToNamed, EndsOwn
  <2>4. EndsOwn'
    BY <1>0, <1>a, <1>1 DEF RecvSubscribe, RecvMsg, Typed, InHand, ToNamed, EndsOwn
  <2> QED
    BY <2>1, <2>2, <2>3, <2>4 DEF TypeInv
<1>2. ASSUME NEW s \in Sessions, RecvUnsubscribe(s) PROVE TypeInv'
  <2>0. \A p \in UnsubPackets : p \in Lists
    BY FirstList
  <2>1. Typed'
    BY <1>0, <1>a, <2>0, <1>2 DEF RecvUnsubscribe, RecvMsg, Typed, InHand, ToNamed, EndsOwn
  <2>2. InHand'
    BY <1>0, <1>a, <2>0, <1>2 DEF RecvUnsubscribe, RecvMsg, Typed, InHand, ToNamed, EndsOwn
  <2>3. ToNamed'
    BY <1>0, <1>a, <2>0, <1>2 DEF RecvUnsubscribe, RecvMsg, Typed, InHand, ToNamed, EndsOwn
  <2>4. EndsOwn'
    BY <1>0, <1>a, <2>0, <1>2 DEF RecvUnsubscribe, RecvMsg, Typed, InHand, ToNamed, EndsOwn
  <2> QED
    BY <2>1, <2>2, <2>3, <2>4 DEF TypeInv
<1>3. ASSUME NEW s \in Sessions, RecvPublish(s) PROVE TypeInv'
  <2>1. Typed'
    BY <1>0, <1>a, <1>3 DEF RecvPublish, RecvMsg, Typed, InHand, ToNamed, EndsOwn
  <2>2. InHand'
    BY <1>0, <1>a, <1>3 DEF RecvPublish, RecvMsg, Typed, InHand, ToNamed, EndsOwn
  <2>3. ToNamed'
    BY <1>0, <1>a, <1>3 DEF RecvPublish, RecvMsg, Typed, InHand, ToNamed, EndsOwn
  <2>4. EndsOwn'
    BY <1>0, <1>a, <1>3 DEF RecvPublish, RecvMsg, Typed, InHand, ToNamed, EndsOwn
  <2> QED
    BY <2>1, <2>2, <2>3, <2>4 DEF TypeInv
<1>4. ASSUME NEW s \in Sessions, onSubscribe(s) PROVE TypeInv'
  <2>0. Add(tree, packet[s], s) \in Trees
    BY <1>0, <1>4, AddFacts DEF onSubscribe, Typed, InHand
  <2>1. Typed'
    BY <1>0, <1>a, <2>0, <1>4 DEF onSubscribe, Handled, Typed, InHand, ToNamed, EndsOwn
  <2>2. InHand'
    BY <1>0, <1>a, <2>0, <1>4 DEF onSubscribe, Handled, Typed, InHand, ToNamed, EndsOwn
  <2>3. ToNamed'
    BY <1>0, <1>a, <2>0, <1>4 DEF onSubscribe, Handled, Typed, InHand, ToNamed, EndsOwn
  <2>4. EndsOwn'
    BY <1>0, <1>a, <2>0, <1>4 DEF onSubscribe, Handled, Typed, InHand, ToNamed, EndsOwn
  <2> QED
    BY <2>1, <2>2, <2>3, <2>4 DEF TypeInv
<1>5. ASSUME NEW s \in Sessions, onUnsubscribe(s) PROVE TypeInv'
  <2>0. Remove(tree, Head(packet[s]), s) \in Trees
    BY <1>0, RemoveFacts DEF Typed
  <2>1. Typed'
    BY <1>0, <1>a, <2>0, <1>5 DEF onUnsubscribe, Handled, Typed, InHand, ToNamed, EndsOwn
  <2>2. InHand'
    <3>1. packet[s] \in Lists
      BY <1>0, <1>5 DEF onUnsubscribe, InHand
    <3>2. CASE Len(packet[s]) = 1
      BY <1>0, <1>5, <3>2 DEF onUnsubscribe, Handled, Typed, InHand
    <3>3. CASE Len(packet[s]) # 1
      <4>1. Tail(packet[s]) \in Lists
        BY <3>1, <3>3, ListFacts
      <4> QED
        BY <1>0, <1>5, <3>3, <4>1 DEF onUnsubscribe, Typed, InHand
    <3> QED
      BY <3>2, <3>3
  <2>3. ToNamed'
    BY <1>0, <1>a, <2>0, <1>5 DEF onUnsubscribe, Handled, Typed, InHand, ToNamed, EndsOwn
  <2>4. EndsOwn'
    BY <1>0, <1>a, <2>0, <1>5 DEF onUnsubscribe, Handled, Typed, InHand, ToNamed, EndsOwn
  <2> QED
    BY <2>1, <2>2, <2>3, <2>4 DEF TypeInv
<1>6. ASSUME NEW s \in Sessions, Lookup(s) PROVE TypeInv'
  <2>0. GetSessions(tree, packet[s]) \in NodeType
    BY <1>0, <1>6, GetSessionsFacts DEF Lookup, Typed, InHand
  <2>1. Typed'
    BY <1>0, <1>a, <2>0, <1>6 DEF Lookup, Typed, InHand, ToNamed, EndsOwn
  <2>2. InHand'
    BY <1>0, <1>a, <2>0, <1>6 DEF Lookup, Typed, InHand, ToNamed, EndsOwn
  <2>3. ToNamed'
    BY <1>0, <1>a, <2>0, <1>6 DEF Lookup, Typed, InHand, ToNamed, EndsOwn
  <2>4. EndsOwn'
    BY <1>0, <1>a, <2>0, <1>6 DEF Lookup, Typed, InHand, ToNamed, EndsOwn
  <2> QED
    BY <2>1, <2>2, <2>3, <2>4 DEF TypeInv
<1>7. ASSUME NEW s \in Sessions, FanOutSkip(s) PROVE TypeInv'
  <2>1. Typed'
    BY <1>0, <1>a, <1>7 DEF FanOutSkip, Typed, InHand, ToNamed, EndsOwn
  <2>2. InHand'
    BY <1>0, <1>a, <1>7 DEF FanOutSkip, Typed, InHand, ToNamed, EndsOwn
  <2>3. ToNamed'
    BY <1>0, <1>a, <1>7 DEF FanOutSkip, Typed, InHand, ToNamed, EndsOwn
  <2>4. EndsOwn'
    BY <1>0, <1>a, <1>7 DEF FanOutSkip, Typed, InHand, ToNamed, EndsOwn
  <2> QED
    BY <2>1, <2>2, <2>3, <2>4 DEF TypeInv
<1>8. ASSUME NEW s \in Sessions, FanOutCheck(s) PROVE TypeInv'
  <2>1. Typed'
    BY <1>0, <1>a, <1>8 DEF FanOutCheck, Typed, InHand, ToNamed, EndsOwn
  <2>2. InHand'
    BY <1>0, <1>a, <1>8 DEF FanOutCheck, Typed, InHand, ToNamed, EndsOwn
  <2>3. ToNamed'
    BY <1>0, <1>a, <1>8 DEF FanOutCheck, Typed, InHand, ToNamed, EndsOwn
  <2>4. EndsOwn'
    BY <1>0, <1>a, <1>8 DEF FanOutCheck, Typed, InHand, ToNamed, EndsOwn
  <2> QED
    BY <2>1, <2>2, <2>3, <2>4 DEF TypeInv
<1>9. ASSUME NEW s \in Sessions, FanOutDone(s) PROVE TypeInv'
  <2>1. Typed'
    BY <1>0, <1>a, <1>9 DEF FanOutDone, FanOutEnd, Handled, Typed, InHand, ToNamed, EndsOwn
  <2>2. InHand'
    BY <1>0, <1>a, <1>9 DEF FanOutDone, FanOutEnd, Handled, Typed, InHand, ToNamed, EndsOwn
  <2>3. ToNamed'
    BY <1>0, <1>a, <1>9 DEF FanOutDone, FanOutEnd, Handled, Typed, InHand, ToNamed, EndsOwn
  <2>4. EndsOwn'
    BY <1>0, <1>a, <1>9 DEF FanOutDone, FanOutEnd, Handled, Typed, InHand, ToNamed, EndsOwn
  <2> QED
    BY <2>1, <2>2, <2>3, <2>4 DEF TypeInv
<1>10. ASSUME NEW s \in Sessions, PublishTakes(s) PROVE TypeInv'
  <2>1. Typed'
    BY <1>0, <1>a, <1>10 DEF PublishTakes, Typed, InHand, ToNamed, EndsOwn
  <2>2. InHand'
    BY <1>0, <1>a, <1>10 DEF PublishTakes, Typed, InHand, ToNamed, EndsOwn
  <2>3. ToNamed'
    BY <1>0, <1>a, <1>10 DEF PublishTakes, Typed, InHand, ToNamed, EndsOwn
  <2>4. EndsOwn'
    BY <1>0, <1>a, <1>10 DEF PublishTakes, Typed, InHand, ToNamed, EndsOwn
  <2> QED
    BY <2>1, <2>2, <2>3, <2>4 DEF TypeInv
<1>11. ASSUME NEW s \in Sessions, PublishRefuses(s) PROVE TypeInv'
  <2>1. Typed'
    BY <1>0, <1>a, <1>11 DEF PublishRefuses, FanOutEnd, Handled, Typed, InHand,
       ToNamed, EndsOwn
  <2>2. InHand'
    BY <1>0, <1>a, <1>11 DEF PublishRefuses, FanOutEnd, Handled, Typed, InHand,
       ToNamed, EndsOwn
  <2>3. ToNamed'
    BY <1>0, <1>a, <1>11 DEF PublishRefuses, FanOutEnd, Handled, Typed, InHand,
       ToNamed, EndsOwn
  <2>4. EndsOwn'
    BY <1>0, <1>a, <1>11 DEF PublishRefuses, FanOutEnd, Handled, Typed, InHand,
       ToNamed, EndsOwn
  <2> QED
    BY <2>1, <2>2, <2>3, <2>4 DEF TypeInv
<1>12. ASSUME NEW s \in Sessions, NotifyCheck(s, s) PROVE TypeInv'
  <2>1. Typed'
    BY <1>0, <1>a, <1>12 DEF NotifyCheck, Typed, InHand, ToNamed, EndsOwn
  <2>2. InHand'
    BY <1>0, <1>a, <1>12 DEF NotifyCheck, Typed, InHand, ToNamed, EndsOwn
  <2>3. ToNamed'
    BY <1>0, <1>a, <1>12 DEF NotifyCheck, Typed, InHand, ToNamed, EndsOwn
  <2>4. EndsOwn'
    BY <1>0, <1>a, <1>12 DEF NotifyCheck, Typed, InHand, ToNamed, EndsOwn
  <2> QED
    BY <2>1, <2>2, <2>3, <2>4 DEF TypeInv
<1>13. ASSUME NEW s \in Sessions, NotifyCheck("tick", s) PROVE TypeInv'
  <2>1. Typed'
    BY <1>0, <1>a, <1>13 DEF NotifyCheck, Typed, InHand, ToNamed, EndsOwn
  <2>2. InHand'
    BY <1>0, <1>a, <1>13 DEF NotifyCheck, Typed, InHand, ToNamed, EndsOwn
  <2>3. ToNamed'
    BY <1>0, <1>a, <1>13 DEF NotifyCheck, Typed, InHand, ToNamed, EndsOwn
  <2>4. EndsOwn'
    BY <1>0, <1>a, <1>13 DEF NotifyCheck, Typed, InHand, ToNamed, EndsOwn
  <2> QED
    BY <2>1, <2>2, <2>3, <2>4 DEF TypeInv
<1>14. ASSUME NEW s \in Sessions, Close(s) PROVE TypeInv'
  <2>1. Typed'
    BY <1>0, <1>a, <1>14 DEF Close, Typed, InHand, ToNamed, EndsOwn
  <2>2. InHand'
    BY <1>0, <1>a, <1>14 DEF Close, Typed, InHand, ToNamed, EndsOwn
  <2>3. ToNamed'
    BY <1>0, <1>a, <1>14 DEF Close, Typed, InHand, ToNamed, EndsOwn
  <2>4. EndsOwn'
    BY <1>0, <1>a, <1>14 DEF Close, Typed, InHand, ToNamed, EndsOwn
  <2> QED
    BY <2>1, <2>2, <2>3, <2>4 DEF TypeInv
<1>15. ASSUME NEW g \in Goroutines, NotifyRemove(g) PROVE TypeInv'
  <2>0. RemoveSession(tree, target[g]) \in Trees
    BY <1>0, <1>15, RemoveSessionFacts DEF NotifyRemove, Typed, EndsOwn, Without
  <2>1. Typed'
    BY <1>0, <1>a, <2>0, <1>15 DEF NotifyRemove, Typed, InHand, ToNamed, EndsOwn
  <2>2. InHand'
    BY <1>0, <1>a, <2>0, <1>15 DEF NotifyRemove, Typed, InHand, ToNamed, EndsOwn
  <2>3. ToNamed'
    BY <1>0, <1>a, <2>0, <1>15 DEF NotifyRemove, Typed, InHand, ToNamed, EndsOwn
  <2>4. EndsOwn'
    BY <1>0, <1>a, <2>0, <1>15 DEF NotifyRemove, Typed, InHand, ToNamed, EndsOwn
  <2> QED
    BY <2>1, <2>2, <2>3, <2>4 DEF TypeInv
<1>16. ASSUME NEW g \in Goroutines, NotifyStore(g) PROVE TypeInv'
  <2>1. Typed'
    BY <1>0, <1>a, <1>16 DEF NotifyStore, Typed, InHand, ToNamed, EndsOwn
  <2>2. InHand'
    BY <1>0, <1>a, <1>16 DEF NotifyStore, Typed, InHand, ToNamed, EndsOwn
  <2>3. ToNamed'
    BY <1>0, <1>a, <1>16 DEF NotifyStore, Typed, InHand, ToNamed, EndsOwn
  <2>4. EndsOwn'
    BY <1>0, <1>a, <1>16 DEF NotifyStore, Typed, InHand, ToNamed, EndsOwn
  <2> QED
    BY <2>1, <2>2, <2>3, <2>4 DEF TypeInv
<1>17. ASSUME UNCHANGED vars PROVE TypeInv'
  BY <1>0, <1>17 DEF vars, TypeInv, Typed, InHand, ToNamed, EndsOwn
<1> QED
  BY <1>1, <1>2, <1>3, <1>4, <1>5, <1>6, <1>7, <1>8, <1>9, <1>10, <1>11, <1>12, <1>13,
     <1>14, <1>15, <1>16, <1>17 DEF Next

LEMMA TypeInvInvariant == Spec => []TypeInv
BY InitTypeInv, NextTypeInv, PTL DEF Spec

(* Type correctness of subscriptions and dispatch: the tree stays closed   *)
(* under parents and holds only nodes that SUBSCRIBE made, a recvRun has   *)
(* the packet in hand that it handles, and a message is only on its way to *)
(* sessions that GetSessions named.                                        *)
THEOREM TypeCorrect == Spec => []TypeOK
<1>1. TypeInv => TypeOK
  <2> SUFFICES ASSUME TypeInv PROVE TypeOK
    OBVIOUS
  <2>0. Typed /\ InHand /\ ToNamed
    BY DEF TypeInv
  <2>1. DOMAIN tree \in Domains /\ tree \in [DOMAIN tree -> NodeType]
    BY <2>0, TreeFacts DEF Typed
  <2>2. DOMAIN tree \subseteq Levels
    BY <2>1 DEF Domains
  <2>3. \A p \in DOMAIN tree : tree[p] \in NodeType /\ Paths(p) \subseteq DOMAIN tree
    BY <2>1 DEF Domains
  <2>4. ASSUME NEW s \in Sessions
        PROVE  packet[s] \in CASE pc[s] = "add" -> SubPackets
                               [] pc[s] = "del" -> UNION {Rests(p) : p \in UnsubPackets}
                               [] pc[s] \in {"lookup", "fanout", "publish"} -> Topics
                               [] OTHER -> {<< >>}
    <3> DEFINE U == UNION {Rests(p) : p \in UnsubPackets}
    <3>1. /\ pc[s] = "add" => packet[s] \in SubPackets
          /\ pc[s] = "del" => packet[s] \in U
          /\ pc[s] \in {"lookup", "fanout", "publish"} => packet[s] \in Topics
          /\ pc[s] \notin {"add", "del", "lookup", "fanout", "publish"} => packet[s] = << >>
      BY <2>0 DEF InHand, Lists
    <3> HIDE DEF U
    <3>2. packet[s] \in CASE pc[s] = "add" -> SubPackets
                          [] pc[s] = "del" -> U
                          [] pc[s] \in {"lookup", "fanout", "publish"} -> Topics
                          [] OTHER -> {<< >>}
      BY <3>1
    <3> QED
      BY <3>2 DEF U
  <2>5. \A s \in Sessions :
           reached[s] \cup todo[s] \subseteq {r \in Sessions : audience[s][r] # NoQos}
    BY <2>0 DEF Typed, ToNamed
  <2> QED
    BY <2>0, <2>2, <2>3, <2>4, <2>5 DEF TypeOK, Typed
<1> QED
  BY <1>1, TypeInvInvariant, PTL

-----------------------------------------------------------------------------
(* LookupMatches for all trees that can arise: what GetSessions returns is *)
(* exactly the sessions with a matching filter that the walk can find, and *)
(* each QoS is that of a matching filter.                                  *)
THEOREM LookupIsExact == Spec => LookupMatches
<1> DEFINE Exact(s) == \A r \in Sessions :
               LET mine == {f \in DOMAIN tree : tree[f][r] # NoQos /\ Matches(f, packet[s])}
               IN  /\ audience'[s][r] # NoQos => \E f \in mine : tree[f][r] = audience'[s][r]
                   /\ (\E f \in mine : Findable(f, packet[s])) => audience'[s][r] # NoQos
           Only == \A s \in Sessions : pc[s] = "lookup" /\ pc'[s] = "fanout" => Exact(s)
<1>1. TypeInv /\ [Next]_vars => [Only]_vars
  <2> SUFFICES ASSUME TypeInv, Next, NEW s \in Sessions, pc[s] = "lookup", pc'[s] = "fanout"
               PROVE  Exact(s)
    OBVIOUS
  <2> HIDE DEF Exact
  <2>0. Typed /\ InHand
    BY DEF TypeInv
  <2>4. \A r \in Sessions : Lookup(r) => pc' = [pc EXCEPT ![r] = "fanout"]
    BY DEF Lookup, Goto
  <2>1. Lookup(s)
    BY <2>0, <2>4, DispatchAssumption DEF Next, Typed, Goroutines, Goto, dispatchVars, vars,
       RecvSubscribe, RecvMsg, RecvUnsubscribe, RecvPublish, onSubscribe, Handled,
       onUnsubscribe, FanOutSkip, FanOutCheck, FanOutDone, FanOutEnd, PublishTakes,
       PublishRefuses, NotifyCheck, Close, NotifyRemove, NotifyStore
  <2>2. tree \in Trees /\ packet[s] \in Split
    BY <2>0, DispatchAssumption DEF Typed, InHand
  <2>3. audience'[s] = GetSessions(tree, packet[s])
    BY <2>0, <2>1 DEF Lookup, Typed
  <2> QED
    BY <2>2, <2>3, GetSessionsFacts DEF Exact
<1> QED
  BY <1>1, TypeInvInvariant, PTL DEF Spec, LookupMatches

-----------------------------------------------------------------------------
(* From its RemoveSession on a recvRun's own session has no subscription. *)
Forgotten == \A s \in Sessions : pc[s] \in {"store", "gone"} => tree \in Without(s)

LEMMA TreeChanges ==
    TypeInv /\ [Next]_vars =>
      \/ UNCHANGED tree
      \/ \E s \in Sessions : onSubscribe(s) \/ onUnsubscribe(s)
      \/ \E g \in Goroutines : NotifyRemove(g)
BY DEF Next, vars, dispatchVars, RecvSubscribe, RecvMsg, RecvUnsubscribe, RecvPublish,
   Lookup, FanOutSkip, FanOutCheck, FanOutDone, FanOutEnd, Handled, PublishTakes,
   PublishRefuses, NotifyCheck, Close, NotifyStore

LEMMA EndsOnly ==
    ASSUME TypeInv, [Next]_vars, NEW s \in Sessions, pc'[s] \in {"store", "gone"}
    PROVE  pc[s] \in {"store", "gone"} \/ NotifyRemove(s)
BY DispatchAssumption DEF TypeInv, Typed, Next, vars, dispatchVars, Goroutines, Goto,
   RecvSubscribe, RecvMsg, RecvUnsubscribe, RecvPublish, onSubscribe, Handled,
   onUnsubscribe, Lookup, FanOutSkip, FanOutCheck, FanOutDone, FanOutEnd, PublishTakes,
   PublishRefuses, NotifyCheck, Close, NotifyStore, NotifyRemove

LEMMA NextForgotten == TypeInv /\ Forgotten /\ [Next]_vars => Forgotten'
<1> SUFFICES ASSUME TypeInv, Forgotten, [Next]_vars,
                    NEW s \in Sessions, pc'[s] \in {"store", "gone"}
             PROVE  tree' \in Without(s)
  BY DEF Forgotten, Without, Trees
<1>0. Typed /\ InHand /\ EndsOwn
  BY DEF TypeInv
<1>1. tree \in Trees
  BY <1>0 DEF Typed
<1>2. CASE NotifyRemove(s)
  <2>1. target[s] = s /\ tree' = RemoveSession(tree, target[s])
    BY <1>0, <1>2 DEF NotifyRemove, EndsOwn
  <2> QED
    BY <1>1, <2>1, RemoveSessionFacts
<1>3. CASE pc[s] \in {"store", "gone"}
  <2>0. tree \in Without(s)
    BY <1>3 DEF Forgotten
  <2>1. CASE UNCHANGED tree
    BY <2>0, <2>1
  <2>2. ASSUME NEW r \in Sessions, onSubscribe(r) PROVE tree' \in Without(s)
    <3>1. r # s /\ packet[r] \in SubPackets /\ tree' = Add(tree, packet[r], r)
      BY <1>0, <1>3, <2>2 DEF onSubscribe, InHand
    <3> QED
      BY <1>1, <2>0, <3>1, AddFacts
  <2>3. ASSUME NEW r \in Sessions, onUnsubscribe(r) PROVE tree' \in Without(s)
    BY <1>1, <2>0, <2>3, RemoveFacts DEF onUnsubscribe
  <2>4. ASSUME NEW g \in Goroutines, NotifyRemove(g) PROVE tree' \in Without(s)
    <3>1. target[g] \in Sessions /\ tree' = RemoveSession(tree, target[g])
      BY <1>0, <2>4 DEF NotifyRemove, EndsOwn, Goroutines
    <3> QED
      BY <1>1, <2>0, <3>1, RemoveSessionFacts
  <2> QED
    BY <2>1, <2>2, <2>3, <2>4, TreeChanges
<1> QED
  BY <1>2, <1>3, EndsOnly

(* GoneIsForgotten for any sessions, packets and interleaving: once a      *)
(* recvRun has ended its session no later SUBSCRIBE, UNSUBSCRIBE or ping   *)
(* timeout puts a subscription of it back into the tree.                   *)
THEOREM GoneStaysForgotten == Spec => []GoneIsForgotten
<1>1. Init => Forgotten
  BY DEF Init, Forgotten, Goroutines
<1>2. Forgotten => GoneIsForgotten
  BY DEF Forgotten, GoneIsForgotten, Without
<1> QED
  BY <1>1, <1>2, NextForgotten, TypeInvInvariant, PTL DEF Spec

-----------------------------------------------------------------------------
(* While a message is given out every session that GetSessions named is    *)
(* still to come, has it, is being handed it, is the publisher, or ends.   *)
Accounted ==
    \A s \in Sessions : pc[s] \in {"fanout", "publish"} =>
      \A r \in Sessions : audience[s][r] # NoQos =>
         \/ r \in todo[s] \/ r \in reached[s]
         \/ pc[s] = "publish" /\ r = target[s]
         \/ r = s /\ ~SendToSelf
         \/ clostep[r] # 0

LEMMA NextAccounted == TypeInv /\ Accounted /\ [Next]_vars => Accounted'
<1> SUFFICES ASSUME TypeInv, Accounted, [Next]_vars PROVE Accounted'
  OBVIOUS
<1> USE DispatchAssumption DEF Goroutines, Goto, dispatchVars
<1>0. Typed /\ EndsOwn
  BY DEF TypeInv
<1>1. ASSUME NEW s \in Sessions, RecvSubscribe(s) PROVE Accounted'
  BY <1>0, <1>1 DEF RecvSubscribe, RecvMsg, Typed, EndsOwn, Accounted
<1>2. ASSUME NEW s \in Sessions, RecvUnsubscribe(s) PROVE Accounted'
  BY <1>0, <1>2 DEF RecvUnsubscribe, RecvMsg, Typed, EndsOwn, Accounted
<1>3. ASSUME NEW s \in Sessions, RecvPublish(s) PROVE Accounted'
  BY <1>0, <1>3 DEF RecvPublish, RecvMsg, Typed, EndsOwn, Accounted
<1>4. ASSUME NEW s \in Sessions, onSubscribe(s) PROVE Accounted'
  BY <1>0, <1>4 DEF onSubscribe, Handled, Typed, EndsOwn, Accounted
<1>5. ASSUME NEW s \in Sessions, onUnsubscribe(s) PROVE Accounted'
  BY <1>0, <1>5 DEF onUnsubscribe, Handled, Typed, EndsOwn, Accounted
<1>6. ASSUME NEW s \in Sessions, Lookup(s) PROVE Accounted'
  BY <1>0, <1>6 DEF Lookup, Typed, EndsOwn, Accounted
<1>7. ASSUME NEW s \in Sessions, FanOutSkip(s) PROVE Accounted'
  BY <1>0, <1>7 DEF FanOutSkip, Typed, EndsOwn, Accounted, closing, closed
<1>8. ASSUME NEW s \in Sessions, FanOutCheck(s) PROVE Accounted'
  BY <1>0, <1>8 DEF FanOutCheck, Typed, EndsOwn, Accounted
<1>9. ASSUME NEW s \in Sessions, FanOutDone(s) PROVE Accounted'
  BY <1>0, <1>9 DEF FanOutDone, FanOutEnd, Handled, Typed, EndsOwn, Accounted
<1>10. ASSUME NEW s \in Sessions, PublishTakes(s) PROVE Accounted'
  BY <1>0, <1>10 DEF PublishTakes, Typed, EndsOwn, Accounted
<1>11. ASSUME NEW s \in Sessions, PublishRefuses(s) PROVE Accounted'
  BY <1>0, <1>11 DEF PublishRefuses, FanOutEnd, Handled, Typed, EndsOwn, Accounted
<1>12. ASSUME NEW s \in Sessions, NotifyCheck(s, s) PROVE Accounted'
  BY <1>0, <1>12 DEF NotifyCheck, Typed, EndsOwn, Accounted
<1>13. ASSUME NEW s \in Sessions, NotifyCheck("tick", s) PROVE Accounted'
  BY <1>0, <1>13 DEF NotifyCheck, Typed, EndsOwn, Accounted
<1>14. ASSUME NEW s \in Sessions, Close(s) PROVE Accounted'
  BY <1>0, <1>14 DEF Close, Typed, EndsOwn, Accounted, closing, closed
<1>15. ASSUME NEW g \in Goroutines, NotifyRemove(g) PROVE Accounted'
  BY <1>0, <1>15 DEF NotifyRemove, Typed, EndsOwn, Accounted
<1>16. ASSUME NEW g \in Goroutines, NotifyStore(g) PROVE Accounted'
  BY <1>0, <1>16 DEF NotifyStore, Typed, EndsOwn, Accounted, closing, closed
<1>17. ASSUME UNCHANGED vars PROVE Accounted'
  BY <1>17 DEF vars, Accounted
<1> QED
  BY <1>1, <1>2, <1>3, <1>4, <1>5, <1>6, <1>7, <1>8, <1>9, <1>10, <1>11, <1>12, <1>13,
     <1>14, <1>15, <1>16, <1>17 DEF Next

(* MissedOnlyOnClose for any number of sessions: sendToSubcriber leaves    *)
(* its loop with a named subscriber unserved only if some named session    *)
(* has begun to end, whatever tree operations and ends came in between.    *)
THEOREM MissesOnlyOnClose == Spec => MissedOnlyOnClose
<1> DEFINE Served(s) == LET named == {r \in Sessions : audience[s][r] # NoQos}
                        IN  \/ named \ (IF SendToSelf THEN {} ELSE {s}) \subseteq reached[s]
                            \/ \E r \in named : clostep[r] # 0
           Only == \A s \in Sessions :
                     pc[s] \in {"fanout", "publish"} /\ pc'[s] = "home" => Served(s)
<1>1. Init => Accounted
  BY DEF Init, Accounted, Goroutines
<1>2. TypeInv /\ Accounted /\ [Next]_vars => [Only]_vars
  <2> SUFFICES ASSUME TypeInv, Accounted, Next, NEW s \in Sessions,
                      pc[s] \in {"fanout", "publish"}, pc'[s] = "home"
               PROVE  Served(s)
    OBVIOUS
  <2>0. Typed /\ ToNamed
    BY DEF TypeInv
  <2>1. FanOutDone(s) \/ PublishRefuses(s)
    <3> HIDE DEF Served
    <3> QED
      BY <2>0, DispatchAssumption DEF Next, Typed, Goroutines, Goto, dispatchVars, vars,
         RecvSubscribe, RecvMsg, RecvUnsubscribe, RecvPublish, onSubscribe, Handled,
         onUnsubscribe, Lookup, FanOutSkip, FanOutCheck, FanOutDone, FanOutEnd,
         PublishTakes, PublishRefuses, NotifyCheck, Close, NotifyRemove, NotifyStore
  <2>2. CASE FanOutDone(s)
    <3>1. pc[s] = "fanout" /\ todo[s] = {}
      BY <2>2 DEF FanOutDone
    <3> QED
      BY <3>1 DEF Accounted
  <2>3. CASE PublishRefuses(s)
    <3>1. target[s] \in Sessions /\ audience[s][target[s]] # NoQos /\ clostep[target[s]] # 0
      BY <2>0, <2>3 DEF PublishRefuses, ToNamed, closed
    <3> QED
      BY <3>1
  <2> QED
    BY <2>1, <2>2, <2>3
<1> QED
  BY <1>1, <1>2, NextAccounted, TypeInvInvariant, PTL DEF Spec, MissedOnlyOnClose

=============================================================================
