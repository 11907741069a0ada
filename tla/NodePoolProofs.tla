---------------------------- MODULE NodePoolProofs ----------------------------
(***************************************************************************)
(* For any set of ids, links and sources, any limit of the pool and any    *)
(* number of jobs and clicks: nodes.json is always a pool without a node   *)
(* twice, cut at the limit, whose selection is one of its nodes; what a    *)
(* node shows as measured was measured through it, as long as no process   *)
(* runs that no record names; a batch gives the user's selection back; and *)
(* the user's favorites and pins are kept.                                 *)
(***************************************************************************)
EXTENDS NodePool, FiniteSetTheorems, FunctionTheorems, SequenceTheorems, TLAPS

\* Records that show nothing measured through another node.
Honest == {n \in Records : n.test \in {None, n.id} /\ n.perf \in {None, n.id}}

Distinct(q) == \A i, j \in DOMAIN q : q[i].id = q[j].id => i = j

\* Lists without a node twice, of records of one of the two kinds.
Lists(N) == {q \in Seq(N) : Distinct(q)}
Kinds == {Records, Honest}

Stores(N) ==
    {s \in [selected : Ids \cup {None}, nodes : Lists(N)] :
        /\ Len(s.nodes) <= MaxNodes
        /\ s.selected \in IdsOf(s.nodes) \cup {None}
        /\ s.selected = None => s.nodes = <<>>}

-----------------------------------------------------------------------------
(* Positions and their ranks *)

\* A set of n positions has one of each rank from 1 to n.
LEMMA Ranks ==
  ASSUME NEW m \in Nat, NEW S \in SUBSET (1..m)
  PROVE  /\ IsFiniteSet(S) /\ Cardinality(S) \in Nat /\ Cardinality(S) <= m
         /\ \A k \in 1..Cardinality(S) : \E i \in S : Cardinality({j \in S : j <= i}) = k
         /\ \A i \in S : /\ Cardinality({j \in S : j <= i}) \in 1..Cardinality(S)
                        /\ Cardinality({j \in S : j <= i}) <= i
         /\ \A a, b \in S :
               Cardinality({j \in S : j <= a}) = Cardinality({j \in S : j <= b}) => a = b
<1> DEFINE n == Cardinality(S)
           upto(i) == {j \in S : j <= i}
           rank == [i \in S |-> Cardinality(upto(i))]
<1>1. IsFiniteSet(1..m) /\ Cardinality(1..m) = m
  BY FS_Interval
<1>2. IsFiniteSet(S) /\ n \in Nat /\ n <= m
  BY <1>1, FS_Subset, FS_CardinalityType
<1>3. \A i \in S : /\ IsFiniteSet(upto(i)) /\ Cardinality(upto(i)) \in Nat
                   /\ Cardinality(upto(i)) <= n
  <2> SUFFICES ASSUME NEW i \in S
               PROVE  /\ IsFiniteSet(upto(i)) /\ Cardinality(upto(i)) \in Nat
                      /\ Cardinality(upto(i)) <= n
    OBVIOUS
  <2>1. upto(i) \in SUBSET S
    OBVIOUS
  <2>2. QED
    BY <1>2, <2>1, FS_Subset, FS_CardinalityType
<1>4. \A i \in S : Cardinality(upto(i)) > 0
  <2> SUFFICES ASSUME NEW i \in S PROVE Cardinality(upto(i)) > 0
    OBVIOUS
  <2>1. i \in upto(i)
    OBVIOUS
  <2>2. Cardinality(upto(i)) # 0
    BY <1>3, <2>1, FS_EmptySet
  <2>3. QED
    BY <1>3, <2>2
<1>5. rank \in [S -> 1..n]
  BY <1>2, <1>3, <1>4
<1>6. ASSUME NEW a \in S, NEW b \in S, a < b PROVE Cardinality(upto(a)) < Cardinality(upto(b))
  <2>1. a \in Int /\ b \in Int /\ (\A j \in S : j \in Int)
    OBVIOUS
  <2>2. \A j \in S : j <= a => j <= b
    BY <1>6, <2>1
  <2>3. upto(a) \in SUBSET upto(b) /\ b \in upto(b) /\ b \notin upto(a)
    <3>1. upto(a) \in SUBSET upto(b)
      BY <2>2
    <3>2. b <= b /\ ~(b <= a)
      BY <1>6, <2>1
    <3>3. QED
      BY <3>1, <3>2
  <2>4. Cardinality(upto(a)) <= Cardinality(upto(b)) /\ Cardinality(upto(a)) # Cardinality(upto(b))
    BY <1>3, <2>3, FS_Subset
  <2>5. QED
    BY <1>3, <2>4
<1>7. \A a, b \in S : rank[a] = rank[b] => a = b
  <2> SUFFICES ASSUME NEW a \in S, NEW b \in S, rank[a] = rank[b] PROVE a = b
    OBVIOUS
  <2>1. Cardinality(upto(a)) = Cardinality(upto(b)) /\ Cardinality(upto(a)) \in Nat
    BY <1>3
  <2>2. a \in Int /\ b \in Int
    OBVIOUS
  <2>3. ~(a < b) /\ ~(b < a)
    BY <1>3, <1>6, <2>1
  <2>4. QED
    BY <2>2, <2>3
<1>8. rank \in Injection(S, 1..n)
  BY <1>5, <1>7, Fun_IsInj
<1>9. IsFiniteSet(1..n) /\ Cardinality(1..n) = n
  BY <1>2, FS_Interval
<1>10. rank \in Surjection(S, 1..n)
  BY <1>8, <1>9, FS_Injection
<1>11. \A k \in 1..n : \E i \in S : rank[i] = k
  BY <1>10 DEF Surjection
<1>12. ASSUME NEW i \in S PROVE Cardinality(upto(i)) <= i
  <2>1. i \in Nat /\ IsFiniteSet(1..i) /\ Cardinality(1..i) = i
    BY FS_Interval
  <2>2. \A j \in S : j <= i => j \in 1..i
    BY <2>1
  <2>3. upto(i) \in SUBSET (1..i)
    BY <2>2
  <2>4. QED
    BY <2>1, <2>3, FS_Subset
<1>13. \A i \in S : Cardinality(upto(i)) \in 1..n
  BY <1>2, <1>3, <1>4
<1>14. \A a, b \in S : Cardinality(upto(a)) = Cardinality(upto(b)) => a = b
  BY <1>7
<1>15. QED
  BY <1>2, <1>11, <1>12, <1>13, <1>14

\* A set of positions that is not empty has a last one.
LEMMA LastPlace ==
  ASSUME NEW m \in Nat, NEW S \in SUBSET (1..m), S # {}
  PROVE  \E i \in S : \A j \in S : j <= i
<1>1. /\ IsFiniteSet(S) /\ Cardinality(S) \in Nat
      /\ \A k \in 1..Cardinality(S) : \E i \in S : Cardinality({j \in S : j <= i}) = k
  BY Ranks
<1>2. Cardinality(S) \in 1..Cardinality(S)
  BY <1>1, FS_EmptySet
<1>3. PICK i \in S : Cardinality({j \in S : j <= i}) = Cardinality(S)
  BY <1>1, <1>2
<1>4. {j \in S : j <= i} = S
  BY <1>1, <1>3, FS_Subset
<1>5. QED
  BY <1>4

\* A list comprehension takes each place it is to take once.
LEMMA ThoseTaken ==
  ASSUME NEW N, NEW q \in Seq(N), NEW S \in SUBSET DOMAIN q
  PROVE  /\ Those(q, S) \in Seq(N) /\ Len(Those(q, S)) <= Len(q)
         /\ \E f \in Injection(DOMAIN Those(q, S), S) :
               \A k \in DOMAIN Those(q, S) : Those(q, S)[k] = q[f[k]]
<1> DEFINE n == Cardinality(S)
           at(k) == CHOOSE i \in S : Cardinality({j \in S : j <= i}) = k
           f == [k \in 1..n |-> at(k)]
<1>1. Len(q) \in Nat /\ DOMAIN q = 1..Len(q) /\ S \in SUBSET (1..Len(q))
  OBVIOUS
<1>2. /\ n \in Nat /\ n <= Len(q)
      /\ \A k \in 1..n : \E i \in S : Cardinality({j \in S : j <= i}) = k
  BY <1>1, Ranks
<1>3. \A k \in 1..n : at(k) \in S /\ Cardinality({j \in S : j <= at(k)}) = k
  BY <1>2
<1>4. Those(q, S) = [k \in 1..n |-> q[at(k)]]
  BY DEF Those
<1>5. \A k \in 1..n : q[at(k)] \in N
  <2>1. \A i \in S : q[i] \in N
    BY <1>1
  <2>2. QED
    BY <1>3, <2>1
<1>6. Those(q, S) \in [1..n -> N]
  BY <1>4, <1>5
<1>7. Those(q, S) \in Seq(N) /\ Len(Those(q, S)) = n /\ DOMAIN Those(q, S) = 1..n
  BY <1>2, <1>6
<1>8. f \in Injection(1..n, S)
  <2>1. f \in [1..n -> S]
    BY <1>3
  <2>2. \A a, b \in 1..n : f[a] = f[b] => a = b
    <3> SUFFICES ASSUME NEW a \in 1..n, NEW b \in 1..n, f[a] = f[b] PROVE a = b
      OBVIOUS
    <3>1. at(a) = at(b)
      OBVIOUS
    <3>2. QED
      BY <1>3, <3>1
  <2>3. QED
    BY <2>1, <2>2, Fun_IsInj
<1>9. \A k \in 1..n : Those(q, S)[k] = q[f[k]]
  BY <1>4
<1>10. QED
  BY <1>2, <1>7, <1>8, <1>9

\* What a comprehension takes is there, no later than it was.
LEMMA ThoseKept ==
  ASSUME NEW N, NEW q \in Seq(N), NEW S \in SUBSET DOMAIN q
  PROVE  /\ Len(Those(q, S)) = Cardinality(S) /\ DOMAIN Those(q, S) = 1..Cardinality(S)
         /\ Cardinality(S) \in Nat /\ IsFiniteSet(S)
         /\ \A i \in S : \E k \in DOMAIN Those(q, S) : k <= i /\ Those(q, S)[k] = q[i]
<1> DEFINE n == Cardinality(S)
           rank(i) == Cardinality({j \in S : j <= i})
           at(k) == CHOOSE i \in S : rank(i) = k
<1>1. Len(q) \in Nat /\ DOMAIN q = 1..Len(q) /\ S \in SUBSET (1..Len(q))
  OBVIOUS
<1>2. /\ n \in Nat /\ IsFiniteSet(S)
      /\ \A i \in S : rank(i) \in 1..n /\ rank(i) <= i
      /\ \A a, b \in S : rank(a) = rank(b) => a = b
  BY <1>1, Ranks
<1>3. Those(q, S) = [k \in 1..n |-> q[at(k)]]
  BY DEF Those
<1>4. Those(q, S) \in Seq(N)
  BY ThoseTaken
<1>5. DOMAIN Those(q, S) = 1..n /\ Len(Those(q, S)) = n
  BY <1>2, <1>3, <1>4
<1>6. ASSUME NEW i \in S PROVE \E k \in 1..n : k <= i /\ Those(q, S)[k] = q[i]
  <2>1. at(rank(i)) \in S /\ rank(at(rank(i))) = rank(i)
    OBVIOUS
  <2>2. at(rank(i)) = i
    BY <1>2, <2>1
  <2>3. QED
    BY <1>2, <1>3, <2>2
<1>7. QED
  BY <1>2, <1>5, <1>6

-----------------------------------------------------------------------------
(* Records and lists of them.  N is either kind of record. *)

LEMMA KindFacts ==
  ASSUME NEW N \in Kinds
  PROVE  /\ N \subseteq Records /\ Honest \subseteq N
         /\ \A n \in N, b \in BOOLEAN :
               [n EXCEPT !.marked = b] \in N /\ [n EXCEPT !.marked = b].id = n.id
         /\ \A old, new \in N :
               old.id = new.id => Updated(old, new) \in N /\ Updated(old, new).id = new.id
  BY DEF Kinds, Records, Honest, Updated

LEMMA NodeFacts ==
  ASSUME NEW id \in Ids, NEW source \in Sources \cup {"own", "country"}
  PROVE  Node(id, source) \in Honest /\ Node(id, source).id = id
  BY DEF Node, Honest, Records

LEMMA ListFacts ==
  ASSUME NEW N \in Kinds, NEW q \in Lists(N)
  PROVE  /\ q \in Seq(N) /\ Len(q) \in Nat /\ DOMAIN q = 1..Len(q) /\ Distinct(q)
         /\ \A k \in DOMAIN q : q[k] \in N /\ q[k].id \in Ids /\ q[k].id \in IdsOf(q)
         /\ IdsOf(q) \subseteq Ids /\ (q = <<>> <=> Len(q) = 0) /\ (q = <<>> <=> IdsOf(q) = {})
         /\ \A id \in IdsOf(q) : NodeOf(q, id) \in N /\ NodeOf(q, id).id = id
<1>1. q \in Seq(N) /\ Len(q) \in Nat /\ DOMAIN q = 1..Len(q) /\ Distinct(q)
      /\ (q = <<>> <=> Len(q) = 0)
  BY DEF Lists
<1>2. \A k \in DOMAIN q : q[k] \in N /\ q[k].id \in Ids /\ q[k].id \in IdsOf(q)
  <2>1. \A k \in DOMAIN q : q[k] \in N
    BY <1>1
  <2>2. \A n \in N : n.id \in Ids
    BY KindFacts DEF Records
  <2>3. QED
    BY <2>1, <2>2 DEF IdsOf
<1>3. IdsOf(q) \subseteq Ids
  BY <1>2 DEF IdsOf
<1>4. q = <<>> <=> IdsOf(q) = {}
  <2>1. q # <<>> => 1 \in DOMAIN q
    BY <1>1
  <2>2. q = <<>> => IdsOf(q) = {}
    BY <1>1 DEF IdsOf
  <2>3. QED
    BY <1>2, <2>1, <2>2
<1>5. ASSUME NEW id \in IdsOf(q) PROVE NodeOf(q, id) \in N /\ NodeOf(q, id).id = id
  <2>1. \E k \in DOMAIN q : q[k].id = id
    BY DEF IdsOf
  <2>2. PICK k \in DOMAIN q : NodeOf(q, id) = q[k] /\ q[k].id = id
    BY <2>1 DEF NodeOf
  <2>3. QED
    BY <1>2, <2>2
<1>6. QED
  BY <1>1, <1>2, <1>3, <1>4, <1>5

\* A list changed node by node, each keeping its id.
LEMMA Mapped ==
  ASSUME NEW N \in Kinds, NEW q \in Seq(N), Distinct(q), NEW g \in [DOMAIN q -> N],
         \A k \in DOMAIN q : g[k].id = q[k].id
  PROVE  g \in Lists(N) /\ Len(g) = Len(q) /\ DOMAIN g = DOMAIN q /\ IdsOf(g) = IdsOf(q)
<1>1. DOMAIN q = 1..Len(q) /\ Len(q) \in Nat
  OBVIOUS
<1>2. g \in Seq(N) /\ Len(g) = Len(q) /\ DOMAIN g = DOMAIN q
  BY <1>1
<1>3. Distinct(g)
  BY <1>2 DEF Distinct
<1>4. IdsOf(g) = IdsOf(q)
  BY <1>2 DEF IdsOf
<1>5. QED
  BY <1>2, <1>3, <1>4 DEF Lists

LEMMA Chosen ==
  ASSUME NEW N \in Kinds, NEW q \in Lists(N), NEW S \in SUBSET DOMAIN q
  PROVE  /\ Those(q, S) \in Lists(N) /\ Len(Those(q, S)) <= Len(q)
         /\ \A k \in DOMAIN Those(q, S) : \E i \in S : Those(q, S)[k] = q[i]
         /\ \A id \in IdsOf(Those(q, S)) : \E i \in S : id = q[i].id
<1> DEFINE t == Those(q, S)
<1>1. q \in Seq(N) /\ Distinct(q)
  BY ListFacts
<1>2. /\ t \in Seq(N) /\ Len(t) <= Len(q)
      /\ \E f \in Injection(DOMAIN t, S) : \A k \in DOMAIN t : t[k] = q[f[k]]
  BY <1>1, ThoseTaken
<1>3. PICK f \in Injection(DOMAIN t, S) : \A k \in DOMAIN t : t[k] = q[f[k]]
  BY <1>2
<1>4. f \in [DOMAIN t -> S] /\ \A a, b \in DOMAIN t : f[a] = f[b] => a = b
  BY <1>3, Fun_InjectionProperties
<1>5. \A k \in DOMAIN t : f[k] \in S /\ f[k] \in DOMAIN q
  BY <1>4
<1>6. Distinct(t)
  BY <1>1, <1>3, <1>4, <1>5 DEF Distinct
<1>7. \A k \in DOMAIN t : \E i \in S : t[k] = q[i]
  BY <1>3, <1>5
<1>8. QED
  BY <1>2, <1>6, <1>7 DEF Lists, IdsOf

LEMMA Joined ==
  ASSUME NEW N \in Kinds, NEW q \in Lists(N), NEW r \in Lists(N), IdsOf(q) \cap IdsOf(r) = {}
  PROVE  /\ q \o r \in Lists(N) /\ Len(q \o r) = Len(q) + Len(r)
         /\ \A k \in DOMAIN q : k \in DOMAIN (q \o r) /\ (q \o r)[k] = q[k]
<1> DEFINE t == q \o r
<1>1. /\ q \in Seq(N) /\ Len(q) \in Nat /\ DOMAIN q = 1..Len(q) /\ Distinct(q)
      /\ r \in Seq(N) /\ Len(r) \in Nat /\ DOMAIN r = 1..Len(r) /\ Distinct(r)
      /\ \A k \in DOMAIN q : q[k].id \in IdsOf(q)
      /\ \A k \in DOMAIN r : r[k].id \in IdsOf(r)
  BY ListFacts
<1>2. /\ t \in Seq(N) /\ Len(t) = Len(q) + Len(r)
      /\ \A k \in 1..Len(q) + Len(r) : t[k] = IF k <= Len(q) THEN q[k] ELSE r[k - Len(q)]
  BY <1>1, ConcatProperties
<1>3. DOMAIN t = 1..Len(q) + Len(r)
  BY <1>2
<1>4. ASSUME NEW a \in DOMAIN t, NEW b \in DOMAIN t, t[a].id = t[b].id PROVE a = b
  <2>1. \A k \in DOMAIN t : \/ k \in DOMAIN q /\ t[k] = q[k]
                            \/ k - Len(q) \in DOMAIN r /\ t[k] = r[k - Len(q)]
    BY <1>1, <1>2, <1>3
  <2>2. CASE a \in DOMAIN q /\ t[a] = q[a] /\ b \in DOMAIN q /\ t[b] = q[b]
    BY <1>1, <1>4, <2>2 DEF Distinct
  <2>3. CASE a - Len(q) \in DOMAIN r /\ t[a] = r[a - Len(q)]
             /\ b - Len(q) \in DOMAIN r /\ t[b] = r[b - Len(q)]
    <3>1. a - Len(q) = b - Len(q)
      BY <1>1, <1>4, <2>3 DEF Distinct
    <3>2. a \in Int /\ b \in Int
      BY <1>3
    <3>3. QED
      BY <1>1, <3>1, <3>2
  <2>4. QED
    BY <1>1, <1>4, <2>1, <2>2, <2>3
<1>5. Distinct(t)
  BY <1>4 DEF Distinct
<1>6. QED
  BY <1>1, <1>2, <1>3, <1>5 DEF Lists

LEMMA CutPlaces ==
  ASSUME NEW N, NEW q \in Seq(N)
  PROVE  /\ Cut(q) \in Seq(N) /\ Len(Cut(q)) <= MaxNodes
         /\ \A k \in DOMAIN Cut(q) : k \in DOMAIN q /\ Cut(q)[k] = q[k]
         /\ \A k \in DOMAIN q : k <= MaxNodes => k \in DOMAIN Cut(q)
<1>1. Len(q) \in Nat /\ DOMAIN q = 1..Len(q) /\ MaxNodes \in Nat
  BY PoolAssumption
<1>2. ASSUME NEW m \in Nat, m <= Len(q)
      PROVE  /\ SubSeq(q, 1, m) \in Seq(N) /\ Len(SubSeq(q, 1, m)) = m
             /\ \A k \in 1..m : k \in DOMAIN q /\ SubSeq(q, 1, m)[k] = q[k]
  <2>1. \A k \in 1..m : k \in DOMAIN q /\ q[k] \in N
    BY <1>1, <1>2
  <2>2. QED
    BY <2>1, SubSeqProperties
<1>3. CASE Len(q) < MaxNodes
  <2>1. Cut(q) = SubSeq(q, 1, Len(q))
    BY <1>1, <1>3 DEF Cut
  <2>2. QED
    BY <1>1, <1>2, <1>3, <2>1
<1>4. CASE ~(Len(q) < MaxNodes)
  <2>1. Cut(q) = SubSeq(q, 1, MaxNodes) /\ MaxNodes <= Len(q)
    BY <1>1, <1>4 DEF Cut
  <2>2. Cut(q) \in Seq(N) /\ Len(Cut(q)) = MaxNodes
    BY <1>1, <1>2, <2>1
  <2>3. DOMAIN Cut(q) = 1..MaxNodes
    BY <2>2
  <2>4. \A k \in 1..MaxNodes : k \in DOMAIN q /\ Cut(q)[k] = q[k]
    BY <1>1, <1>2, <2>1
  <2>5. QED
    BY <1>1, <2>2, <2>3, <2>4
<1>5. QED
  BY <1>3, <1>4

LEMMA CutFacts ==
  ASSUME NEW N \in Kinds, NEW q \in Lists(N)
  PROVE  /\ Cut(q) \in Lists(N) /\ Len(Cut(q)) <= MaxNodes
         /\ \A k \in DOMAIN q : k <= MaxNodes => k \in DOMAIN Cut(q) /\ Cut(q)[k] = q[k]
<1>1. q \in Seq(N) /\ Distinct(q)
  BY DEF Lists
<1>2. /\ Cut(q) \in Seq(N) /\ Len(Cut(q)) <= MaxNodes
      /\ \A k \in DOMAIN Cut(q) : k \in DOMAIN q /\ Cut(q)[k] = q[k]
      /\ \A k \in DOMAIN q : k <= MaxNodes => k \in DOMAIN Cut(q)
  BY <1>1, CutPlaces
<1>3. Distinct(Cut(q))
  BY <1>1, <1>2 DEF Distinct
<1>4. QED
  BY <1>2, <1>3 DEF Lists

-----------------------------------------------------------------------------
(* What nodehub.merge and the refreshes make of lists *)

LEMMA Merged ==
  ASSUME NEW N \in Kinds, NEW e \in Lists(N), NEW inc \in Lists(N)
  PROVE  /\ Merge(e, inc) \in Lists(N) /\ Len(Merge(e, inc)) <= MaxNodes
         /\ Len(e) <= MaxNodes => IdsOf(e) \subseteq IdsOf(Merge(e, inc))
<1> DEFINE g == [k \in DOMAIN e |-> IF e[k].id \in IdsOf(inc)
                                    THEN Updated(e[k], NodeOf(inc, e[k].id)) ELSE e[k]]
           S == {k \in DOMAIN inc : inc[k].id \notin IdsOf(e)}
           new == Those(inc, S)
<1>1. /\ e \in Seq(N) /\ Distinct(e) /\ Len(e) \in Nat /\ DOMAIN e = 1..Len(e)
      /\ \A k \in DOMAIN e : e[k] \in N
      /\ \A id \in IdsOf(inc) : NodeOf(inc, id) \in N /\ NodeOf(inc, id).id = id
  BY ListFacts
<1>2. \A k \in DOMAIN e : g[k] \in N /\ g[k].id = e[k].id
  BY <1>1, KindFacts
<1>3. g \in [DOMAIN e -> N]
  BY <1>2
<1>4. g \in Lists(N) /\ Len(g) = Len(e) /\ DOMAIN g = DOMAIN e /\ IdsOf(g) = IdsOf(e)
  BY <1>1, <1>2, <1>3, Mapped
<1>5. new \in Lists(N) /\ \A id \in IdsOf(new) : \E k \in S : id = inc[k].id
  BY Chosen
<1>6. IdsOf(g) \cap IdsOf(new) = {}
  BY <1>4, <1>5
<1>7. g \o new \in Lists(N) /\ \A k \in DOMAIN g : k \in DOMAIN (g \o new) /\ (g \o new)[k] = g[k]
  BY <1>4, <1>5, <1>6, Joined
<1>8. Merge(e, inc) = Cut(g \o new)
  BY DEF Merge
<1>9. /\ Merge(e, inc) \in Lists(N) /\ Len(Merge(e, inc)) <= MaxNodes
      /\ \A k \in DOMAIN (g \o new) : k <= MaxNodes =>
            k \in DOMAIN Merge(e, inc) /\ Merge(e, inc)[k] = (g \o new)[k]
  BY <1>7, <1>8, CutFacts
<1>10. ASSUME Len(e) <= MaxNodes, NEW id \in IdsOf(e) PROVE id \in IdsOf(Merge(e, inc))
  <2>1. PICK k \in DOMAIN e : e[k].id = id
    BY DEF IdsOf
  <2>2. k <= MaxNodes
    BY <1>1, <1>10, PoolAssumption
  <2>3. k \in DOMAIN Merge(e, inc) /\ Merge(e, inc)[k].id = id
    BY <1>2, <1>4, <1>7, <1>9, <2>1, <2>2
  <2>4. QED
    BY <2>3 DEF IdsOf
<1>11. QED
  BY <1>9, <1>10

LEMMA FirstFacts ==
  ASSUME NEW N \in Kinds, NEW q \in Lists(N)
  PROVE  /\ q = <<>> => First(q) = None
         /\ q # <<>> => First(q) \in IdsOf(q)
  <1>1. q # <<>> => 1 \in DOMAIN q
    BY ListFacts
  <1>2. QED
    BY <1>1, ListFacts DEF First

LEMMA StoreFacts ==
  ASSUME NEW N \in Kinds, NEW s \in Stores(N)
  PROVE  /\ s.nodes \in Lists(N) /\ Len(s.nodes) <= MaxNodes
         /\ s.selected \in IdsOf(s.nodes) \cup {None} /\ s.selected \in Ids \cup {None}
         /\ s.selected = None => s.nodes = <<>>
         /\ s = [selected |-> s.selected, nodes |-> s.nodes]
  BY DEF Stores

LEMMA StoreMade ==
  ASSUME NEW N \in Kinds, NEW q \in Lists(N), Len(q) <= MaxNodes,
         NEW id \in IdsOf(q) \cup {None}, id = None => q = <<>>
  PROVE  [selected |-> id, nodes |-> q] \in Stores(N)
  BY ListFacts DEF Stores

LEMMA ReselectedSound ==
  ASSUME NEW N \in Kinds, NEW s, NEW q \in Lists(N), Len(q) <= MaxNodes
  PROVE  Reselected(s, q) \in Stores(N) /\ Reselected(s, q).nodes = q
<1> DEFINE id == IF s.selected \in IdsOf(q) THEN s.selected ELSE First(q)
<1>1. Reselected(s, q) = [selected |-> id, nodes |-> q]
  BY DEF Reselected
<1>2. id \in IdsOf(q) \cup {None} /\ (id = None => q = <<>>)
  <2>1. None \notin IdsOf(q)
    BY ListFacts, PoolAssumption
  <2>2. QED
    BY <2>1, FirstFacts
<1>3. QED
  BY <1>1, <1>2, StoreMade

LEMMA ImportSound ==
  ASSUME NEW N \in Kinds, NEW s \in Stores(N), NEW inc \in Lists(N)
  PROVE  Import(s, inc) \in Stores(N)
<1> DEFINE q == Merge(s.nodes, inc)
           id == IF s.selected = None THEN First(q) ELSE s.selected
<1>1. q \in Lists(N) /\ Len(q) <= MaxNodes /\ IdsOf(s.nodes) \subseteq IdsOf(q)
  BY StoreFacts, Merged
<1>2. id \in IdsOf(q) \cup {None} /\ (id = None => q = <<>>)
  <2>1. None \notin IdsOf(q)
    BY <1>1, ListFacts, PoolAssumption
  <2>2. First(q) \in IdsOf(q) \cup {None} /\ (First(q) = None => q = <<>>)
    BY <1>1, <2>1, FirstFacts
  <2>3. QED
    BY <1>1, <2>2, StoreFacts
<1>3. Import(s, inc) = [selected |-> id, nodes |-> q]
  BY DEF Import
<1>4. QED
  BY <1>1, <1>2, <1>3, StoreMade

\* The last old node with the same link is a node of the list.
LEMMA LegacyFound ==
  ASSUME NEW N \in Kinds, NEW old \in Lists(N), NEW n, Legacy(old, n) # {}
  PROVE  LegacyOf(old, n) \in N
<1>1. Len(old) \in Nat /\ DOMAIN old = 1..Len(old) /\ \A k \in DOMAIN old : old[k] \in N
  BY ListFacts
<1>2. Legacy(old, n) \in SUBSET (1..Len(old))
  BY <1>1 DEF Legacy
<1>3. \E k \in Legacy(old, n) : \A j \in Legacy(old, n) : j <= k
  BY <1>1, <1>2, LastPlace
<1>4. PICK k \in Legacy(old, n) : LegacyOf(old, n) = old[k]
  BY <1>3 DEF LegacyOf
<1>5. QED
  BY <1>1, <1>2, <1>4

LEMMA MatchingSound ==
  ASSUME NEW N \in Kinds, NEW old \in Lists(N), NEW inc \in Lists(N)
  PROVE  Matching(old, inc) \in Lists(N)
<1> DEFINE S == {k \in DOMAIN inc : inc[k].id \in IdsOf(old) \/ Legacy(old, inc[k]) # {}}
           hits == Those(inc, S)
<1>0. S \in SUBSET DOMAIN inc /\ \A i \in S : inc[i].id \in IdsOf(old) \/ Legacy(old, inc[i]) # {}
  OBVIOUS
<1>4. Matching(old, inc) = [k \in DOMAIN hits |-> Match(old, hits[k])]
  BY DEF Matching
<1> HIDE DEF S
<1>1. hits \in Lists(N) /\ \A k \in DOMAIN hits : \E i \in S : hits[k] = inc[i]
  BY <1>0, Chosen
<1>2. hits \in Seq(N) /\ Distinct(hits) /\ \A k \in DOMAIN hits : hits[k] \in N
  BY <1>1, ListFacts
<1>3. ASSUME NEW k \in DOMAIN hits PROVE Match(old, hits[k]) \in N /\ Match(old, hits[k]).id = hits[k].id
  <2>1. hits[k].id \in IdsOf(old) \/ Legacy(old, hits[k]) # {}
    BY <1>0, <1>1
  <2>2. CASE hits[k].id \in IdsOf(old)
    BY <2>2, ListFacts DEF Match
  <2>3. CASE hits[k].id \notin IdsOf(old)
    <3>1. LegacyOf(old, hits[k]) \in N
      BY <2>1, <2>3, LegacyFound
    <3>2. LegacyOf(old, hits[k]).marked \in BOOLEAN
      BY <3>1, KindFacts DEF Records
    <3>3. Match(old, hits[k]) = [hits[k] EXCEPT !.marked = LegacyOf(old, hits[k]).marked]
      BY <2>3 DEF Match
    <3>4. QED
      BY <1>2, <3>2, <3>3, KindFacts
  <2>4. QED
    BY <2>2, <2>3
<1>5. Matching(old, inc) \in [DOMAIN hits -> N]
      /\ \A k \in DOMAIN hits : Matching(old, inc)[k].id = hits[k].id
  BY <1>3, <1>4
<1>6. QED
  BY <1>2, <1>5, Mapped

LEMMA RefreshSound ==
  ASSUME NEW N \in Kinds, NEW s \in Stores(N), NEW inc \in Lists(N), NEW ok
  PROVE  /\ RefreshWindows(s, ok, inc) \in Stores(N)
         /\ RefreshLinux(s, inc) \in Stores(N)
<1> DEFINE fresh == Merge(Matching(s.nodes, inc), inc)
           gone == IdsOf(inc) \cup Migrated(s.nodes, inc)
           S == {k \in DOMAIN s.nodes : LET n == s.nodes[k]
                                        IN n.id \notin gone /\ (n.source \notin ok \/ n.marked)}
           T == {k \in DOMAIN s.nodes : s.nodes[k].source \notin Sources \/ s.nodes[k].marked}
<1>1. s.nodes \in Lists(N)
  BY StoreFacts
<1>2. fresh \in Lists(N)
  BY <1>1, MatchingSound, Merged
<1>3. Those(s.nodes, S) \in Lists(N) /\ Those(s.nodes, T) \in Lists(N)
  BY <1>1, Chosen
<1>4. /\ Merge(Those(s.nodes, S), fresh) \in Lists(N)
      /\ Len(Merge(Those(s.nodes, S), fresh)) <= MaxNodes
      /\ Merge(Those(s.nodes, T), inc) \in Lists(N)
      /\ Len(Merge(Those(s.nodes, T), inc)) <= MaxNodes
  BY <1>2, <1>3, Merged
<1>5. /\ RefreshWindows(s, ok, inc) = Reselected(s, Merge(Those(s.nodes, S), fresh))
      /\ RefreshLinux(s, inc) = Reselected(s, Merge(Those(s.nodes, T), inc))
  BY DEF RefreshWindows, RefreshLinux
<1>6. QED
  BY <1>4, <1>5, ReselectedSound

LEMMA CountrySound ==
  ASSUME NEW N \in Kinds, NEW s \in Stores(N), NEW inc \in Lists(N)
  PROVE  RefreshCountry(s, inc) \in Stores(N)
<1> DEFINE S == {k \in DOMAIN inc : inc[k].id \in IdsOf(s.nodes)}
           known == Those(inc, S)
           olds == [k \in DOMAIN known |-> NodeOf(s.nodes, known[k].id)]
           fresh == Merge(olds, inc)
           T == {k \in DOMAIN s.nodes : s.nodes[k].id \notin IdsOf(fresh)}
           kept == Those(s.nodes, T)
<1>1. s.nodes \in Lists(N)
  BY StoreFacts
<1>0. /\ S \in SUBSET DOMAIN inc /\ \A i \in S : inc[i].id \in IdsOf(s.nodes)
      /\ T \in SUBSET DOMAIN s.nodes /\ \A i \in T : s.nodes[i].id \notin IdsOf(fresh)
      /\ RefreshCountry(s, inc) = Reselected(s, Cut(fresh \o kept))
  BY DEF RefreshCountry
<1> HIDE DEF S, T
<1>2. known \in Lists(N) /\ \A k \in DOMAIN known : \E i \in S : known[k] = inc[i]
  BY <1>0, Chosen
<1>3. known \in Seq(N) /\ Distinct(known)
  BY <1>2, ListFacts
<1>4. \A k \in DOMAIN known : olds[k] \in N /\ olds[k].id = known[k].id
  BY <1>0, <1>1, <1>2, ListFacts
<1>5. olds \in Lists(N)
  <2>1. olds \in [DOMAIN known -> N]
    BY <1>4
  <2>2. QED
    BY <1>3, <1>4, <2>1, Mapped
<1>6. fresh \in Lists(N)
  BY <1>5, Merged
<1>7. kept \in Lists(N) /\ \A id \in IdsOf(kept) : \E k \in T : id = s.nodes[k].id
  BY <1>0, <1>1, Chosen
<1>8. fresh \o kept \in Lists(N)
  <2>1. IdsOf(fresh) \cap IdsOf(kept) = {}
    BY <1>0, <1>7
  <2>2. QED
    BY <1>6, <1>7, <2>1, Joined
<1>9. Cut(fresh \o kept) \in Lists(N) /\ Len(Cut(fresh \o kept)) <= MaxNodes
  BY <1>8, CutFacts
<1>10. QED
  BY <1>0, <1>9, ReselectedSound

-----------------------------------------------------------------------------
(* The edits *)

Kind(honest) == IF honest THEN Honest ELSE Records

\* An edit as the jobs and the window ask for it; in an honest store what was
\* measured goes to the node it was measured through.
OpOk(op, honest) ==
    /\ op.what \in {"select", "mark", "test", "perf", "import", "country", "refresh", "testall"}
    /\ op.what \in {"import", "country", "refresh"} => op.with \in Lists(Honest)
    /\ op.what \in {"test", "perf"} => /\ op.with \in Ids \cup {None}
                                       /\ honest => op.with \in {None, op.id}

LEMMA KindOk ==
  ASSUME NEW h \in BOOLEAN
  PROVE  /\ Kind(h) \in Kinds /\ Lists(Honest) \subseteq Lists(Kind(h))
         /\ \A n \in Kind(h), w \in Ids \cup {None} :
              (h => w \in {None, n.id}) =>
                /\ [n EXCEPT !.test = w] \in Kind(h) /\ [n EXCEPT !.test = w].id = n.id
                /\ [n EXCEPT !.perf = w] \in Kind(h) /\ [n EXCEPT !.perf = w].id = n.id
<1>1. Kind(h) \in Kinds /\ Honest \subseteq Kind(h)
  BY DEF Kind, Kinds, Honest
<1>2. Lists(Honest) \subseteq Lists(Kind(h))
  BY <1>1, SeqMonotonic DEF Lists
<1>3. CASE h
  BY <1>1, <1>2, <1>3 DEF Kind, Honest, Records
<1>4. CASE ~h
  BY <1>1, <1>2, <1>4 DEF Kind, Records
<1>5. QED
  BY <1>3, <1>4

\* More is allowed once the store need not be honest.
LEMMA KindGrows ==
  ASSUME NEW h \in BOOLEAN, NEW g \in BOOLEAN, g => h
  PROVE  /\ Stores(Kind(h)) \subseteq Stores(Kind(g))
         /\ \A op : OpOk(op, h) => OpOk(op, g)
<1>1. Kind(h) \subseteq Kind(g)
  BY DEF Kind, Honest
<1>2. Lists(Kind(h)) \subseteq Lists(Kind(g))
  BY <1>1, SeqMonotonic DEF Lists
<1>3. QED
  BY <1>2 DEF Stores, OpOk

LEMMA ChangedSound ==
  ASSUME NEW N \in Kinds, NEW s \in Stores(N), NEW id, NEW n,
         id \in IdsOf(s.nodes) => n \in N /\ n.id = id
  PROVE  /\ Changed(s, id, n) \in Stores(N)
         /\ IdsOf(Changed(s, id, n).nodes) = IdsOf(s.nodes)
         /\ Changed(s, id, n).selected = s.selected
<1> DEFINE q == s.nodes
           g == [k \in DOMAIN q |-> IF q[k].id = id THEN n ELSE q[k]]
<1>1. /\ q \in Lists(N) /\ Len(q) <= MaxNodes /\ s.selected \in IdsOf(q) \cup {None}
      /\ s.selected = None => q = <<>>
      /\ s = [selected |-> s.selected, nodes |-> q]
  BY StoreFacts
<1>2. /\ q \in Seq(N) /\ Distinct(q) /\ Len(q) \in Nat /\ (q = <<>> <=> Len(q) = 0)
      /\ \A k \in DOMAIN q : q[k] \in N /\ q[k].id \in IdsOf(q)
  BY <1>1, ListFacts
<1>3. \A k \in DOMAIN q : g[k] \in N /\ g[k].id = q[k].id
  BY <1>2
<1>4. g \in [DOMAIN q -> N]
  BY <1>3
<1>5. g \in Lists(N) /\ Len(g) = Len(q) /\ IdsOf(g) = IdsOf(q)
  BY <1>2, <1>3, <1>4, Mapped
<1>6. Changed(s, id, n) = [selected |-> s.selected, nodes |-> g]
  BY <1>1 DEF Changed
<1> HIDE DEF g
<1>7. g = <<>> <=> Len(g) = 0
  BY <1>5, ListFacts
<1>8. Changed(s, id, n) \in Stores(N)
  BY <1>1, <1>2, <1>5, <1>6, <1>7, StoreMade
<1>9. QED
  BY <1>5, <1>6, <1>8

LEMMA EditSound ==
  ASSUME NEW h \in BOOLEAN, NEW s \in Stores(Kind(h)), NEW op, OpOk(op, h), CanEdit(op, s)
  PROVE  /\ Edited(op, s) \in Stores(Kind(h))
         /\ op.what \notin {"import", "country", "refresh"} =>
              IdsOf(Edited(op, s).nodes) = IdsOf(s.nodes)
         /\ op.what \in {"mark", "test", "perf", "testall"} => Edited(op, s).selected = s.selected
         /\ op.what = "select" => Edited(op, s).selected = op.id
<1> DEFINE N == Kind(h)
<1>0. N \in Kinds /\ Lists(Honest) \subseteq Lists(N)
  BY KindOk
<1>1. /\ s.nodes \in Lists(N) /\ Len(s.nodes) <= MaxNodes
      /\ s = [selected |-> s.selected, nodes |-> s.nodes]
  BY <1>0, StoreFacts
<1>2. \A id \in IdsOf(s.nodes) : NodeOf(s.nodes, id) \in N /\ NodeOf(s.nodes, id).id = id
  BY <1>0, <1>1, ListFacts
<1>3. CASE op.what = "select"
  <2>1. op.id \in IdsOf(s.nodes) /\ op.id # None
    BY <1>0, <1>1, <1>3, ListFacts, PoolAssumption DEF CanEdit
  <2>2. Edited(op, s) = [selected |-> op.id, nodes |-> s.nodes]
    BY <1>1, <1>3 DEF Edited
  <2>3. QED
    BY <1>0, <1>1, <1>3, <2>1, <2>2, StoreMade
<1>4. CASE op.what = "mark"
  <2> DEFINE n == NodeOf(s.nodes, op.id)
             m == [n EXCEPT !.marked = ~@]
  <2>1. ASSUME op.id \in IdsOf(s.nodes) PROVE m \in N /\ m.id = op.id
    <3>1. PICK o \in N : o = n /\ o.id = op.id
      BY <1>2, <2>1
    <3>2. PICK b \in BOOLEAN : b = ~o.marked
      OBVIOUS
    <3>3. m = [o EXCEPT !.marked = b]
      BY <3>1, <3>2
    <3>4. QED
      BY <1>0, <3>1, <3>3, KindFacts
  <2>2. Edited(op, s) = Changed(s, op.id, m)
    BY <1>4 DEF Edited, Mark
  <2> HIDE DEF m
  <2>3. QED
    BY <1>0, <1>4, <2>1, <2>2, ChangedSound
<1>5. CASE op.what \in {"test", "perf"}
  <2> DEFINE n == NodeOf(s.nodes, op.id)
             m == IF op.what = "test" THEN [n EXCEPT !.test = op.with]
                                      ELSE [n EXCEPT !.perf = op.with]
  <2>1. op.with \in Ids \cup {None} /\ (h => op.with \in {None, op.id})
    BY <1>5 DEF OpOk
  <2>2. ASSUME op.id \in IdsOf(s.nodes) PROVE m \in N /\ m.id = op.id
    <3>1. PICK o \in N : o = n /\ o.id = op.id
      BY <1>2, <2>2
    <3>2. QED
      BY <2>1, <3>1, KindOk
  <2>3. Edited(op, s) = Changed(s, op.id, m)
    BY <1>5 DEF Edited, RecordTest, RecordPerf
  <2> HIDE DEF m
  <2>4. QED
    BY <1>0, <1>5, <2>2, <2>3, ChangedSound
<1>6. CASE op.what \in {"import", "country", "refresh"}
  <2>1. op.with \in Lists(N)
    BY <1>0, <1>6 DEF OpOk
  <2>2. /\ Import(s, op.with) \in Stores(N) /\ RefreshCountry(s, op.with) \in Stores(N)
        /\ RefreshWindows(s, op.ok, op.with) \in Stores(N) /\ RefreshLinux(s, op.with) \in Stores(N)
    BY <1>0, <2>1, ImportSound, CountrySound, RefreshSound
  <2>3. QED
    BY <1>6, <2>2 DEF Edited
<1>7. CASE op.what = "testall"
  BY <1>7 DEF Edited, TestAll
<1>8. QED
  BY <1>3, <1>4, <1>5, <1>6, <1>7 DEF OpOk

-----------------------------------------------------------------------------
(* The invariant *)

JobKinds == {"none", "edit", "connect", "test", "bench", "auto", "batch"}
Steps == {"idle", "end", "connect", "rank", "country", "next", "test", "measure", "perf",
          "stop", "finish", "restore", "saving"}
Jobs == [kind : JobKinds, pc : Steps, next : Steps \ {"saving"}, todo : SUBSET Ids,
         node : Ids \cup {None}, was : BOOLEAN, original : Ids \cup {None},
         through : Ids \cup {None}]

HandFields == {"pc", "op", "copy", "stale", "renamed"}
HandSteps == {"free", "read", "open", "filled"}

\* While nothing sways, the record names what runs.
Shape ==
    /\ platform \in {"windows", "linux"}
    /\ running \in Ids \cup {None} /\ owner \in Ids \cup {None}
    /\ ~swayed => owner = running
    /\ job \in Jobs
    /\ job.kind \in {"none", "edit"} => job.pc \in {"idle", "end", "saving"} /\ job.next = "end"
    /\ swayed \in BOOLEAN
    /\ DOMAIN hand = Threads
    /\ \A t \in Threads : /\ DOMAIN hand[t] = HandFields /\ hand[t].pc \in HandSteps
                          /\ hand[t].renamed \in BOOLEAN
                          /\ hand[t].renamed => hand[t].pc = "open"

\* Every copy of nodes.json there is.
Sound ==
    /\ store \in Stores(Kind(~swayed))
    /\ tmp # NoText => tmp \in Stores(Kind(~swayed))
    /\ \A t \in Threads : hand[t].pc \in {"read", "open"} =>
          hand[t].copy \in Stores(Kind(~swayed)) /\ OpOk(hand[t].op, ~swayed)
    /\ \A t \in Threads : hand[t].pc = "open" => CanEdit(hand[t].op, hand[t].copy)

\* Windows has no threads; on Linux a job that saves is a worker that edits,
\* and nobody else does unless that is noted.
Alone ==
    /\ Windows => tmp = NoText /\ \A t \in Threads : ~Busy(t)
    /\ job.pc = "saving" <=> Busy("worker")
    /\ ~swayed => ~(Busy("worker") /\ Busy("window")) /\ ~(Choosing /\ Busy("window"))
    /\ ~swayed => \A t \in Threads : ~hand[t].renamed

\* The node a Windows job works on is selected, and while every process is
\* recorded nothing else runs.
WindowsCourse ==
    Windows =>
      /\ job.todo \subseteq Pool
      /\ job.pc = "country" => job.todo = {}
      /\ job.pc \in {"connect", "test", "measure", "perf"} =>
           /\ job.node = store.selected
           /\ ~swayed => running \in {None, job.node}
      /\ job.pc \in {"test", "perf"} /\ ~swayed => job.through \in {None, job.node}

\* So it is with the node of a Linux batch, unless a click comes between.
LinuxCourse ==
    Linux =>
      /\ job.pc # "test" /\ job.next \in {"end", "rank", "connect", "next", "stop", "finish"}
      /\ job.pc \in {"measure", "perf"} => job.kind \in {"bench", "batch"}
      /\ job.kind = "batch" /\ ~swayed =>
           /\ job.pc = "connect" => store.selected = job.node
           /\ job.pc = "measure" => running \in {None, job.node}
           /\ job.pc = "perf" => job.through \in {None, job.node}
           /\ job.pc = "saving" /\ job.next = "connect" =>
                /\ hand["worker"].pc \in {"read", "open"} =>
                     hand["worker"].op.what = "select" /\ hand["worker"].op.id = job.node
                /\ hand["worker"].pc = "filled" /\ tmp # NoText => tmp.selected = job.node

\* A step keeps the record as true as it was.
Provided ==
    /\ running' \in Ids \cup {None} /\ owner' \in Ids \cup {None}
    /\ owner = running => owner' = running'

IInv == Shape /\ Sound /\ Alone /\ WindowsCourse /\ LinuxCourse

-----------------------------------------------------------------------------
(* Where the steps of the jobs come from *)

LEMMA IdleFacts ==
  /\ Idle \in Jobs /\ Idle.kind = "none" /\ Idle.pc = "idle" /\ Idle.next = "end"
  /\ Idle.todo = {} /\ Idle.node = None /\ Idle.through = None
  BY DEF Idle, Jobs, JobKinds, Steps

LEMMA ProviderFacts ==
  ASSUME Shape
  PROVE  /\ Stops => Provided /\ (Windows => running' = None)
         /\ UNCHANGED provider => Provided
         /\ MayStop => Provided
         /\ ProviderExits => Provided
         /\ \A id \in Ids : StopOther(id) => Provided
  BY DEF Shape, Provided, Stops, MayStop, ProviderExits, StopOther, provider

LEMMA StartFacts ==
  ASSUME store.selected \in Ids \cup {None}, NEW kind \in JobKinds, NEW pc \in Steps
  PROVE  /\ Start(kind, pc) \in Jobs /\ Start(kind, pc).kind = kind /\ Start(kind, pc).pc = pc
         /\ Start(kind, pc).next = "end" /\ Start(kind, pc).todo = {}
         /\ Start(kind, pc).through = None
<1>1. PICK w \in BOOLEAN, o \in Ids \cup {None} :
         Start(kind, pc) = [Idle EXCEPT !.kind = kind, !.pc = pc, !.was = w, !.original = o]
  <2>1. PICK w \in BOOLEAN : w = (kind \in {"connect", "test", "bench"} /\ owner # None)
    OBVIOUS
  <2>2. PICK o \in Ids \cup {None} : o = IF Linux /\ kind = "batch" THEN store.selected ELSE None
    OBVIOUS
  <2>3. QED
    BY <2>1, <2>2 DEF Start
<1>2. QED
  BY <1>1, IdleFacts DEF Jobs

LEMMA RaisedFacts ==
  ASSUME NEW j \in Jobs
  PROVE  /\ Raised(j) \in Jobs /\ Raised(j).pc \in {"finish", "end"} /\ Raised(j).kind = j.kind
         /\ Raised(j).next = j.next /\ Raised(j).todo = {}
         /\ j.kind \in {"none", "edit"} => Raised(j).pc = "end"
<1>1. PICK x \in {"finish", "end"} :
         /\ Raised(j) = [j EXCEPT !.pc = x, !.todo = {}, !.node = None, !.through = None]
         /\ j.kind \in {"none", "edit"} => x = "end"
  BY DEF Raised
<1>2. QED
  BY <1>1 DEF Jobs, Steps

LEMMA FeedFacts ==
  ASSUME NEW feed \in Feeds
  PROVE  Imported(feed) \in Lists(Honest) /\ Listed(feed) \in Lists(Honest)
         /\ Shard(feed) \in Lists(Honest)
<1>1. PICK m \in 1..MaxNodes : feed \in {q \in [1..m -> Ids \ Outdated] :
                                             \A i, j \in 1..m : i # j => q[i] # q[j]}
  BY DEF Feeds, Seqs
<1>2. /\ m \in Nat /\ DOMAIN feed = 1..m /\ \A k \in 1..m : feed[k] \in Ids
      /\ \A i, j \in 1..m : feed[i] = feed[j] => i = j
  BY <1>1, PoolAssumption
<1>3. ASSUME NEW g \in [1..m -> Honest], \A k \in 1..m : g[k].id = feed[k]
      PROVE  g \in Lists(Honest)
  <2>1. g \in Seq(Honest) /\ DOMAIN g = 1..m
    BY <1>2
  <2>2. Distinct(g)
    BY <1>2, <1>3, <2>1 DEF Distinct
  <2>3. QED
    BY <2>1, <2>2 DEF Lists
<1>4. \A k \in 1..m : ServedBy[feed[k]] \in Sources
  BY <1>2 DEF Sources
<1>5. /\ Imported(feed) \in [1..m -> Honest] /\ \A k \in 1..m : Imported(feed)[k].id = feed[k]
      /\ Listed(feed) \in [1..m -> Honest] /\ \A k \in 1..m : Listed(feed)[k].id = feed[k]
      /\ Shard(feed) \in [1..m -> Honest] /\ \A k \in 1..m : Shard(feed)[k].id = feed[k]
  BY <1>2, <1>4, NodeFacts DEF Imported, Listed, Shard
<1>6. QED
  BY <1>3, <1>5

LEMMA SoundStore ==
  ASSUME Shape, Sound
  PROVE  /\ store.nodes \in Lists(Kind(~swayed)) /\ Pool \subseteq Ids
         /\ store.selected \in Pool \cup {None} /\ store.selected \in Ids \cup {None}
         /\ Kind(~swayed) \in Kinds /\ store \in Stores(Kind(~swayed))
<1>1. Kind(~swayed) \in Kinds
  BY DEF Kind, Kinds
<1>2. QED
  BY <1>1, StoreFacts, ListFacts DEF Sound, Pool

LEMMA TakeFacts ==
  ASSUME Shape, NEW t \in Threads, NEW op, Take(t, op)
  PROVE  /\ UNCHANGED <<store, tmp>> /\ swayed' \in BOOLEAN /\ (swayed => swayed')
         /\ DOMAIN hand' = Threads
         /\ hand'[t].pc = "read" /\ hand'[t].op = op /\ hand'[t].copy = store
         /\ \A u \in Threads : /\ DOMAIN hand'[u] = HandFields
                               /\ u # t => /\ hand'[u].pc = hand[u].pc
                                           /\ hand'[u].op = hand[u].op
                                           /\ hand'[u].copy = hand[u].copy
                                           /\ hand'[u].renamed = hand[u].renamed
         /\ hand'[t].renamed = FALSE
         /\ ~swayed' => /\ \A u \in Threads \ {t} : ~Busy(u)
                        /\ ~(t = "window" /\ Choosing)
                        /\ op.what = "perf" /\ job.kind = "bench" => op.with \in {None, op.id}
  BY DEF Take, Shape, FreeHand, HandFields

\* What the other thread is in the middle of is noted with both.
LEMMA StaleFacts ==
  ASSUME Shape, NEW t \in Threads, NEW op, Take(t, op)
  PROVE  /\ hand'[t].stale = (\E u \in Threads \ {t} : Busy(u))
         /\ \A u \in Threads \ {t} : Busy(u)' = Busy(u) /\ hand'[u].stale = Busy(u)
<1>1. PICK x \in BOOLEAN : x = (\E u \in Threads \ {t} : Busy(u))
  OBVIOUS
<1>2. /\ hand'[t] = [FreeHand EXCEPT !.pc = "read", !.op = op, !.copy = store, !.stale = x]
      /\ \A u \in Threads \ {t} : hand'[u] = [hand[u] EXCEPT !.stale = Busy(u)]
  BY <1>1 DEF Take
<1>3. hand'[t].stale = x
  BY <1>2 DEF FreeHand
<1>4. \A u \in Threads \ {t} : hand'[u].pc = hand[u].pc /\ hand'[u].stale = Busy(u)
  <2> SUFFICES ASSUME NEW u \in Threads \ {t}
               PROVE  hand'[u].pc = hand[u].pc /\ hand'[u].stale = Busy(u)
    OBVIOUS
  <2>1. PICK b : b = Busy(u)
    OBVIOUS
  <2>2. hand'[u] = [hand[u] EXCEPT !.stale = b] /\ DOMAIN hand[u] = HandFields
    BY <1>2, <2>1 DEF Shape
  <2>3. hand'[u].pc = hand[u].pc /\ hand'[u].stale = b
    BY <2>2 DEF HandFields
  <2>4. QED
    BY <2>1, <2>3
<1>5. QED
  BY <1>1, <1>3, <1>4 DEF Busy

\* A thread takes a copy: the rest of the invariant but for what the job is.
LEMMA TakeSound ==
  ASSUME Shape, Sound, NEW t \in Threads, NEW op, Take(t, op), OpOk(op, ~swayed')
  PROVE  /\ Sound'
         /\ \A u \in Threads : /\ hand'[u].pc \in HandSteps /\ hand'[u].renamed \in BOOLEAN
                               /\ hand'[u].renamed => hand'[u].pc = "open"
<1>1. /\ UNCHANGED <<store, tmp>> /\ swayed' \in BOOLEAN /\ swayed \in BOOLEAN /\ (swayed => swayed')
      /\ hand'[t].pc = "read" /\ hand'[t].op = op /\ hand'[t].copy = store
      /\ \A u \in Threads : u # t => /\ hand'[u].pc = hand[u].pc
                                     /\ hand'[u].op = hand[u].op
                                     /\ hand'[u].copy = hand[u].copy
                                     /\ hand'[u].renamed = hand[u].renamed
      /\ hand'[t].renamed = FALSE
  BY TakeFacts DEF Shape
<1>2. PICK h \in BOOLEAN, g \in BOOLEAN : h = ~swayed /\ g = ~swayed' /\ (g => h)
  BY <1>1
<1>3. /\ Stores(Kind(h)) \subseteq Stores(Kind(g))
      /\ \A o : OpOk(o, h) => OpOk(o, g)
  BY <1>2, KindGrows
<1>4. /\ store \in Stores(Kind(h)) /\ (tmp # NoText => tmp \in Stores(Kind(h)))
      /\ \A u \in Threads : hand[u].pc \in {"read", "open"} =>
            hand[u].copy \in Stores(Kind(h)) /\ OpOk(hand[u].op, h)
      /\ \A u \in Threads : hand[u].pc = "open" => CanEdit(hand[u].op, hand[u].copy)
  BY <1>2 DEF Sound
<1>5. OpOk(op, g)
  BY <1>2
<1>6. /\ store' \in Stores(Kind(g)) /\ (tmp' # NoText => tmp' \in Stores(Kind(g)))
      /\ \A u \in Threads : hand'[u].pc \in {"read", "open"} =>
            hand'[u].copy \in Stores(Kind(g)) /\ OpOk(hand'[u].op, g)
      /\ \A u \in Threads : hand'[u].pc = "open" => CanEdit(hand'[u].op, hand'[u].copy)
  BY <1>1, <1>3, <1>4, <1>5
<1>7. Sound'
  BY <1>2, <1>6 DEF Sound
<1>8. QED
  BY <1>1, <1>7 DEF Shape, HandSteps

\* A job that saves: on Windows the edit is done, on Linux the worker begins it.
LEMMA SaveStep ==
  ASSUME IInv, NEW op, NEW j \in Jobs, Save(op, j), UNCHANGED platform,
         Provided, job.pc # "saving", j.pc # "saving",
         j.kind \in {"none", "edit"} => j.pc = "end" /\ j.next = "end",
         OpOk(op, ~swayed'), Windows => CanEdit(op, store)
  PROVE  /\ Shape' /\ Sound' /\ Alone'
         /\ Windows => job' = j /\ store' = Edited(op, store) /\ swayed' = swayed
         /\ Linux => /\ job' = [j EXCEPT !.pc = "saving", !.next = j.pc]
                     /\ hand'["worker"].pc = "read" /\ hand'["worker"].op = op
                     /\ UNCHANGED store /\ (swayed => swayed')
<1>0. /\ Shape /\ Sound /\ Alone /\ (Linux <=> ~Windows) /\ "worker" \in Threads /\ "window" \in Threads
  BY DEF IInv, Shape, Windows, Linux, Threads
<1>1. CASE Windows
  <2>1. /\ store' = Edited(op, store) /\ job' = j /\ UNCHANGED <<tmp, hand, swayed>>
        /\ tmp = NoText /\ \A t \in Threads : ~Busy(t)
    BY <1>0, <1>1 DEF Save, Alone
  <2>2. PICK h \in BOOLEAN : h = ~swayed
    OBVIOUS
  <2>3. OpOk(op, h) /\ store \in Stores(Kind(h))
    BY <1>0, <2>1, <2>2 DEF Sound
  <2>4. store' \in Stores(Kind(h))
    BY <1>1, <2>1, <2>3, EditSound
  <2>4a. Sound'
    BY <2>1, <2>2, <2>4 DEF Sound, Busy
  <2>5. Shape'
    BY <1>0, <2>1 DEF Shape, Provided
  <2>6. Alone'
    BY <1>0, <2>1 DEF Alone, Busy, Windows
  <2>7. QED
    BY <1>0, <1>1, <2>1, <2>4a, <2>5, <2>6
<1>2. CASE Linux
  <2>1. Take("worker", op) /\ job' = [j EXCEPT !.pc = "saving", !.next = j.pc]
    BY <1>0, <1>2 DEF Save
  <2>2. /\ UNCHANGED <<store, tmp>> /\ swayed' \in BOOLEAN /\ (swayed => swayed')
        /\ DOMAIN hand' = Threads
        /\ hand'["worker"].pc = "read" /\ hand'["worker"].op = op
        /\ hand'["worker"].renamed = FALSE
        /\ \A u \in Threads : /\ DOMAIN hand'[u] = HandFields
                              /\ u # "worker" => /\ hand'[u].pc = hand[u].pc
                                                 /\ hand'[u].renamed = hand[u].renamed
        /\ ~swayed' => \A u \in Threads \ {"worker"} : ~Busy(u)
    BY <1>0, <2>1, TakeFacts
  <2>3. /\ Sound'
        /\ \A u \in Threads : /\ hand'[u].pc \in HandSteps /\ hand'[u].renamed \in BOOLEAN
                              /\ hand'[u].renamed => hand'[u].pc = "open"
    BY <1>0, <2>1, TakeSound
  <2>4. /\ job' \in Jobs /\ job'.pc = "saving" /\ job'.next = j.pc /\ job'.kind = j.kind
    BY <2>1 DEF Jobs, Steps
  <2>5. Shape'
    BY <1>0, <2>2, <2>3, <2>4 DEF Shape, Provided
  <2>6. Alone'
    <3>1. Busy("worker")' /\ (Busy("window")' <=> Busy("window"))
      BY <1>0, <2>2 DEF Busy
    <3>2. ~Windows' /\ job'.pc = "saving"
      BY <1>0, <1>2, <2>4 DEF Windows
    <3>3. ~swayed' => ~Busy("window")
      BY <1>0, <2>2
    <3>4. ~swayed' => \A u \in Threads : ~hand'[u].renamed
      BY <1>0, <2>2 DEF Alone, Shape
    <3>5. QED
      BY <3>1, <3>2, <3>3, <3>4 DEF Alone
  <2>7. QED
    BY <1>0, <1>2, <2>1, <2>2, <2>3, <2>5, <2>6
<1>3. QED
  BY <1>0, <1>1, <1>2

\* A job that goes on without touching a file.
LEMMA QuietStep ==
  ASSUME IInv, UNCHANGED <<platform, Files>>, Provided, job' \in Jobs,
         job.pc # "saving", job'.pc # "saving",
         job'.kind \in {"none", "edit"} => job'.pc \in {"idle", "end"} /\ job'.next = "end",
         Linux /\ Choosing' => Choosing
  PROVE  Shape' /\ Sound' /\ Alone'
<1>0. UNCHANGED <<store, tmp, hand, swayed>>
  BY DEF Files
<1>1. Shape'
  BY <1>0 DEF IInv, Shape, Provided
<1>2. Sound'
  BY <1>0 DEF IInv, Sound
<1>3. Alone'
  <2>1. \A t \in Threads : Busy(t)' <=> Busy(t)
    BY <1>0 DEF Busy
  <2>2. (Windows' <=> Windows) /\ (Linux <=> ~Windows) /\ "worker" \in Threads /\ "window" \in Threads
    BY DEF Windows, Linux, IInv, Shape, Threads
  <2>3. Alone
    BY DEF IInv
  <2>4. QED
    BY <1>0, <2>1, <2>2, <2>3 DEF Alone
<1>4. QED
  BY <1>1, <1>2, <1>3

LEMMA Platforms ==
  ASSUME Shape
  PROVE  /\ Linux <=> ~Windows
         /\ platform' = platform => (Windows' <=> Windows) /\ (Linux' <=> Linux)
  BY DEF Shape, Windows, Linux

LEMMA OpFacts ==
  ASSUME NEW what, NEW id, NEW with
  PROVE  /\ Op(what, id, with).what = what /\ Op(what, id, with).id = id
         /\ Op(what, id, with).with = with
  BY DEF Op

LEMMA WindowsEdit ==
  ASSUME IInv, Windows, NEW op, OpOk(op, ~swayed), CanEdit(op, store), store' = Edited(op, store)
  PROVE  /\ op.what \notin {"import", "country", "refresh"} => Pool' = Pool
         /\ op.what \in {"mark", "test", "perf", "testall"} => store'.selected = store.selected
         /\ op.what = "select" => store'.selected = op.id
<1>1. PICK h \in BOOLEAN : h = ~swayed
  OBVIOUS
<1>2. OpOk(op, h) /\ store \in Stores(Kind(h))
  BY <1>1 DEF IInv, Sound
<1>3. QED
  BY <1>2, EditSound DEF Pool

-----------------------------------------------------------------------------
(* IInv is inductive: the jobs begin *)

LEMMA InitInv == Init => IInv
<1> SUFFICES ASSUME Init PROVE IInv
  OBVIOUS
<1>1. PICK nodes \in {<<>>} \cup Seqs(Ids), source \in {"own", "public"} :
         store = Reselected([selected |-> None], [k \in DOMAIN nodes |->
                      Node(nodes[k], IF source = "own" THEN "own" ELSE ServedBy[nodes[k]])])
  BY DEF Init
<1> DEFINE q == [k \in DOMAIN nodes |->
                   Node(nodes[k], IF source = "own" THEN "own" ELSE ServedBy[nodes[k]])]
<1>2. PICK m \in Nat : /\ m <= MaxNodes /\ DOMAIN nodes = 1..m /\ \A k \in 1..m : nodes[k] \in Ids
                       /\ \A i, j \in 1..m : nodes[i] = nodes[j] => i = j
  <2>1. CASE nodes = <<>>
    <3>1. DOMAIN nodes = 1..0
      BY <2>1
    <3>2. QED
      BY <3>1, PoolAssumption
  <2>2. CASE nodes \in Seqs(Ids)
    <3>1. PICK m \in 1..MaxNodes : nodes \in {f \in [1..m -> Ids] :
                                                \A i, j \in 1..m : i # j => f[i] # f[j]}
      BY <2>2 DEF Seqs
    <3>2. m \in Nat /\ m <= MaxNodes
      BY PoolAssumption
    <3>3. QED
      BY <3>1, <3>2
  <2>3. QED
    BY <2>1, <2>2
<1>3. \A k \in 1..m : q[k] \in Honest /\ q[k].id = nodes[k]
  <2>1. \A k \in 1..m : ServedBy[nodes[k]] \in Sources
    BY <1>2 DEF Sources
  <2>2. QED
    BY <1>2, <2>1, NodeFacts
<1>4. q \in Seq(Honest) /\ Len(q) = m /\ DOMAIN q = 1..m
  BY <1>2, <1>3
<1>5. Distinct(q)
  BY <1>2, <1>3, <1>4 DEF Distinct
<1>6. q \in Lists(Honest) /\ Len(q) <= MaxNodes
  BY <1>2, <1>4, <1>5 DEF Lists
<1>7. store \in Stores(Honest)
  BY <1>1, <1>6, ReselectedSound DEF Kinds
<1>8. swayed = FALSE /\ job = Idle /\ tmp = NoText /\ running = None /\ owner = None
      /\ platform \in {"windows", "linux"} /\ hand = [t \in Threads |-> FreeHand]
  BY DEF Init
<1>9. Shape /\ Sound /\ Alone
  <2>1. /\ DOMAIN hand = Threads
        /\ \A t \in Threads : /\ DOMAIN hand[t] = HandFields /\ hand[t].pc = "free"
                              /\ hand[t].renamed = FALSE
    BY <1>8 DEF FreeHand, HandFields
  <2>2. Kind(~swayed) = Honest
    BY <1>8 DEF Kind
  <2>3. Shape
    BY <1>8, <2>1, IdleFacts DEF Shape, HandSteps
  <2>4. Sound
    BY <1>7, <1>8, <2>1, <2>2 DEF Sound
  <2>5. Alone
    BY <1>8, <2>1, IdleFacts DEF Alone, Busy, Threads
  <2>6. QED
    BY <2>3, <2>4, <2>5
<1>10. WindowsCourse /\ LinuxCourse
  BY <1>8, IdleFacts DEF WindowsCourse, LinuxCourse
<1>11. QED
  BY <1>9, <1>10 DEF IInv

\* The edits of the user, as jobs.
LEMMA EditJobStep == ASSUME IInv, EditJob \/ SelectOrMark PROVE IInv'
<1>0. Shape /\ Sound /\ job = Idle /\ UNCHANGED <<platform, provider>>
  BY DEF IInv, EditJob, SelectOrMark, MayStart
<1>1. PICK op, j : j = Start("edit", "end") /\ Save(op, j) /\ (\A h \in BOOLEAN : OpOk(op, h))
                   /\ (Windows => CanEdit(op, store))
  <2>1. CASE EditJob
    <3>1. PICK feed \in Feeds :
            \/ Save(Op("import", None, Imported(feed)), Start("edit", "end"))
            \/ \E ok \in IF Windows THEN SUBSET Sources ELSE {Sources} :
                  Save([Op("refresh", None, Listed(feed)) EXCEPT !.ok = ok], Start("edit", "end"))
            \/ Save(Op("testall", None, <<>>), Start("edit", "end"))
      BY <2>1 DEF EditJob
    <3>2. Imported(feed) \in Lists(Honest) /\ Listed(feed) \in Lists(Honest)
      BY FeedFacts
    <3>3. CASE Save(Op("import", None, Imported(feed)), Start("edit", "end"))
      BY <3>2, <3>3, OpFacts DEF OpOk, CanEdit
    <3>4. ASSUME NEW ok, Save([Op("refresh", None, Listed(feed)) EXCEPT !.ok = ok], Start("edit", "end"))
          PROVE  \E op, j : j = Start("edit", "end") /\ Save(op, j)
                            /\ (\A h \in BOOLEAN : OpOk(op, h))
                            /\ (Windows => CanEdit(op, store))
      <4> DEFINE op == [Op("refresh", None, Listed(feed)) EXCEPT !.ok = ok]
      <4>1. op.what = "refresh" /\ op.with = Listed(feed)
        BY DEF Op
      <4> HIDE DEF op
      <4>2. (\A h \in BOOLEAN : OpOk(op, h)) /\ CanEdit(op, store)
        BY <3>2, <4>1 DEF OpOk, CanEdit
      <4>3. Save(op, Start("edit", "end"))
        BY <3>4 DEF op
      <4>4. QED
        BY <4>2, <4>3
    <3>5. CASE Save(Op("testall", None, <<>>), Start("edit", "end"))
      BY <3>5, OpFacts DEF OpOk, CanEdit
    <3>6. QED
      BY <3>1, <3>3, <3>4, <3>5
  <2>2. CASE SelectOrMark
    <3>1. PICK id \in Pool, what \in {"select", "mark"} : Save(Op(what, id, <<>>), Start("edit", "end"))
      BY <2>2 DEF SelectOrMark
    <3>2. (\A h \in BOOLEAN : OpOk(Op(what, id, <<>>), h)) /\ CanEdit(Op(what, id, <<>>), store)
      BY OpFacts DEF OpOk, CanEdit, Pool
    <3>3. QED
      BY <3>1, <3>2
  <2>3. QED
    BY <2>1, <2>2
<1>2. /\ j \in Jobs /\ j.kind = "edit" /\ j.pc = "end" /\ j.next = "end" /\ j.todo = {}
  BY <1>0, <1>1, SoundStore, StartFacts DEF JobKinds, Steps
<1>3. Provided /\ job.pc # "saving"
  BY <1>0, IdleFacts, ProviderFacts
<1>4. OpOk(op, ~swayed')
  <2>1. swayed' \in BOOLEAN
    BY <1>0, <1>1, TakeFacts, Platforms DEF Save, Shape, Threads
  <2>2. QED
    BY <1>1, <2>1
<1>5. /\ Shape' /\ Sound' /\ Alone'
      /\ Windows => job' = j
      /\ Linux => job' = [j EXCEPT !.pc = "saving", !.next = j.pc]
  BY <1>0, <1>1, <1>2, <1>3, <1>4, SaveStep
<1>6. WindowsCourse' /\ LinuxCourse'
  <2>1. Linux => job'.pc = "saving" /\ job'.next = "end" /\ job'.kind = "edit"
    BY <1>2, <1>5 DEF Jobs
  <2>2. QED
    BY <1>0, <1>2, <1>5, <2>1, Platforms DEF WindowsCourse, LinuxCourse
<1>7. QED
  BY <1>5, <1>6 DEF IInv

\* The jobs that use the provider.
LEMMA BeginStep == ASSUME IInv, UseSelected \/ Preflight \/ LinuxSelected \/ UsePool PROVE IInv'
<1>0. /\ Shape /\ Sound /\ job = Idle /\ UNCHANGED <<platform, Files, provider>>
      /\ store' = store /\ Pool' = Pool
  BY DEF IInv, UseSelected, Preflight, LinuxSelected, UsePool, MayStart, Files, Pool
<1>1. store.selected \in Ids \cup {None}
  BY <1>0, SoundStore
<1>2. /\ job' \in Jobs /\ job'.kind \in {"connect", "test", "bench", "auto", "batch"}
      /\ job'.pc \in {"connect", "measure", "rank", "country"} /\ job'.next = "end"
      /\ job'.todo = {}
      /\ Windows => /\ job'.pc # "measure"
                    /\ job'.pc = "connect" =>
                         job'.node = store.selected /\ owner \in {None, job'.node}
      /\ Linux /\ job'.kind = "batch" => job'.pc = "rank"
      /\ Linux /\ job'.pc = "measure" => job'.kind = "bench"
  <2>1. \A kind \in JobKinds, pc \in Steps :
           /\ Start(kind, pc) \in Jobs /\ Start(kind, pc).kind = kind /\ Start(kind, pc).pc = pc
           /\ Start(kind, pc).next = "end" /\ Start(kind, pc).todo = {}
    BY <1>1, StartFacts
  <2>2. CASE UseSelected
    <3>1. PICK kind \in {"connect", "test"} :
             job' = [Start(kind, "connect") EXCEPT !.node = store.selected]
      BY <2>2 DEF UseSelected
    <3>2. Windows /\ owner \in {None, store.selected}
      BY <2>2 DEF UseSelected, MayUseSelected
    <3>3. PICK j \in Jobs : /\ j = Start(kind, "connect") /\ j.kind = kind /\ j.pc = "connect"
                            /\ j.next = "end" /\ j.todo = {}
      BY <2>1 DEF JobKinds, Steps
    <3>4. /\ job' \in Jobs /\ job'.kind = kind /\ job'.pc = "connect" /\ job'.next = "end"
          /\ job'.todo = {} /\ job'.node = store.selected
      BY <1>1, <3>1, <3>3 DEF Jobs
    <3>5. QED
      BY <1>0, <3>2, <3>4, Platforms
  <2>3. CASE Preflight
    <3>1. Windows
      BY <2>3 DEF Preflight
    <3>2. CASE /\ owner \in {None, store.selected}
               /\ job' = [Start("test", "connect") EXCEPT !.node = store.selected]
      <4>1. PICK j \in Jobs : /\ j = Start("test", "connect") /\ j.kind = "test" /\ j.pc = "connect"
                              /\ j.next = "end" /\ j.todo = {}
        BY <2>1 DEF JobKinds, Steps
      <4>2. /\ job' \in Jobs /\ job'.kind = "test" /\ job'.pc = "connect" /\ job'.next = "end"
            /\ job'.todo = {} /\ job'.node = store.selected
        BY <1>1, <3>2, <4>1 DEF Jobs
      <4>3. QED
        BY <1>0, <3>1, <3>2, <4>2, Platforms
    <3>3. ASSUME NEW pc \in {"rank", "country"}, job' = [Start("bench", pc) EXCEPT !.was = FALSE]
          PROVE  /\ job' \in Jobs /\ job'.kind = "bench" /\ job'.pc = pc /\ job'.next = "end"
                 /\ job'.todo = {}
      <4>1. PICK j \in Jobs : /\ j = Start("bench", pc) /\ j.kind = "bench" /\ j.pc = pc
                              /\ j.next = "end" /\ j.todo = {}
        BY <2>1 DEF JobKinds, Steps
      <4>2. QED
        BY <3>3, <4>1 DEF Jobs
    <3>4. QED
      BY <1>0, <2>3, <3>1, <3>2, <3>3, Platforms DEF Preflight, MayUseSelected
  <2>4. CASE LinuxSelected
    <3>1. Linux /\ \E kind \in {"connect", "bench"}, pc \in {"connect", "measure"} :
             job' = Start(kind, pc) /\ (pc = "measure" => kind = "bench")
      BY <2>4 DEF LinuxSelected
    <3>2. QED
      BY <1>0, <2>1, <3>1, Platforms DEF JobKinds, Steps
  <2>5. CASE UsePool
    <3>1. PICK kind \in {"auto", "batch", "bench"}, pc \in {"rank", "country"} :
             job' = Start(kind, pc) /\ (Linux => pc = "rank")
      BY <1>0, <2>5, Platforms DEF UsePool
    <3>2. QED
      BY <1>0, <2>1, <3>1, Platforms DEF JobKinds, Steps
  <2>6. QED
    BY <2>2, <2>3, <2>4, <2>5
<1>3. Linux => ~Choosing'
  BY <1>0, <1>2 DEF Choosing
<1>4. Shape' /\ Sound' /\ Alone'
  BY <1>0, <1>2, <1>3, IdleFacts, ProviderFacts, QuietStep
<1>4a. swayed' = swayed /\ UNCHANGED <<running, owner>> /\ (~swayed => owner = running)
  BY <1>0 DEF Files, provider, Shape
<1>5. WindowsCourse' /\ LinuxCourse'
  BY <1>0, <1>2, <1>4a, Platforms DEF WindowsCourse, LinuxCourse
<1>6. QED
  BY <1>4, <1>5 DEF IInv

-----------------------------------------------------------------------------
(* IInv is inductive: the jobs go on *)

LEMMA Sways ==
  ASSUME Shape, NEW op, NEW j, Save(op, j)
  PROVE  /\ swayed' \in BOOLEAN /\ (swayed => swayed') /\ (Windows => swayed' = swayed)
         /\ Linux /\ ~swayed' /\ op.what = "perf" /\ job.kind = "bench" => op.with \in {None, op.id}
<1>1. CASE Windows
  BY <1>1, Platforms DEF Save, Shape
<1>2. CASE Linux
  BY <1>2, Platforms, TakeFacts DEF Save, Threads
<1>3. QED
  BY <1>1, <1>2, Platforms

LEMMA CountryShardStep == ASSUME IInv, CountryShard PROVE IInv'
<1>0. /\ Shape /\ Sound /\ job \in Jobs /\ job.pc = "country" /\ UNCHANGED <<platform, provider>>
      /\ job.kind \notin {"none", "edit"} /\ Provided
      /\ (Windows => job.todo = {})
  BY ProviderFacts DEF IInv, CountryShard, Shape, WindowsCourse
<1> DEFINE j == [job EXCEPT !.pc = "rank"]
<1>1. /\ j \in Jobs /\ j.pc = "rank" /\ j.kind = job.kind
      /\ j.todo = job.todo /\ j.next = job.next
  BY <1>0 DEF Jobs, Steps
<1>a. Goto("rank") => job' = j
  BY DEF Goto
<1>b. \/ \E feed \in Feeds : Save(Op("country", None, Shard(feed)), j)
      \/ Goto("rank") /\ UNCHANGED Files
  BY DEF CountryShard
<1> HIDE DEF j
<1>2. CASE \E feed \in Feeds : Save(Op("country", None, Shard(feed)), j)
  <2>1. PICK feed \in Feeds : Save(Op("country", None, Shard(feed)), j)
    BY <1>2
  <2>2. PICK op : op = Op("country", None, Shard(feed))
    OBVIOUS
  <2>3. op.what = "country" /\ op.with \in Lists(Honest)
    BY <2>2, OpFacts, FeedFacts
  <2>4. OpOk(op, ~swayed') /\ CanEdit(op, store)
    BY <2>3 DEF OpOk, CanEdit
  <2>5. /\ Shape' /\ Sound' /\ Alone'
        /\ Windows => job' = j
        /\ Linux => job' = [j EXCEPT !.pc = "saving", !.next = j.pc]
    BY <1>0, <1>1, <2>1, <2>2, <2>4, SaveStep
  <2>6. Linux => job'.pc = "saving" /\ job'.next = "rank"
    BY <1>1, <2>5 DEF Jobs
  <2>7. WindowsCourse' /\ LinuxCourse'
    BY <1>0, <1>1, <2>5, <2>6, Platforms DEF WindowsCourse, LinuxCourse
  <2>8. QED
    BY <2>5, <2>7 DEF IInv
<1>3. CASE Goto("rank") /\ UNCHANGED Files
  <2>1. job' = j /\ ~Choosing'
    BY <1>1, <1>a, <1>3 DEF Choosing
  <2>2. Shape' /\ Sound' /\ Alone'
    BY <1>0, <1>1, <1>3, <2>1, QuietStep
  <2>3. WindowsCourse' /\ LinuxCourse'
    BY <1>0, <1>1, <1>3, <2>1, Platforms DEF WindowsCourse, LinuxCourse, IInv
  <2>4. QED
    BY <2>2, <2>3 DEF IInv
<1>4. QED
  BY <1>b, <1>2, <1>3

\* The candidates are nodes of the pool; a job that raises has none.
LEMMA RankStep == ASSUME IInv, Rank \/ StopRefused \/ NoneLeft \/ MeasureRaises PROVE IInv'
<1>0. /\ Shape /\ Sound /\ job \in Jobs /\ UNCHANGED <<platform, Files, provider>>
      /\ job.pc \in {"rank", "next", "measure"} /\ job.kind \notin {"none", "edit"}
      /\ Provided /\ store' = store /\ Pool' = Pool /\ Pool \subseteq Ids
      /\ WindowsCourse /\ LinuxCourse
  BY SoundStore, ProviderFacts
     DEF IInv, Rank, StopRefused, NoneLeft, MeasureRaises, Shape, Files, Pool
<1>1. /\ job' \in Jobs /\ job'.pc \in {"next", "finish", "end"} /\ job'.kind = job.kind
      /\ job'.next = job.next /\ job'.todo \subseteq Pool
  <2>1. CASE Rank
    <3>1. PICK todo \in SUBSET Pool : job' = [job EXCEPT !.pc = "next", !.todo = todo]
      BY <2>1 DEF Rank, Candidates
    <3>2. todo \in SUBSET Ids
      BY <1>0
    <3>3. QED
      BY <1>0, <3>1, <3>2 DEF Jobs, Steps
  <2>2. CASE job' = Raised(job)
    BY <1>0, <2>2, RaisedFacts
  <2>3. QED
    BY <2>1, <2>2 DEF StopRefused, NoneLeft, MeasureRaises
<1>2. ~Choosing'
  BY <1>1 DEF Choosing
<1>3. Shape' /\ Sound' /\ Alone'
  BY <1>0, <1>1, <1>2, QuietStep
<1>4. WindowsCourse' /\ LinuxCourse'
  BY <1>0, <1>1, Platforms DEF WindowsCourse, LinuxCourse
<1>5. QED
  BY <1>3, <1>4 DEF IInv

LEMMA TryNextStep == ASSUME IInv, TryNext PROVE IInv'
<1>0. /\ Shape /\ Sound /\ job \in Jobs /\ job.pc = "next" /\ UNCHANGED platform
      /\ job.kind \notin {"none", "edit"} /\ running \in Ids \cup {None}
      /\ WindowsCourse /\ LinuxCourse /\ job.todo \subseteq Ids
  BY DEF IInv, TryNext, Shape, Jobs
<1>1. PICK id \in job.todo :
         /\ StopOther(id)
         /\ Save(Op("select", id, <<>>),
                 [job EXCEPT !.pc = "connect", !.node = id, !.todo = @ \ {id}])
  BY DEF TryNext
<1> DEFINE j == [job EXCEPT !.pc = "connect", !.node = id, !.todo = @ \ {id}]
<1>2. /\ j \in Jobs /\ j.pc = "connect" /\ j.kind = job.kind /\ j.next = job.next
      /\ j.node = id /\ j.todo \subseteq job.todo
  <2>1. id \in Ids /\ job.todo \ {id} \in SUBSET Ids
    BY <1>0
  <2>2. QED
    BY <1>0, <2>1 DEF Jobs, Steps
<1>a. Save(Op("select", id, <<>>), j)
  BY <1>1
<1> HIDE DEF j
<1>3. PICK op : op = Op("select", id, <<>>) /\ op.what = "select" /\ op.id = id
  BY OpFacts
<1>4. /\ Provided
      /\ Windows /\ ~swayed => running' \in {None, id}
  <2>1. id \in Ids /\ (~swayed => owner = running)
    BY <1>0 DEF Shape
  <2>2. Windows /\ owner \notin {None, id} => running' = None
    BY <1>0, <1>1, ProviderFacts DEF StopOther
  <2>3. owner \in {None, id} => running' = running
    BY <1>1 DEF StopOther, provider
  <2>4. QED
    BY <1>0, <1>1, <2>1, <2>2, <2>3, ProviderFacts
<1>5. \A h : OpOk(op, h)
  BY <1>3 DEF OpOk
<1>6. Windows => CanEdit(op, store)
  BY <1>0, <1>3 DEF CanEdit, Pool, WindowsCourse
<1>7. /\ Shape' /\ Sound' /\ Alone'
      /\ Windows => job' = j /\ store' = Edited(op, store) /\ swayed' = swayed
      /\ Linux => /\ job' = [j EXCEPT !.pc = "saving", !.next = j.pc]
                  /\ hand'["worker"].pc = "read" /\ hand'["worker"].op = op
  BY <1>0, <1>a, <1>2, <1>3, <1>4, <1>5, <1>6, SaveStep
<1>8. WindowsCourse'
  <2> SUFFICES ASSUME Windows PROVE WindowsCourse'
    BY <1>0, Platforms DEF WindowsCourse
  <2>1. Pool' = Pool /\ store'.selected = id
    BY <1>3, <1>5, <1>6, <1>7, WindowsEdit
  <2>2. QED
    BY <1>0, <1>2, <1>4, <1>7, <2>1 DEF WindowsCourse
<1>9. LinuxCourse'
  <2>1. Linux => /\ job'.pc = "saving" /\ job'.next = "connect" /\ job'.node = id
    BY <1>2, <1>7 DEF Jobs
  <2>2. QED
    BY <1>0, <1>3, <1>7, <2>1, Platforms DEF LinuxCourse
<1>10. QED
  BY <1>7, <1>8, <1>9 DEF IInv

LEMMA ConnectedStep == ASSUME IInv, Connected PROVE IInv'
<1>0. /\ Shape /\ Sound /\ job \in Jobs /\ UNCHANGED <<platform, Files>> /\ job.pc = "connect"
      /\ job.kind \notin {"none", "edit"}
      /\ running \in Ids \cup {None} /\ (~swayed => owner = running)
      /\ store' = store /\ Pool' = Pool /\ swayed' = swayed
      /\ WindowsCourse /\ LinuxCourse
      /\ store.selected # None /\ store.selected \in Ids
  BY SoundStore DEF IInv, Connected, Shape, Files, Pool
<1>1. PICK id : /\ id = Reached /\ running' = id /\ owner' = IF Windows THEN id ELSE store.selected
                /\ job' = [job EXCEPT !.through = IF Windows THEN id ELSE None,
                                      !.pc = IF Windows THEN "test"
                                             ELSE IF job.kind \in {"bench", "batch"} THEN "measure"
                                             ELSE "end"]
  BY DEF Connected
<1>2. /\ id \in Ids
      /\ ~swayed /\ (Windows \/ owner = running) => id \in {running, store.selected}
      /\ ~Windows /\ owner = running => id = store.selected
      /\ Windows /\ running \in {None, store.selected} => id = store.selected
  BY <1>0, <1>1 DEF Reached
<1>3. PICK x \in {"test", "measure", "end"}, w \in Ids \cup {None} :
         /\ job' = [job EXCEPT !.through = w, !.pc = x]
         /\ Windows => x = "test" /\ w = id
         /\ ~Windows => x # "test" /\ (x = "measure" => job.kind \in {"bench", "batch"})
  BY <1>0, <1>1, <1>2
<1>4. /\ job' \in Jobs /\ job'.pc = x /\ job'.kind = job.kind /\ job'.next = job.next
      /\ job'.todo = job.todo /\ job'.node = job.node /\ job'.through = w
  BY <1>0, <1>3 DEF Jobs, Steps
<1>5. Choosing' => Choosing
  BY <1>0, <1>4 DEF Choosing
<1>5a. Provided
  BY <1>0, <1>1, <1>2 DEF Provided
<1>6. Shape' /\ Sound' /\ Alone'
  BY <1>0, <1>4, <1>5, <1>5a, QuietStep
<1>7. WindowsCourse'
  BY <1>0, <1>1, <1>2, <1>3, <1>4, Platforms DEF WindowsCourse
<1>8. LinuxCourse'
  BY <1>0, <1>1, <1>2, <1>3, <1>4, Platforms DEF LinuxCourse
<1>9. QED
  BY <1>6, <1>7, <1>8 DEF IInv

\* A second process recorded over the first is what sways.
LEMMA BesideStep == ASSUME IInv, Beside PROVE IInv'
<1>0. /\ Shape /\ Sound /\ Alone /\ Linux /\ LinuxCourse /\ ~Windows
      /\ UNCHANGED <<platform, store, tmp, hand, running, job>> /\ swayed' = TRUE
      /\ owner' \in Ids \cup {None} /\ swayed \in BOOLEAN
  BY SoundStore, Platforms DEF IInv, Beside, Shape
<1>1. PICK h \in BOOLEAN, g \in BOOLEAN : h = ~swayed /\ g = ~swayed' /\ g = FALSE
  BY <1>0
<1>2. /\ Stores(Kind(h)) \subseteq Stores(Kind(g))
      /\ \A o : OpOk(o, h) => OpOk(o, g)
  BY <1>1, KindGrows
<1>3. Shape'
  BY <1>0 DEF Shape
<1>4. Sound'
  BY <1>0, <1>1, <1>2 DEF Sound
<1>5. Alone'
  BY <1>0, Platforms DEF Alone, Busy
<1>6. WindowsCourse' /\ LinuxCourse'
  BY <1>0, Platforms DEF WindowsCourse, LinuxCourse
<1>7. QED
  BY <1>3, <1>4, <1>5, <1>6 DEF IInv

\* A job records what it measured, or that it could not.
LEMMA RecordStep ==
  ASSUME IInv, NEW op, NEW j \in Jobs, Save(op, j), UNCHANGED platform, Provided,
         job.pc \in {"connect", "test", "perf"}, job.kind \notin {"none", "edit"},
         op.what \in {"test", "perf"}, op.with \in Ids \cup {None},
         swayed' = FALSE => op.with \in {None, op.id},
         j.kind = job.kind, j.todo = job.todo, j.pc \in {"next", "end", "measure", "stop", "finish"},
         j.pc = "measure" => Windows /\ job.pc = "test" /\ j.node = job.node /\ running' = running
  PROVE  IInv'
<1>0. Shape /\ Sound /\ WindowsCourse /\ LinuxCourse
  BY DEF IInv
<1>1. swayed' \in BOOLEAN
  BY <1>0, Sways
<1>2. OpOk(op, ~swayed') /\ CanEdit(op, store)
  BY <1>1 DEF OpOk, CanEdit
<1>3. /\ Shape' /\ Sound' /\ Alone'
      /\ Windows => job' = j /\ store' = Edited(op, store) /\ swayed' = swayed
      /\ Linux => job' = [j EXCEPT !.pc = "saving", !.next = j.pc]
  BY <1>0, <1>2, SaveStep
<1>4. WindowsCourse'
  <2> SUFFICES ASSUME Windows PROVE WindowsCourse'
    BY <1>0, Platforms DEF WindowsCourse
  <2>1. OpOk(op, ~swayed)
    BY <1>2, <1>3
  <2>2. Pool' = Pool /\ store'.selected = store.selected
    BY <1>2, <1>3, <2>1, WindowsEdit
  <2>3. QED
    BY <1>0, <1>3, <2>2 DEF WindowsCourse
<1>5. LinuxCourse'
  <2>1. Linux => /\ job'.pc = "saving" /\ job'.next = j.pc /\ j.pc # "measure"
    BY <1>0, <1>3, Platforms DEF Jobs
  <2>2. QED
    BY <1>0, <2>1, Platforms DEF LinuxCourse
<1>6. QED
  BY <1>3, <1>4, <1>5 DEF IInv

\* A job that goes on to pc with no file touched.
LEMMA GotoFacts ==
  ASSUME job \in Jobs, NEW pc \in Steps, job' = [job EXCEPT !.pc = pc]
  PROVE  /\ job' \in Jobs /\ job'.pc = pc /\ job'.kind = job.kind /\ job'.next = job.next
         /\ job'.todo = job.todo /\ job'.node = job.node
  BY DEF Jobs

LEMMA GotoStep ==
  ASSUME IInv, NEW pc \in {"end", "finish", "restore", "next"}, Goto(pc), UNCHANGED <<platform, Files>>,
         Provided, job.pc # "saving", job.kind \notin {"none", "edit"}
  PROVE  IInv'
<1>0. /\ Shape /\ Sound /\ WindowsCourse /\ LinuxCourse /\ job \in Jobs
      /\ store' = store /\ Pool' = Pool
  BY DEF IInv, Shape, Files, Pool
<1>1. /\ job' \in Jobs /\ job'.pc = pc /\ job'.kind = job.kind /\ job'.next = job.next
      /\ job'.todo = job.todo
  BY <1>0, GotoFacts DEF Goto, Steps
<1>2. ~Choosing'
  BY <1>1 DEF Choosing
<1>3. Shape' /\ Sound' /\ Alone'
  BY <1>1, <1>2, QuietStep
<1>4. WindowsCourse' /\ LinuxCourse'
  BY <1>0, <1>1, Platforms DEF WindowsCourse, LinuxCourse
<1>5. QED
  BY <1>3, <1>4 DEF IInv

LEMMA ConnectFailsMoves ==
  ASSUME IInv, ConnectFails
  PROVE  \/ \E pc \in {"finish", "end", "next"} :
              Goto(pc) /\ UNCHANGED Files /\ (pc = "end" => job.kind # "batch")
         \/ \E what \in {"test", "perf"} : Save(Op(what, job.node, None), [job EXCEPT !.pc = "next"])
<1>0. /\ job.kind \in {"connect", "test", "bench", "auto", "batch"} /\ (Linux <=> ~Windows)
  BY Platforms DEF IInv, ConnectFails, Shape, Jobs, JobKinds
<1>1. CASE job.kind \in {"connect", "test"} \/ (Linux /\ job.kind = "bench")
  BY <1>0, <1>1 DEF ConnectFails
<1>2. CASE job.kind \in {"auto", "bench"} /\ Windows
  BY <1>0, <1>2 DEF ConnectFails
<1>3. CASE job.kind = "auto" /\ Linux
  BY <1>0, <1>3 DEF ConnectFails
<1>4. CASE job.kind = "batch"
  BY <1>0, <1>4 DEF ConnectFails
<1>5. QED
  BY <1>0, <1>1, <1>2, <1>3, <1>4

LEMMA ConnectFailsStep == ASSUME IInv, ConnectFails PROVE IInv'
<1>0. /\ Shape /\ job \in Jobs /\ job.pc = "connect" /\ UNCHANGED platform
      /\ job.kind \in {"connect", "test", "bench", "auto", "batch"} /\ Provided
      /\ (Linux <=> ~Windows)
  BY Platforms, ProviderFacts DEF IInv, ConnectFails, Shape, Jobs, JobKinds
<1> DEFINE j == [job EXCEPT !.pc = "next"]
<1>1. /\ j \in Jobs /\ j.pc = "next" /\ j.kind = job.kind /\ j.todo = job.todo
  BY <1>0 DEF Jobs, Steps
<1>2. \/ \E pc \in {"finish", "end", "next"} : Goto(pc) /\ UNCHANGED Files
      \/ \E what \in {"test", "perf"} : Save(Op(what, job.node, None), j)
  BY ConnectFailsMoves
<1> HIDE DEF j
<1>3. CASE \E pc \in {"finish", "end", "next"} : Goto(pc) /\ UNCHANGED Files
  BY <1>0, <1>3, GotoStep
<1>4. ASSUME NEW what \in {"test", "perf"}, Save(Op(what, job.node, None), j) PROVE IInv'
  <2>1. PICK op : op = Op(what, job.node, None) /\ op.what = what /\ op.with = None
    BY OpFacts
  <2>2. QED
    BY <1>0, <1>1, <1>4, <2>1, RecordStep
<1>5. QED
  BY <1>2, <1>3, <1>4

LEMMA TestedStep == ASSUME IInv, Tested PROVE IInv'
<1>0. /\ Shape /\ job \in Jobs /\ job.pc = "test" /\ UNCHANGED <<platform, provider>>
      /\ job.kind \in {"connect", "test", "bench", "auto", "batch"} /\ Provided /\ running' = running
      /\ Windows /\ (~swayed => job.through \in {None, job.node}) /\ job.through \in Ids \cup {None}
  BY Platforms, ProviderFacts DEF provider, IInv, Tested, Shape, Jobs, JobKinds, LinuxCourse, WindowsCourse
<1>a. PICK x \in {"end", "measure"} : x = IF job.kind \in {"connect", "auto"} THEN "end" ELSE "measure"
  OBVIOUS
<1> DEFINE j == [job EXCEPT !.pc = x, !.through = None]
<1>1. /\ j \in Jobs /\ j.pc \in {"end", "measure"} /\ j.kind = job.kind /\ j.todo = job.todo
      /\ j.node = job.node
  BY <1>0 DEF Jobs, Steps
<1>2. Save(Op("test", job.node, job.through), j)
  BY <1>a DEF Tested
<1> HIDE DEF j
<1>3. PICK op : /\ op = Op("test", job.node, job.through)
                /\ op.what = "test" /\ op.id = job.node /\ op.with = job.through
  BY OpFacts
<1>4. swayed' = swayed
  BY <1>0, <1>2, Sways
<1>5. QED
  BY <1>0, <1>1, <1>2, <1>3, <1>4, RecordStep

LEMMA WrongCountryStep == ASSUME IInv, WrongCountry PROVE IInv'
<1>0. /\ Shape /\ job \in Jobs /\ job.pc = "test" /\ UNCHANGED platform
      /\ job.kind \in {"connect", "bench", "auto"} /\ Provided
  BY ProviderFacts DEF IInv, WrongCountry, Shape
<1> DEFINE j == [job EXCEPT !.pc = "next", !.through = None]
<1>1. /\ j \in Jobs /\ j.pc = "next" /\ j.kind = job.kind /\ j.todo = job.todo
  BY <1>0 DEF Jobs, Steps
<1>2. \/ Goto("finish") /\ UNCHANGED Files
      \/ Save(Op("test", job.node, None), j)
  BY DEF WrongCountry
<1> HIDE DEF j
<1>3. CASE Goto("finish") /\ UNCHANGED Files
  BY <1>0, <1>3, GotoStep
<1>4. CASE Save(Op("test", job.node, None), j)
  <2>1. PICK op : op = Op("test", job.node, None) /\ op.what = "test" /\ op.with = None
    BY OpFacts
  <2>2. QED
    BY <1>0, <1>1, <1>4, <2>1, RecordStep
<1>5. QED
  BY <1>2, <1>3, <1>4

LEMMA MeasureStep == ASSUME IInv, Measure PROVE IInv'
<1>0. /\ Shape /\ Sound /\ WindowsCourse /\ LinuxCourse /\ job \in Jobs /\ job.pc = "measure"
      /\ UNCHANGED <<platform, Files, running>> /\ job.kind \notin {"none", "edit"} /\ Provided
      /\ running \in Ids \cup {None} /\ store' = store /\ Pool' = Pool /\ swayed' = swayed
  BY ProviderFacts DEF IInv, Measure, Shape, Files, Pool, provider
<1>1. PICK w \in {None, running} : job' = [job EXCEPT !.pc = "perf", !.through = w]
  BY DEF Measure, Through
<1>2. /\ job' \in Jobs /\ job'.pc = "perf" /\ job'.kind = job.kind /\ job'.next = job.next
      /\ job'.todo = job.todo /\ job'.node = job.node /\ job'.through = w
  <2>1. w \in Ids \cup {None}
    BY <1>0
  <2>2. QED
    BY <1>0, <1>1, <2>1 DEF Jobs, Steps
<1>3. Choosing' => Choosing
  BY <1>0, <1>2 DEF Choosing
<1>4. Shape' /\ Sound' /\ Alone'
  BY <1>0, <1>2, <1>3, QuietStep
<1>5. WindowsCourse' /\ LinuxCourse'
  BY <1>0, <1>2, Platforms DEF WindowsCourse, LinuxCourse
<1>6. QED
  BY <1>4, <1>5 DEF IInv

\* The benchmark of a method may credit another node: that is what sways.
LEMMA MeasuredStep == ASSUME IInv, Measured PROVE IInv'
<1>0. /\ Shape /\ Sound /\ job \in Jobs /\ job.pc = "perf" /\ UNCHANGED <<platform, provider>>
      /\ job.kind \notin {"none", "edit"} /\ Provided
      /\ job.through \in Ids \cup {None} /\ WindowsCourse /\ LinuxCourse
  BY ProviderFacts DEF IInv, Measured, Shape, Jobs
<1>a. PICK x \in {"stop", "finish"} : x = IF job.kind = "batch" THEN "stop" ELSE "finish"
  OBVIOUS
<1> DEFINE j == [job EXCEPT !.pc = x, !.through = None]
<1>1. /\ j \in Jobs /\ j.pc \in {"stop", "finish"} /\ j.kind = job.kind /\ j.todo = job.todo
  BY <1>0 DEF Jobs, Steps
<1>2. \/ Goto("finish") /\ UNCHANGED Files
      \/ Save(Op("perf", Credited, job.through), j)
  BY <1>a DEF Measured
<1> HIDE DEF j
<1>3. CASE Goto("finish") /\ UNCHANGED Files
  BY <1>0, <1>3, GotoStep
<1>4. CASE Save(Op("perf", Credited, job.through), j)
  <2>1. PICK op : /\ op = Op("perf", Credited, job.through)
                  /\ op.what = "perf" /\ op.id = Credited /\ op.with = job.through
    BY OpFacts
  <2>2. ASSUME swayed' = FALSE PROVE op.with \in {None, op.id}
    <3>1. CASE Windows
      <4>1. swayed = FALSE
        BY <1>0, <1>4, <2>2, Sways DEF Shape
      <4>2. QED
        BY <1>0, <2>1, <3>1, <4>1 DEF WindowsCourse, Credited
    <3>2. CASE Linux /\ job.kind = "batch"
      <4>1. swayed = FALSE
        BY <1>0, <1>4, <2>2, Sways DEF Shape
      <4>2. QED
        BY <1>0, <2>1, <3>2, <4>1 DEF LinuxCourse, Credited
    <3>3. CASE Linux /\ job.kind = "bench"
      BY <1>0, <1>4, <2>1, <2>2, <3>3, Sways
    <3>4. QED
      BY <1>0, <3>1, <3>2, <3>3, Platforms DEF LinuxCourse
  <2>3. QED
    BY <1>0, <1>1, <1>4, <2>1, <2>2, RecordStep
<1>5. QED
  BY <1>2, <1>3, <1>4

LEMMA CourseEndsStep == ASSUME IInv, StopMeasured \/ Finish \/ FinishRaises PROVE IInv'
<1>1. /\ job.pc \in {"stop", "finish"} /\ job.kind \notin {"none", "edit"} /\ Shape
      /\ UNCHANGED <<platform, Files>>
  BY DEF IInv, Shape, StopMeasured, Finish, FinishRaises
<1>2. MayStop \/ UNCHANGED provider
  BY DEF StopMeasured, Finish, FinishRaises
<1>3. Goto("next") \/ Goto("restore") \/ Goto("end")
  BY DEF StopMeasured, Finish, FinishRaises
<1>4. QED
  BY <1>1, <1>2, <1>3, ProviderFacts, GotoStep

LEMMA RestoreStep == ASSUME IInv, Restore PROVE IInv'
<1>0. /\ Shape /\ Sound /\ job \in Jobs /\ job.pc = "restore" /\ UNCHANGED <<platform, provider>>
      /\ job.kind \notin {"none", "edit"} /\ Provided
      /\ WindowsCourse /\ LinuxCourse
  BY ProviderFacts DEF IInv, Restore, Shape
<1> DEFINE j == [job EXCEPT !.pc = "end"]
<1>1. /\ j \in Jobs /\ j.pc = "end" /\ j.kind = job.kind
  BY <1>0 DEF Jobs, Steps
<1>2. \/ Linux /\ Save(Op("select", job.original, <<>>), j)
      \/ Goto("end") /\ UNCHANGED Files
  BY DEF Restore, GoesBack
<1> HIDE DEF j
<1>3. CASE Goto("end") /\ UNCHANGED Files
  BY <1>0, <1>3, GotoStep
<1>4. CASE Linux /\ Save(Op("select", job.original, <<>>), j)
  <2>1. PICK op : op = Op("select", job.original, <<>>) /\ op.what = "select"
    BY OpFacts
  <2>2. OpOk(op, ~swayed') /\ ~Windows
    BY <1>0, <1>4, <2>1, Platforms DEF OpOk
  <2>3. Shape' /\ Sound' /\ Alone' /\ job' = [j EXCEPT !.pc = "saving", !.next = j.pc]
    BY <1>0, <1>1, <1>4, <2>1, <2>2, SaveStep
  <2>4. job'.pc = "saving" /\ job'.next = "end"
    BY <1>1, <2>3 DEF Jobs
  <2>5. QED
    BY <1>0, <2>2, <2>3, <2>4, Platforms DEF IInv, WindowsCourse, LinuxCourse
<1>5. QED
  BY <1>2, <1>3, <1>4

LEMMA EndStep == ASSUME IInv, JobEnds PROVE IInv'
<1>0. /\ Shape /\ UNCHANGED <<platform, Files>> /\ job.pc = "end" /\ job' = Idle /\ Provided
  BY ProviderFacts DEF IInv, JobEnds, Shape
<1>1. Shape' /\ Sound' /\ Alone'
  BY <1>0, IdleFacts, QuietStep DEF Choosing
<1>2. QED
  BY <1>0, <1>1, IdleFacts DEF IInv, WindowsCourse, LinuxCourse

LEMMA ProviderStep == ASSUME IInv, StopNode \/ ProviderExits PROVE IInv'
<1>0. /\ Shape /\ Sound /\ Alone /\ WindowsCourse /\ LinuxCourse
      /\ UNCHANGED <<platform, store, tmp, hand, swayed, job>> /\ running' \in {None, running}
      /\ Provided
  BY ProviderFacts DEF IInv, StopNode, ProviderExits, Stops, Files
<1>1. Shape' /\ Sound'
  BY <1>0 DEF Shape, Sound, Provided
<1>2. Alone'
  BY <1>0 DEF Alone, Busy, Choosing, Windows
<1>3. WindowsCourse' /\ LinuxCourse'
  BY <1>0, Platforms DEF WindowsCourse, LinuxCourse, Pool
<1>4. QED
  BY <1>1, <1>2, <1>3 DEF IInv

\* A job that dies between Popen and owner.json leaves what sways, too.
LEMMA KilledStep == ASSUME IInv, Killed PROVE IInv'
<1>0. /\ Shape /\ Sound /\ Alone /\ UNCHANGED <<platform, store>> /\ job' = Idle
      /\ tmp' = NoText /\ hand' = [t \in Threads |-> FreeHand] /\ swayed \in BOOLEAN
  BY DEF IInv, Killed, Shape
<1>1. /\ running' \in Ids \cup {None} /\ owner' \in Ids \cup {None} /\ swayed' \in BOOLEAN
      /\ (swayed => swayed') /\ (~swayed' => owner' = running')
  <2>1. CASE LeftUnrecorded
    BY <1>0, <2>1, SoundStore DEF LeftUnrecorded
  <2>2. CASE UNCHANGED <<provider, swayed>>
    BY <1>0, <2>2 DEF provider, Shape
  <2>3. QED
    BY <2>1, <2>2 DEF Killed
<1>2. /\ DOMAIN hand' = Threads
      /\ \A t \in Threads : /\ DOMAIN hand'[t] = HandFields /\ hand'[t].pc = "free"
                            /\ hand'[t].renamed = FALSE
  BY <1>0 DEF FreeHand, HandFields
<1>3. PICK h \in BOOLEAN, g \in BOOLEAN : h = ~swayed /\ g = ~swayed' /\ (g => h)
  BY <1>0, <1>1
<1>4. Shape'
  BY <1>0, <1>1, <1>2, IdleFacts DEF Shape, HandSteps
<1>5. Sound'
  <2>1. store' \in Stores(Kind(g))
    BY <1>0, <1>3, KindGrows DEF Sound
  <2>2. QED
    BY <1>0, <1>2, <1>3, <2>1 DEF Sound
<1>6. Alone'
  BY <1>0, <1>2, IdleFacts DEF Alone, Busy, Threads, Windows
<1>7. QED
  BY <1>0, <1>4, <1>5, <1>6, IdleFacts DEF IInv, WindowsCourse, LinuxCourse

-----------------------------------------------------------------------------
(* IInv is inductive: the two threads *)

\* A click while the worker chooses or saves is what sways.
LEMMA ClickStep == ASSUME IInv, Click PROVE IInv'
<1>0. /\ Shape /\ Sound /\ Alone /\ WindowsCourse /\ LinuxCourse /\ ~Busy("window")
      /\ UNCHANGED <<platform, running, owner, job>> /\ Linux /\ ~Windows
      /\ "worker" \in Threads /\ "window" \in Threads
  BY Platforms DEF IInv, Click, Threads, provider
<1>1. PICK op : Take("window", op) /\ (\A h : OpOk(op, h))
  <2>1. PICK id \in Pool, what \in {"select", "mark"} : Take("window", Op(what, id, <<>>))
    BY DEF Click
  <2>2. \A h : OpOk(Op(what, id, <<>>), h)
    BY OpFacts DEF OpOk
  <2>3. QED
    BY <2>1, <2>2
<1>2. /\ UNCHANGED <<store, tmp>> /\ swayed' \in BOOLEAN /\ (swayed => swayed')
      /\ DOMAIN hand' = Threads /\ hand'["window"].pc = "read"
      /\ hand'["window"].renamed = FALSE
      /\ \A u \in Threads : /\ DOMAIN hand'[u] = HandFields
                            /\ u # "window" => /\ hand'[u].pc = hand[u].pc
                                               /\ hand'[u].renamed = hand[u].renamed
      /\ ~swayed' => (\A u \in Threads \ {"window"} : ~Busy(u)) /\ ~Choosing
  BY <1>0, <1>1, TakeFacts
<1>3. /\ Sound'
      /\ \A u \in Threads : /\ hand'[u].pc \in HandSteps /\ hand'[u].renamed \in BOOLEAN
                            /\ hand'[u].renamed => hand'[u].pc = "open"
  BY <1>0, <1>1, TakeSound
<1>4. Shape'
  BY <1>0, <1>2, <1>3 DEF Shape
<1>5. Alone'
  <2>1. /\ Busy("worker")' <=> Busy("worker")
        /\ ~swayed' => ~Busy("worker") /\ ~Choosing
        /\ Choosing' <=> Choosing
    BY <1>0, <1>2 DEF Busy, Choosing
  <2>2. ~Windows'
    BY <1>0, Platforms
  <2>3. ~swayed' => \A u \in Threads : ~hand'[u].renamed
    BY <1>0, <1>2 DEF Alone, Shape
  <2>4. QED
    BY <1>0, <2>1, <2>2, <2>3 DEF Alone
<1>6. WindowsCourse' /\ LinuxCourse'
  <2>1. ~swayed' => job.pc # "saving"
    BY <1>0, <1>2 DEF Alone
  <2>2. QED
    BY <1>0, <1>2, <2>1, Platforms DEF WindowsCourse, LinuxCourse
<1>7. QED
  BY <1>3, <1>4, <1>5, <1>6 DEF IInv

\* A thread that edits: Linux, and the worker exactly when a job saves.
LEMMA BusyFacts ==
  ASSUME IInv, NEW t \in Threads, Busy(t)
  PROVE  /\ Shape /\ Sound /\ Alone /\ LinuxCourse /\ Linux /\ ~Windows
         /\ t \in {"worker", "window"} /\ "worker" \in Threads /\ "window" \in Threads
         /\ t = "worker" => job.pc = "saving"
         /\ t = "window" /\ swayed = FALSE => job.pc # "saving" /\ ~Choosing
  BY Platforms DEF IInv, Alone, Threads

\* A thread is done.  What the other has open may have been renamed.
Released(t) ==
    /\ DOMAIN hand' = Threads /\ hand'[t] = FreeHand
    /\ \A u \in Threads \ {t} :
          /\ DOMAIN hand'[u] = HandFields
          /\ hand'[u].pc = hand[u].pc /\ hand'[u].op = hand[u].op
          /\ hand'[u].copy = hand[u].copy /\ hand'[u].stale = hand[u].stale
          /\ hand'[u].renamed \in BOOLEAN
          /\ hand'[u].renamed => hand[u].pc = "open"

LEMMA ReleasedFacts ==
  ASSUME Shape, NEW t \in Threads,
         \/ hand' = [hand EXCEPT ![t] = FreeHand]
         \/ hand' = [u \in Threads |->
                       IF u = t THEN FreeHand
                       ELSE [hand[u] EXCEPT !.renamed = @ \/ hand[u].pc = "open"]]
  PROVE  Released(t)
<1>1. CASE hand' = [hand EXCEPT ![t] = FreeHand]
  BY <1>1 DEF Released, Shape
<1>2. CASE hand' = [u \in Threads |->
                     IF u = t THEN FreeHand
                     ELSE [hand[u] EXCEPT !.renamed = @ \/ hand[u].pc = "open"]]
  <2>1. DOMAIN hand' = Threads /\ hand'[t] = FreeHand
    BY <1>2
  <2>2. ASSUME NEW u \in Threads \ {t}
        PROVE  /\ DOMAIN hand'[u] = HandFields
               /\ hand'[u].pc = hand[u].pc /\ hand'[u].op = hand[u].op
               /\ hand'[u].copy = hand[u].copy /\ hand'[u].stale = hand[u].stale
               /\ hand'[u].renamed \in BOOLEAN
               /\ hand'[u].renamed => hand[u].pc = "open"
    <3>1. PICK b \in BOOLEAN : b = (hand[u].renamed \/ hand[u].pc = "open")
      OBVIOUS
    <3>2. hand'[u] = [hand[u] EXCEPT !.renamed = b]
      BY <1>2, <3>1
    <3>3. DOMAIN hand[u] = HandFields /\ (b => hand[u].pc = "open")
      BY <3>1 DEF Shape
    <3>4. QED
      BY <3>2, <3>3 DEF HandFields
  <2>3. QED
    BY <2>1, <2>2 DEF Released
<1>3. QED
  BY <1>1, <1>2

\* The job of a thread that is done, whether its edit failed or was saved.
LEMMA FreedFacts ==
  ASSUME IInv, NEW t \in Threads, Busy(t), UNCHANGED <<platform, running, owner, swayed>>,
         Released(t),
         \/ t = "worker" /\ job' = [job EXCEPT !.pc = job.next]
         \/ t = "worker" /\ job' = Raised([job EXCEPT !.pc = job.next])
         \/ t = "window" /\ job' = job
  PROVE  /\ Shape'
         /\ \A u \in Threads : hand'[u].pc # "free" =>
               /\ u # t /\ hand'[u].pc = hand[u].pc /\ hand'[u].op = hand[u].op
               /\ hand'[u].copy = hand[u].copy /\ hand'[u].stale = hand[u].stale
         /\ job'.pc = "saving" <=> (t = "window" /\ job.pc = "saving")
         /\ job'.kind = job.kind /\ job'.next = job.next
         /\ job'.node = job.node \/ job'.pc \in {"finish", "end"}
         /\ t = "worker" => job'.pc \in {job.next, "finish", "end"}
         /\ Alone'
<1>0. /\ Shape /\ Alone /\ LinuxCourse /\ Linux /\ ~Windows /\ job \in Jobs
      /\ t \in {"worker", "window"} /\ "worker" \in Threads /\ "window" \in Threads
      /\ t = "worker" => job.pc = "saving"
      /\ t = "window" /\ swayed = FALSE => job.pc # "saving" /\ ~Choosing
      /\ swayed \in BOOLEAN
  BY BusyFacts DEF Shape
<1>1. /\ DOMAIN hand' = Threads /\ hand'[t].pc = "free" /\ hand'[t].renamed = FALSE
      /\ DOMAIN hand'[t] = HandFields
      /\ \A u \in Threads : u # t =>
            /\ hand'[u].pc = hand[u].pc /\ hand'[u].op = hand[u].op
            /\ hand'[u].copy = hand[u].copy /\ hand'[u].stale = hand[u].stale
            /\ DOMAIN hand'[u] = HandFields /\ hand'[u].renamed \in BOOLEAN
            /\ hand'[u].renamed => hand[u].pc = "open"
  BY <1>0 DEF Released, FreeHand, HandFields
<1>2. \A u \in Threads : /\ hand'[u].pc \in HandSteps /\ hand'[u].renamed \in BOOLEAN
                         /\ DOMAIN hand'[u] = HandFields
                         /\ hand'[u].renamed => hand'[u].pc = "open"
  BY <1>0, <1>1 DEF Shape, HandSteps
<1> DEFINE k == [job EXCEPT !.pc = job.next]
<1>3. /\ k \in Jobs /\ k.pc = job.next /\ k.kind = job.kind /\ k.next = job.next /\ k.node = job.node
      /\ job.next # "saving"
  BY <1>0 DEF Jobs, Steps
<1>4. \/ t = "worker" /\ job' = k
      \/ t = "worker" /\ job' = Raised(k)
      \/ t = "window" /\ job' = job
  OBVIOUS
<1> HIDE DEF k
<1>5. job.kind \in {"none", "edit"} => job.next = "end" /\ job.pc \in {"idle", "end", "saving"}
  BY <1>0 DEF Shape
<1>6. /\ job' \in Jobs /\ job'.kind = job.kind /\ job'.next = job.next
      /\ job'.pc = "saving" <=> (t = "window" /\ job.pc = "saving")
      /\ job'.node = job.node \/ job'.pc \in {"finish", "end"}
      /\ t = "worker" => job'.pc \in {job.next, "finish", "end"}
      /\ t = "worker" /\ job.kind \in {"none", "edit"} => job'.pc = "end"
  <2>1. /\ Raised(k) \in Jobs /\ Raised(k).pc \in {"finish", "end"} /\ Raised(k).kind = k.kind
        /\ Raised(k).next = k.next /\ (k.kind \in {"none", "edit"} => Raised(k).pc = "end")
    BY <1>3, RaisedFacts
  <2>2. QED
    BY <1>0, <1>3, <1>4, <1>5, <2>1
<1>7. Shape'
  <2>1. job'.kind \in {"none", "edit"} => job'.pc \in {"idle", "end", "saving"} /\ job'.next = "end"
    BY <1>0, <1>4, <1>5, <1>6
  <2>2. QED
    BY <1>0, <1>1, <1>2, <1>6, <2>1 DEF Shape
<1>8. Alone'
  <2>1. /\ Busy("worker")' <=> (t = "window" /\ Busy("worker"))
        /\ Busy("window")' <=> (t = "worker" /\ Busy("window"))
    BY <1>0, <1>1 DEF Busy
  <2>2. ~Windows'
    BY <1>0, Platforms
  <2>3. swayed' = FALSE => ~(Busy("worker") /\ Busy("window"))
    BY <1>0 DEF Alone
  <2>4. swayed' = FALSE => \A u \in Threads : ~hand'[u].renamed
    <3>1. \A u \in Threads : hand'[u].renamed => Busy("worker") /\ Busy("window")
      BY <1>0, <1>1 DEF Busy, Threads
    <3>2. QED
      BY <2>3, <3>1
  <2>5. QED
    BY <1>0, <1>6, <2>1, <2>2, <2>3, <2>4 DEF Alone
<1>9. QED
  BY <1>1, <1>6, <1>7, <1>8

\* The edit of a thread fails: what is stored stays as it is.
LEMMA GiveUpStep ==
  ASSUME IInv, NEW t \in Threads, Busy(t), GiveUp(t),
         UNCHANGED <<platform, store, tmp, running, owner, swayed>>
  PROVE  IInv'
<1>0. /\ Shape /\ Sound /\ Alone /\ LinuxCourse /\ Linux /\ ~Windows
      /\ t \in {"worker", "window"} /\ "worker" \in Threads
      /\ t = "worker" => job.pc = "saving"
      /\ t = "window" /\ swayed = FALSE => job.pc # "saving" /\ ~Choosing
      /\ swayed \in BOOLEAN
  BY BusyFacts DEF Shape
<1>1. /\ hand' = [hand EXCEPT ![t] = FreeHand]
      /\ \/ t = "worker" /\ job' = Raised([job EXCEPT !.pc = job.next])
         \/ t = "window" /\ job' = job
  BY <1>0 DEF GiveUp
<1>2. /\ Shape' /\ Alone'
      /\ \A u \in Threads : hand'[u].pc # "free" =>
            /\ u # t /\ hand'[u].pc = hand[u].pc /\ hand'[u].op = hand[u].op
            /\ hand'[u].copy = hand[u].copy /\ hand'[u].stale = hand[u].stale
      /\ job'.kind = job.kind /\ job'.next = job.next
  BY <1>0, <1>1, ReleasedFacts, FreedFacts
<1>3. Sound'
  BY <1>0, <1>2 DEF Sound
<1>4. ~Windows' /\ Linux'
  BY <1>0, Platforms
<1>5. t = "worker" => job'.pc \in {"finish", "end"}
  <2>1. [job EXCEPT !.pc = job.next] \in Jobs
    BY <1>0 DEF Shape, Jobs, Steps
  <2>2. QED
    BY <1>1, <2>1, RaisedFacts
<1>6. WindowsCourse' /\ LinuxCourse'
  <2>1. CASE t = "worker"
    BY <1>0, <1>2, <1>4, <1>5, <2>1 DEF WindowsCourse, LinuxCourse
  <2>2. CASE t = "window"
    BY <1>0, <1>1, <1>4, <2>2 DEF WindowsCourse, LinuxCourse
  <2>3. QED
    BY <1>0, <2>1, <2>2
<1>7. QED
  BY <1>2, <1>3, <1>6 DEF IInv

LEMMA TornFacts == ASSUME NEW N \in Kinds PROVE Torn \in Stores(N)
<1>1. <<>> \in Lists(N) /\ Len(<<>>) = 0 /\ MaxNodes \in Nat
  BY PoolAssumption DEF Lists, Distinct
<1>2. QED
  BY <1>1 DEF Torn, Stores

LEMMA OpenStep == ASSUME IInv, NEW t \in Threads, Open(t) PROVE IInv'
<1>0. /\ Busy(t) /\ hand[t].pc = "read" /\ UNCHANGED <<platform, store, running, owner, swayed>>
  BY DEF Open, Busy, provider
<1>1. /\ Shape /\ Sound /\ Alone /\ LinuxCourse /\ Linux /\ ~Windows
      /\ "worker" \in Threads /\ "window" \in Threads /\ swayed \in BOOLEAN
  BY <1>0, BusyFacts DEF Shape
<1>2. CASE CanEdit(hand[t].op, hand[t].copy)
  <2>1. tmp' = Torn /\ hand' = [hand EXCEPT ![t].pc = "open"] /\ job' = job
    BY <1>2 DEF Open
  <2>2. /\ DOMAIN hand' = Threads
        /\ \A u \in Threads : /\ DOMAIN hand'[u] = HandFields
                              /\ hand'[u].op = hand[u].op /\ hand'[u].copy = hand[u].copy
                              /\ hand'[u].renamed = hand[u].renamed
                              /\ hand'[u].pc = IF u = t THEN "open" ELSE hand[u].pc
    BY <1>1, <2>1 DEF Shape, HandFields
  <2>3. PICK h \in BOOLEAN : h = ~swayed
    OBVIOUS
  <2>4. tmp' \in Stores(Kind(h))
    BY <2>1, KindOk, TornFacts
  <2>5. Shape'
    BY <1>0, <1>1, <2>1, <2>2 DEF Shape, HandSteps
  <2>6. Sound'
    <3>1. /\ store \in Stores(Kind(h))
          /\ \A u \in Threads : hand'[u].pc \in {"read", "open"} =>
                hand[u].copy \in Stores(Kind(h)) /\ OpOk(hand[u].op, h)
          /\ \A u \in Threads : hand'[u].pc = "open" => CanEdit(hand[u].op, hand[u].copy)
      BY <1>0, <1>1, <1>2, <2>2, <2>3 DEF Sound
    <3>2. /\ \A u \in Threads : hand'[u].pc \in {"read", "open"} =>
                hand'[u].copy \in Stores(Kind(h)) /\ OpOk(hand'[u].op, h)
          /\ \A u \in Threads : hand'[u].pc = "open" => CanEdit(hand'[u].op, hand'[u].copy)
      BY <2>2, <3>1
    <3>3. QED
      BY <1>0, <2>3, <2>4, <3>1, <3>2 DEF Sound
  <2>7. Alone'
    <3>1. \A u \in Threads : Busy(u)' <=> Busy(u)
      BY <1>0, <1>1, <2>2 DEF Busy
    <3>2. (Choosing' <=> Choosing) /\ ~Windows'
      BY <1>0, <1>1, <2>1, Platforms DEF Choosing
    <3>3. QED
      BY <1>0, <1>1, <2>1, <2>2, <3>1, <3>2 DEF Alone
  <2>8. WindowsCourse' /\ LinuxCourse'
    <3>1. ~Windows' /\ Linux'
      BY <1>0, <1>1, Platforms
    <3>2. /\ hand'["worker"].pc \in {"read", "open"} => hand["worker"].pc \in {"read", "open"}
          /\ hand'["worker"].op = hand["worker"].op
          /\ hand'["worker"].pc = "filled" /\ swayed = FALSE =>
               hand["worker"].pc = "filled" /\ t = "window"
      BY <1>0, <1>1, <2>2 DEF Threads
    <3>3. hand'["worker"].pc = "filled" => swayed
      BY <1>0, <1>1, <3>2 DEF Alone, Busy
    <3>4. QED
      BY <1>0, <1>1, <2>1, <3>1, <3>2, <3>3 DEF WindowsCourse, LinuxCourse
  <2>9. QED
    BY <2>5, <2>6, <2>7, <2>8 DEF IInv
<1>3. CASE ~CanEdit(hand[t].op, hand[t].copy)
  BY <1>0, <1>3, GiveUpStep DEF Open
<1>4. QED
  BY <1>2, <1>3

\* What is written: the edit, and nothing else unless the two threads edit at once.
LEMMA Filled ==
  ASSUME IInv, NEW t \in Threads, Fill(t)
  PROVE  \E text \in Stores(Kind(~swayed)) :
           /\ \/ hand[t].renamed /\ store' = text /\ tmp' = tmp
              \/ ~hand[t].renamed /\ tmp' = text /\ store' = store
           /\ (~hand[t].renamed /\ \A u \in Threads \ {t} : ~Busy(u)) =>
                /\ text = Edited(hand[t].op, hand[t].copy)
                /\ hand[t].op.what = "select" => text.selected = hand[t].op.id
<1>0. /\ Busy(t) /\ hand[t].pc = "open" /\ Shape /\ Sound /\ Alone /\ swayed \in BOOLEAN
  BY DEF Fill, Busy, IInv, Shape
<1>1. PICK h \in BOOLEAN : h = ~swayed
  OBVIOUS
<1>2. PICK op, c : op = hand[t].op /\ c = hand[t].copy
  OBVIOUS
<1>3. c \in Stores(Kind(h)) /\ OpOk(op, h) /\ CanEdit(op, c)
  BY <1>0, <1>1, <1>2 DEF Sound
<1>4. Edited(op, c) \in Stores(Kind(h)) /\ (op.what = "select" => Edited(op, c).selected = op.id)
  BY <1>3, EditSound
<1>5. Torn \in Stores(Kind(h))
  BY KindOk, TornFacts
<1>6. PICK text \in {Edited(op, c)}
                    \cup (IF hand[t].renamed \/ \E u \in Threads \ {t} : hand[u].pc = "filled"
                          THEN {Torn} ELSE {}) :
         IF hand[t].renamed THEN store' = text /\ tmp' = tmp ELSE tmp' = text /\ store' = store
  BY <1>2 DEF Fill
<1>7. (~hand[t].renamed /\ \A u \in Threads \ {t} : ~Busy(u)) => text = Edited(op, c)
  BY <1>6 DEF Busy
<1>8. QED
  BY <1>1, <1>2, <1>4, <1>5, <1>6, <1>7

LEMMA FillStep == ASSUME IInv, NEW t \in Threads, Fill(t) PROVE IInv'
<1>0. /\ Busy(t) /\ hand[t].pc = "open" /\ UNCHANGED <<platform, running, owner, swayed, job>>
      /\ hand' = [hand EXCEPT ![t] = [FreeHand EXCEPT !.pc = "filled", !.stale = hand[t].stale]]
  BY DEF Fill, Busy, provider
<1>1. /\ Shape /\ Sound /\ Alone /\ LinuxCourse /\ Linux /\ ~Windows
      /\ t \in {"worker", "window"} /\ "worker" \in Threads /\ "window" \in Threads
      /\ t = "worker" => job.pc = "saving"
      /\ t = "window" /\ swayed = FALSE => job.pc # "saving" /\ ~Choosing
      /\ swayed \in BOOLEAN
  BY <1>0, BusyFacts DEF Shape
<1>2. PICK text \in Stores(Kind(~swayed)) :
         /\ \/ hand[t].renamed /\ store' = text /\ tmp' = tmp
            \/ ~hand[t].renamed /\ tmp' = text /\ store' = store
         /\ ~swayed => /\ ~hand[t].renamed
                       /\ hand[t].op.what = "select" => text.selected = hand[t].op.id
  <2>1. ~swayed => ~hand[t].renamed /\ \A u \in Threads \ {t} : ~Busy(u)
    BY <1>0, <1>1 DEF Alone, Threads
  <2>2. QED
    BY <2>1, Filled
<1>3. /\ DOMAIN hand' = Threads /\ hand'[t].pc = "filled" /\ hand'[t].renamed = FALSE
      /\ DOMAIN hand'[t] = HandFields
      /\ \A u \in Threads : u # t => hand'[u] = hand[u]
  BY <1>0, <1>1 DEF Shape, FreeHand, HandFields
<1>4. Shape'
  BY <1>0, <1>1, <1>3 DEF Shape, HandSteps
<1>5. Sound'
  BY <1>0, <1>1, <1>2, <1>3 DEF Sound
<1>6. Alone'
  <2>1. \A u \in Threads : Busy(u)' <=> Busy(u)
    BY <1>0, <1>1, <1>3 DEF Busy
  <2>2. (Choosing' <=> Choosing) /\ ~Windows'
    BY <1>0, <1>1, Platforms DEF Choosing
  <2>3. QED
    BY <1>0, <1>1, <1>3, <2>1, <2>2 DEF Alone
<1>7. WindowsCourse' /\ LinuxCourse'
  <2>1. ~Windows' /\ Linux'
    BY <1>0, <1>1, Platforms
  <2>2. ASSUME swayed' = FALSE, job'.kind = "batch", job'.pc = "saving", job'.next = "connect"
        PROVE  /\ hand'["worker"].pc \notin {"read", "open"}
               /\ hand'["worker"].pc = "filled" /\ tmp' # NoText => tmp'.selected = job'.node
    <3>1. t = "worker"
      BY <1>0, <1>1, <2>2
    <3>2. hand[t].op.what = "select" /\ hand[t].op.id = job.node
      BY <1>0, <1>1, <2>2, <3>1 DEF LinuxCourse
    <3>3. QED
      BY <1>0, <1>2, <1>3, <2>2, <3>1, <3>2
  <2>3. job'.kind = "batch" /\ swayed' = FALSE /\ job'.pc = "connect" => store'.selected = job'.node
    BY <1>0, <1>1, <1>2 DEF LinuxCourse
  <2>4. QED
    BY <1>0, <1>1, <2>1, <2>2, <2>3 DEF WindowsCourse, LinuxCourse
<1>8. QED
  BY <1>4, <1>5, <1>6, <1>7 DEF IInv

LEMMA PublishStep == ASSUME IInv, NEW t \in Threads, Publish(t) PROVE IInv'
<1>0. /\ Busy(t) /\ hand[t].pc = "filled" /\ UNCHANGED <<platform, running, owner, swayed>>
  BY DEF Publish, Busy, provider
<1>1. /\ Shape /\ Sound /\ Alone /\ LinuxCourse /\ Linux /\ ~Windows
      /\ t \in {"worker", "window"} /\ "worker" \in Threads
      /\ t = "worker" => job.pc = "saving"
      /\ t = "window" /\ swayed = FALSE => job.pc # "saving" /\ ~Choosing
      /\ swayed \in BOOLEAN
  BY <1>0, BusyFacts DEF Shape
<1>2. CASE tmp # NoText
  <2>1. /\ store' = tmp /\ tmp' = NoText /\ Released(t)
        /\ \/ t = "worker" /\ job' = [job EXCEPT !.pc = job.next]
           \/ t = "window" /\ job' = job
    BY <1>1, <1>2, ReleasedFacts DEF Publish
  <2>2. /\ Shape' /\ Alone'
        /\ \A u \in Threads : hand'[u].pc # "free" =>
              /\ u # t /\ hand'[u].pc = hand[u].pc /\ hand'[u].op = hand[u].op
              /\ hand'[u].copy = hand[u].copy /\ hand'[u].stale = hand[u].stale
    BY <1>0, <2>1, FreedFacts
  <2>3. Sound'
    BY <1>0, <1>1, <1>2, <2>1, <2>2 DEF Sound
  <2>4. ~Windows' /\ Linux'
    BY <1>0, <1>1, Platforms
  <2>5. CASE t = "worker"
    <3>1. /\ job'.pc = job.next /\ job'.kind = job.kind /\ job'.next = job.next
          /\ job'.node = job.node /\ job.next \in {"end", "rank", "connect", "next", "stop", "finish"}
      BY <1>1, <2>1, <2>5 DEF Shape, Jobs, LinuxCourse
    <3>2. ASSUME job'.kind = "batch", swayed' = FALSE, job'.pc = "connect"
          PROVE  store'.selected = job'.node
      BY <1>0, <1>1, <1>2, <2>1, <2>5, <3>1, <3>2 DEF LinuxCourse
    <3>3. QED
      BY <1>1, <2>2, <2>3, <2>4, <3>1, <3>2 DEF IInv, Shape, WindowsCourse, LinuxCourse
  <2>6. CASE t = "window"
    <3>1. job' = job /\ ~(swayed' = FALSE /\ job.kind = "batch" /\ job.pc \in {"connect", "saving"})
      BY <1>0, <1>1, <2>1, <2>6 DEF Choosing
    <3>2. QED
      BY <1>0, <1>1, <2>2, <2>3, <2>4, <3>1 DEF IInv, Shape, WindowsCourse, LinuxCourse
  <2>7. QED
    BY <1>1, <2>5, <2>6
<1>3. CASE tmp = NoText
  BY <1>0, <1>3, GiveUpStep DEF Publish
<1>4. QED
  BY <1>2, <1>3

-----------------------------------------------------------------------------
(* The theorems *)

LEMMA PlatformKept == ASSUME Next PROVE platform' = platform
  BY DEF Next, Click, Open, Fill, Publish, EditJob, SelectOrMark, UseSelected, Preflight, LinuxSelected,
         UsePool, CountryShard, Rank, TryNext, StopRefused, NoneLeft, Connected, Beside,
         ConnectFails, Tested, WrongCountry, Measure, MeasureRaises, Measured, StopMeasured, Finish,
         FinishRaises, Restore, JobEnds, StopNode, Killed, ProviderExits

LEMMA Inductive == IInv /\ [Next]_vars => IInv'
<1> SUFFICES ASSUME IInv, [Next]_vars PROVE IInv'
  OBVIOUS
<1>1. CASE UNCHANGED vars
  BY <1>1 DEF vars, provider, IInv, Shape, Sound, Alone, WindowsCourse, LinuxCourse, Busy, Choosing,
              Windows, Linux, Pool
<1>2. CASE Click
  BY <1>2, ClickStep
<1>3. CASE \E t \in Threads : Open(t) \/ Fill(t) \/ Publish(t)
  BY <1>3, OpenStep, FillStep, PublishStep
<1>4. CASE EditJob \/ SelectOrMark
  BY <1>4, EditJobStep
<1>5. CASE UseSelected \/ Preflight \/ LinuxSelected \/ UsePool
  BY <1>5, BeginStep
<1>6. CASE CountryShard
  BY <1>6, CountryShardStep
<1>7. CASE Rank \/ StopRefused \/ NoneLeft \/ MeasureRaises
  BY <1>7, RankStep
<1>8. CASE TryNext
  BY <1>8, TryNextStep
<1>9. CASE Connected \/ Beside
  BY <1>9, ConnectedStep, BesideStep
<1>10. CASE ConnectFails
  BY <1>10, ConnectFailsStep
<1>11. CASE Tested
  BY <1>11, TestedStep
<1>12. CASE WrongCountry
  BY <1>12, WrongCountryStep
<1>13. CASE Measure
  BY <1>13, MeasureStep
<1>14. CASE Measured
  BY <1>14, MeasuredStep
<1>15. CASE StopMeasured \/ Finish \/ FinishRaises
  BY <1>15, CourseEndsStep
<1>16. CASE Restore
  BY <1>16, RestoreStep
<1>17. CASE JobEnds
  BY <1>17, EndStep
<1>18. CASE StopNode \/ ProviderExits
  BY <1>18, ProviderStep
<1>19. CASE Killed
  BY <1>19, KilledStep
<1>20. QED
  BY <1>1, <1>2, <1>3, <1>4, <1>5, <1>6, <1>7, <1>8, <1>9, <1>10, <1>11, <1>12, <1>13, <1>14,
     <1>15, <1>16, <1>17, <1>18, <1>19 DEF Next

\* nodes.json never holds a node twice, nor more than the limit, and what it
\* selects is one of its nodes: on both platforms, with an edit of the window
\* between any two steps of the worker, and whoever is killed in between.
THEOREM PoolAlwaysSound == Spec => []PoolSound
<1>1. IInv => PoolSound
  <2> SUFFICES ASSUME IInv PROVE PoolSound
    OBVIOUS
  <2>1. /\ store \in Stores(Kind(~swayed)) /\ Kind(~swayed) \in Kinds
        /\ store.selected \in Pool \cup {None}
    BY SoundStore DEF IInv
  <2>2. Len(store.nodes) <= MaxNodes /\ Distinct(store.nodes)
    BY <2>1 DEF Stores, Lists
  <2>3. store.selected = None => Pool = {}
    BY <2>1 DEF Stores, Pool, IdsOf
  <2>4. QED
    BY <2>1, <2>2, <2>3 DEF PoolSound, Distinct
<1>2. QED
  BY <1>1, InitInv, Inductive, PTL DEF Spec

\* What a node shows as measured was measured through that node, as long as
\* nothing swayed: a job that died between Popen and owner.json leaves a process
\* the jobs adopt for the node they are about, and on Linux a second process may
\* be recorded over the first, a click may come between a batch's choice and its
\* record, or the benchmark of the method credit another node.
THEOREM ProofAlwaysOwn == Spec => []ProofIsOwn
<1>1. IInv => ProofIsOwn
  <2> SUFFICES ASSUME IInv, swayed = FALSE PROVE ProofIsOwn
    BY DEF IInv, Shape, ProofIsOwn
  <2>1. store.nodes \in Seq(Honest)
    BY SoundStore DEF IInv, Kind, Lists
  <2>2. \A k \in DOMAIN store.nodes : store.nodes[k] \in Honest
    BY <2>1
  <2>3. QED
    BY <2>2 DEF Honest, ProofIsOwn
<1>2. QED
  BY <1>1, InitInv, Inductive, PTL DEF Spec

-----------------------------------------------------------------------------
(* The way back of a batch on Linux *)

\* Edits that overlap are noted in the worker's hand.
Noted ==
    /\ Busy("worker") /\ Busy("window") => hand["worker"].stale
    /\ hand["worker"].renamed => hand["worker"].stale

\* The last edit of a batch selects what was selected before, and unless it is
\* noted as overlapped, nobody takes its temporary file away.
GoingBack ==
    job.kind = "batch" /\ job.pc = "saving" /\ job.next = "end" /\ ~hand["worker"].stale =>
      /\ hand["worker"].pc \in {"read", "open"} =>
           /\ hand["worker"].op.what = "select" /\ hand["worker"].op.id = job.original
           /\ CanEdit(hand["worker"].op, hand["worker"].copy)
      /\ hand["worker"].pc = "filled" => tmp # NoText /\ tmp.selected = job.original

RInv == IInv /\ Noted /\ GoingBack

LEMMA TextIsStore == ASSUME NEW h \in BOOLEAN, NEW s \in Stores(Kind(h)) PROVE s # NoText
<1>1. Kind(h) \subseteq Records
  BY DEF Kind, Honest
<1>2. s \in [selected : Ids \cup {None}, nodes : Seq(Records)]
  <2>1. /\ s \in [selected : Ids \cup {None}, nodes : Lists(Kind(h))]
        /\ Lists(Kind(h)) \subseteq Seq(Kind(h)) /\ Seq(Kind(h)) \subseteq Seq(Records)
    BY <1>1, SeqMonotonic DEF Stores, Lists
  <2>2. QED
    BY <2>1
<1>3. QED
  BY <1>2, TextAssumption

-----------------------------------------------------------------------------
LEMMA TakeNoted == ASSUME IInv, Noted, NEW t \in Threads, NEW op, Take(t, op) PROVE Noted'
<1>1. /\ \A u \in Threads : u # t => hand'[u].renamed = hand[u].renamed
      /\ hand'[t].renamed = FALSE
  BY TakeFacts DEF IInv
<1>2. /\ hand'[t].stale = (\E u \in Threads \ {t} : Busy(u))
      /\ \A u \in Threads \ {t} : Busy(u)' = Busy(u) /\ hand'[u].stale = Busy(u)
  BY StaleFacts DEF IInv
<1>3. hand["worker"].renamed => Busy("worker")
  BY DEF IInv, Shape, Busy, Threads
<1>4. QED
  BY <1>1, <1>2, <1>3 DEF Noted, Threads

LEMMA SaveNoted == ASSUME IInv, Noted, NEW op, NEW j, Save(op, j) PROVE Noted'
<1>1. CASE Windows
  BY <1>1 DEF Save, Noted, Busy
<1>2. CASE ~Windows
  BY <1>2, TakeNoted DEF Save, Threads
<1>3. QED
  BY <1>1, <1>2

LEMMA NotedStep == ASSUME IInv, Noted, [Next]_vars PROVE Noted'
<1>1. CASE UNCHANGED hand
  BY <1>1 DEF Noted, Busy
<1>2. ASSUME NEW op, NEW j, Save(op, j) PROVE Noted'
  BY <1>2, SaveNoted
<1>3. CASE Click
  BY <1>3, TakeNoted DEF Click, Threads
<1>4. ASSUME NEW t \in Threads, Open(t) \/ Fill(t) \/ Publish(t) PROVE Noted'
  <2>0. hand[t].pc # "free" /\ Shape
    BY <1>4 DEF Open, Fill, Publish, IInv
  <2>1. CASE Released(t)
    BY <2>0, <2>1 DEF Released, Noted, Busy, Threads, FreeHand
  <2>2. CASE ~Released(t)
    <3>1. \/ hand' = [hand EXCEPT ![t].pc = "open"]
          \/ hand' = [hand EXCEPT ![t] = [FreeHand EXCEPT !.pc = "filled", !.stale = hand[t].stale]]
      BY <1>4, <2>0, <2>2, ReleasedFacts DEF Open, Fill, Publish, GiveUp
    <3>2. /\ \A u \in Threads \ {t} : hand'[u] = hand[u]
          /\ hand'[t].pc # "free" /\ hand'[t].stale = hand[t].stale
          /\ hand'[t].renamed => hand[t].renamed
      BY <2>0, <3>1 DEF Shape, FreeHand, HandFields
    <3>3. QED
      BY <2>0, <3>2 DEF Noted, Busy, Threads
  <2>3. QED
    BY <2>1, <2>2
<1>5. CASE Killed
  BY <1>5 DEF Killed, Noted, Busy, Threads, FreeHand
<1>6. CASE EditJob \/ SelectOrMark
  BY <1>2, <1>6 DEF EditJob, SelectOrMark
<1>7. CASE UseSelected \/ Preflight \/ LinuxSelected \/ UsePool
  BY <1>1, <1>7 DEF UseSelected, Preflight, LinuxSelected, UsePool, Files
<1>8. CASE CountryShard \/ TryNext
  BY <1>1, <1>2, <1>8 DEF CountryShard, TryNext, Files
<1>9. CASE Tested \/ WrongCountry
  BY <1>1, <1>2, <1>9 DEF Tested, WrongCountry, Files
<1>a. CASE ConnectFails
  BY <1>1, <1>2, <1>a, ConnectFailsMoves DEF Files
<1>10. CASE Measured \/ Restore
  BY <1>1, <1>2, <1>10 DEF Measured, Restore, Files
<1>11. CASE Rank \/ StopRefused \/ NoneLeft \/ Connected \/ Beside \/ Measure \/ MeasureRaises
  BY <1>1, <1>11 DEF Rank, StopRefused, NoneLeft, Connected, Beside, Measure, MeasureRaises, Files
<1>12. CASE \/ StopMeasured \/ Finish \/ FinishRaises \/ JobEnds \/ StopNode \/ ProviderExits
            \/ UNCHANGED vars
  BY <1>1, <1>12
     DEF StopMeasured, Finish, FinishRaises, JobEnds, StopNode, ProviderExits, Files, vars
<1>13. QED
  BY <1>3, <1>4, <1>5, <1>6, <1>7, <1>8, <1>9, <1>a, <1>10, <1>11, <1>12 DEF Next

\* A step that does not begin the last edit of a job, and does not end a batch
\* but by a stop that raises.
Elsewhere ==
    /\ job.kind = "batch" /\ job.pc # "finish" => job'.pc # "end"
    /\ job'.pc = "saving" => job'.next # "end"

LEMMA SavedElsewhere ==
  ASSUME IInv, Linux, NEW op, NEW j \in Jobs, Save(op, j), j.pc # "end"
  PROVE  Elsewhere
<1>1. job' = [j EXCEPT !.pc = "saving", !.next = j.pc]
  BY Platforms DEF Save, IInv
<1>2. QED
  BY <1>1 DEF Elsewhere, Jobs

\* What a job does on Linux before it goes back.
LEMMA BeforeBack ==
  ASSUME IInv, Linux,
         \/ CountryShard \/ Rank \/ TryNext \/ StopRefused \/ NoneLeft \/ Connected \/ Beside
         \/ ConnectFails \/ Tested \/ WrongCountry \/ Measure \/ MeasureRaises \/ Measured
         \/ StopMeasured \/ Finish \/ FinishRaises
  PROVE  Elsewhere
<1>0. Shape /\ job \in Jobs /\ ~Windows /\ job.todo \subseteq Ids
  BY Platforms DEF IInv, Shape, Jobs
<1>1. ASSUME NEW pc \in {"rank", "next", "finish", "restore", "end"}, Goto(pc),
             pc = "end" => job.kind # "batch"
      PROVE  Elsewhere
  BY <1>0, <1>1 DEF Goto, Jobs, Elsewhere
<1>2. \A pc \in {"rank", "next", "stop", "finish"} :
         /\ [job EXCEPT !.pc = pc] \in Jobs /\ [job EXCEPT !.pc = pc].pc = pc
         /\ [job EXCEPT !.pc = pc, !.through = None] \in Jobs
         /\ [job EXCEPT !.pc = pc, !.through = None].pc = pc
  BY <1>0 DEF Jobs, Steps
<1>3. CASE CountryShard
  BY <1>1, <1>2, <1>3, SavedElsewhere DEF CountryShard
<1>4. CASE Rank
  BY <1>0, <1>4 DEF Rank, Jobs, Elsewhere
<1>5. CASE TryNext
  <2>1. PICK id \in job.todo : Save(Op("select", id, <<>>),
                                    [job EXCEPT !.pc = "connect", !.node = id, !.todo = @ \ {id}])
    BY <1>5 DEF TryNext
  <2> DEFINE j == [job EXCEPT !.pc = "connect", !.node = id, !.todo = @ \ {id}]
  <2>2. j \in Jobs /\ j.pc = "connect"
    <3>1. id \in Ids /\ job.todo \ {id} \in SUBSET Ids
      BY <1>0
    <3>2. QED
      BY <1>0, <3>1 DEF Jobs, Steps
  <2>3. Save(Op("select", id, <<>>), j)
    BY <2>1
  <2> HIDE DEF j
  <2>4. QED
    BY <2>2, <2>3, SavedElsewhere
<1>6. CASE NoneLeft
  <2>1. job' = Raised(job) /\ job.pc = "next"
    BY <1>6 DEF NoneLeft
  <2>2. PICK x \in {"finish", "end"} :
           /\ job' = [job EXCEPT !.pc = x, !.todo = {}, !.node = None, !.through = None]
           /\ job.kind = "batch" => x = "finish"
    BY <2>1 DEF Raised
  <2>3. job'.pc = x
    BY <1>0, <2>2 DEF Jobs
  <2>4. QED
    BY <2>2, <2>3 DEF Elsewhere
<1>7. CASE Connected
  <2>1. PICK x \in {"measure", "end"} :
           /\ job' = [job EXCEPT !.through = None, !.pc = x]
           /\ job.kind = "batch" => x = "measure"
    BY <1>0, <1>7 DEF Connected
  <2>2. job'.pc = x
    BY <1>0, <2>1 DEF Jobs
  <2>3. QED
    BY <2>1, <2>2 DEF Elsewhere
<1>8. CASE ConnectFails
  BY <1>1, <1>2, <1>8, ConnectFailsMoves, SavedElsewhere
<1>9. CASE Measure
  BY <1>0, <1>9 DEF Measure, Jobs, Elsewhere
<1>10. CASE Measured
  <2>1. PICK x \in {"stop", "finish"} :
           \/ Goto("finish")
           \/ Save(Op("perf", Credited, job.through), [job EXCEPT !.pc = x, !.through = None])
    BY <1>10 DEF Measured
  <2>2. QED
    BY <1>1, <1>2, <2>1, SavedElsewhere
<1>11. CASE StopMeasured \/ Finish
  BY <1>1, <1>11 DEF StopMeasured, Finish
<1>11a. CASE FinishRaises \/ Beside
  BY <1>0, <1>11a DEF FinishRaises, Beside, Goto, Jobs, Elsewhere
<1>12. ~(StopRefused \/ MeasureRaises \/ Tested \/ WrongCountry)
  BY <1>0 DEF StopRefused, MeasureRaises, Tested, WrongCountry, IInv, LinuxCourse
<1>13. QED
  BY <1>3, <1>4, <1>5, <1>6, <1>7, <1>8, <1>9, <1>10, <1>11, <1>11a, <1>12

SelectedBack ==
    Linux /\ job.kind = "batch" /\ job.pc \notin {"end", "finish"} /\ job'.pc = "end" =>
      \/ store'.selected = job.original
      \/ job.original \notin IdsOf(store'.nodes)
      \/ hand["worker"].stale

\* The last edit of a batch is begun, on a copy that has the user's node.
LEMMA RestoreBack == ASSUME IInv, Linux, Restore PROVE GoingBack' /\ SelectedBack
<1>0. /\ Shape /\ Sound /\ job \in Jobs /\ ~Windows /\ job.pc = "restore" /\ "worker" \in Threads
      /\ store.selected \in Pool \cup {None} /\ Pool \subseteq Ids
  BY SoundStore, Platforms DEF IInv, Shape, Restore, Threads
<1>1. CASE GoesBack
  <2> DEFINE j == [job EXCEPT !.pc = "end"]
  <2>1. j \in Jobs /\ j.pc = "end" /\ j.original = job.original /\ j.kind = job.kind
    BY <1>0 DEF Jobs, Steps
  <2>2. Save(Op("select", job.original, <<>>), j)
    BY <1>1 DEF Restore
  <2> HIDE DEF j
  <2>3. PICK op : op = Op("select", job.original, <<>>) /\ op.what = "select" /\ op.id = job.original
    BY OpFacts
  <2>4. /\ job' = [j EXCEPT !.pc = "saving", !.next = j.pc] /\ Take("worker", op)
    BY <1>0, <2>2, <2>3 DEF Save
  <2>5. job'.pc = "saving" /\ job'.original = job.original
    BY <2>1, <2>4 DEF Jobs
  <2>6. hand'["worker"].pc = "read" /\ hand'["worker"].op = op /\ hand'["worker"].copy = store
    BY <1>0, <2>4, TakeFacts
  <2>7. CanEdit(op, store)
    BY <1>1, <2>3 DEF CanEdit, GoesBack, Pool
  <2>8. GoingBack'
    <3>1. CanEdit(hand'["worker"].op, hand'["worker"].copy)
      BY <2>6, <2>7
    <3>2. QED
      BY <2>3, <2>5, <2>6, <3>1 DEF GoingBack, CanEdit
  <2>9. QED
    BY <2>5, <2>8 DEF SelectedBack
<1>2. CASE ~GoesBack
  <2>1. job' = [job EXCEPT !.pc = "end"] /\ UNCHANGED store
    BY <1>2 DEF Restore, Goto, Files
  <2>2. job'.pc = "end"
    BY <1>0, <2>1 DEF Jobs
  <2>3. job.kind = "batch" => job.original \notin Pool
    BY <1>0, <1>2, PoolAssumption DEF GoesBack
  <2>4. QED
    BY <2>1, <2>2, <2>3 DEF GoingBack, SelectedBack, Pool
<1>3. QED
  BY <1>1, <1>2

\* An edit of either thread goes on, is saved or fails.
LEMMA HandBack ==
  ASSUME RInv, NEW t \in Threads, Open(t) \/ Fill(t) \/ Publish(t) PROVE GoingBack' /\ SelectedBack
<1>0. /\ hand[t].pc # "free" /\ Busy(t) /\ Shape /\ Sound /\ Linux /\ job \in Jobs
      /\ t \in {"worker", "window"} /\ "worker" \in Threads
      /\ job.pc = "saving" <=> Busy("worker")
      /\ t = "worker" => job.pc = "saving"
      /\ t = "window" /\ Busy("worker") => hand["worker"].stale
      /\ hand["worker"].renamed => hand["worker"].stale
      /\ swayed \in BOOLEAN
  BY BusyFacts DEF RInv, IInv, Alone, Open, Fill, Publish, Busy, Noted, Shape
<1>3. CASE t = "window"
  <2>1. job' = job
    BY <1>3, <1>0 DEF Open, Fill, Publish, GiveUp
  <2>2. hand'["worker"].stale = hand["worker"].stale
    <3>1. CASE Released(t)
      BY <1>0, <1>3, <3>1 DEF Released
    <3>2. CASE ~Released(t)
      <4>1. \/ hand' = [hand EXCEPT ![t].pc = "open"]
            \/ hand' = [hand EXCEPT ![t] = [FreeHand EXCEPT !.pc = "filled", !.stale = hand[t].stale]]
        BY <1>0, <3>2, ReleasedFacts DEF Open, Fill, Publish, GiveUp
      <4>2. QED
        BY <1>0, <1>3, <4>1 DEF Shape
    <3>3. QED
      BY <3>1, <3>2
  <2>3. job.pc = "saving" => hand'["worker"].stale
    BY <1>0, <1>3, <2>2
  <2>4. QED
    BY <2>1, <2>3 DEF GoingBack, SelectedBack
<1>4. ASSUME t = "worker", job' = Raised([job EXCEPT !.pc = job.next]),
             ~(job.kind = "batch" /\ job.next = "end" /\ ~hand["worker"].stale)
      PROVE  GoingBack' /\ SelectedBack
  <2> DEFINE k == [job EXCEPT !.pc = job.next]
  <2>1. k \in Jobs /\ k.pc = job.next /\ k.kind = job.kind
    BY <1>0 DEF Jobs, Steps
  <2>2. job' = Raised(k)
    BY <1>4
  <2> HIDE DEF k
  <2>3. PICK y \in {"finish", "end"} :
           /\ job' = [k EXCEPT !.pc = y, !.todo = {}, !.node = None, !.through = None]
           /\ k.kind = "batch" /\ y = "end" => k.pc = "end"
    BY <2>2 DEF Raised
  <2>4. job'.pc = y
    BY <2>1, <2>3 DEF Jobs
  <2>5. QED
    BY <1>4, <2>1, <2>3, <2>4 DEF GoingBack, SelectedBack
<1>5. CASE t = "worker" /\ Open(t)
  <2>1. CASE CanEdit(hand[t].op, hand[t].copy)
    <3>1. job' = job /\ hand[t].pc = "read" /\ hand' = [hand EXCEPT ![t].pc = "open"]
      BY <1>5, <2>1 DEF Open
    <3>2. /\ hand'[t].pc = "open" /\ hand'[t].stale = hand[t].stale
          /\ hand'[t].op = hand[t].op /\ hand'[t].copy = hand[t].copy
      BY <1>0, <3>1 DEF Shape, HandFields
    <3>3. CanEdit(hand[t].op, hand[t].copy)' <=> CanEdit(hand[t].op, hand[t].copy)
      BY <3>2 DEF CanEdit
    <3>4. GoingBack'
      BY <1>0, <1>5, <3>1, <3>2, <3>3 DEF RInv, GoingBack
    <3>5. QED
      BY <1>0, <3>1, <3>4 DEF SelectedBack
  <2>2. CASE ~CanEdit(hand[t].op, hand[t].copy)
    <3>1. job' = Raised([job EXCEPT !.pc = job.next]) /\ hand[t].pc = "read"
      BY <1>5, <2>2 DEF Open, GiveUp
    <3>2. QED
      BY <1>0, <1>4, <1>5, <2>2, <3>1 DEF RInv, GoingBack
  <2>3. QED
    BY <2>1, <2>2
<1>5a. CASE t = "worker" /\ Fill(t)
  <2>1. PICK text \in Stores(Kind(~swayed)) :
           /\ \/ hand[t].renamed /\ store' = text /\ tmp' = tmp
              \/ ~hand[t].renamed /\ tmp' = text /\ store' = store
           /\ (~hand[t].renamed /\ \A u \in Threads \ {t} : ~Busy(u)) =>
                /\ text = Edited(hand[t].op, hand[t].copy)
                /\ hand[t].op.what = "select" => text.selected = hand[t].op.id
    BY <1>5a, Filled DEF RInv
  <2>2. /\ job' = job /\ hand[t].pc = "open"
        /\ hand' = [hand EXCEPT ![t] = [FreeHand EXCEPT !.pc = "filled", !.stale = hand[t].stale]]
    BY <1>5a DEF Fill
  <2>3. hand'[t].pc = "filled" /\ hand'[t].stale = hand[t].stale
    BY <1>0, <2>2 DEF Shape, FreeHand
  <2>4. PICK h \in BOOLEAN : h = ~swayed
    OBVIOUS
  <2>5. text # NoText
    BY <2>1, <2>4, TextIsStore
  <2>6. ASSUME job.kind = "batch", job.next = "end", ~hand["worker"].stale
        PROVE  tmp' # NoText /\ tmp'.selected = job.original
    <3>1. PICK op, c : op = hand[t].op /\ c = hand[t].copy
      OBVIOUS
    <3>2. /\ op.what = "select" /\ op.id = job.original /\ CanEdit(op, c)
          /\ ~hand[t].renamed /\ \A u \in Threads \ {t} : ~Busy(u)
      BY <1>0, <1>5a, <2>2, <2>6, <3>1 DEF RInv, GoingBack, Noted, Threads
    <3>3. QED
      BY <2>1, <2>5, <3>1, <3>2
  <2>7. GoingBack'
    BY <1>0, <1>5a, <2>2, <2>3, <2>6 DEF GoingBack
  <2>8. QED
    BY <1>0, <2>2, <2>7 DEF SelectedBack
<1>6. CASE t = "worker" /\ Publish(t)
  <2>1. CASE tmp # NoText
    <3>1. store' = tmp /\ job' = [job EXCEPT !.pc = job.next] /\ hand[t].pc = "filled"
      BY <1>6, <2>1 DEF Publish
    <3>2. job'.pc = job.next /\ job.next # "saving"
      BY <1>0, <3>1 DEF Jobs, Steps
    <3>3. QED
      BY <1>0, <1>6, <2>1, <3>1, <3>2 DEF RInv, GoingBack, SelectedBack
  <2>2. CASE tmp = NoText
    <3>1. job' = Raised([job EXCEPT !.pc = job.next]) /\ hand[t].pc = "filled"
      BY <1>6, <2>2 DEF Publish, GiveUp
    <3>2. QED
      BY <1>0, <1>4, <1>6, <2>2, <3>1 DEF RInv, GoingBack
  <2>3. QED
    BY <2>1, <2>2
<1>7. QED
  BY <1>0, <1>3, <1>5, <1>5a, <1>6

LEMMA BackStep == ASSUME RInv, [Next]_vars PROVE GoingBack' /\ SelectedBack
<1>0. /\ IInv /\ IInv' /\ Shape /\ (Linux <=> ~Windows)
  BY Inductive, Platforms DEF RInv, IInv
<1>1. CASE Windows
  <2>1. Windows'
    <3>1. CASE UNCHANGED vars
      BY <1>1, <3>1 DEF vars, Windows
    <3>2. CASE Next
      BY <1>1, <3>2, PlatformKept DEF Windows
    <3>3. QED
      BY <3>1, <3>2
  <2>2. job'.pc # "saving"
    BY <1>0, <2>1 DEF IInv, Alone, Busy, Threads
  <2>3. QED
    BY <1>0, <1>1, <2>2 DEF GoingBack, SelectedBack
<1>2. CASE Linux /\ [Next]_vars
  <2>1. ASSUME NEW t \in Threads, Open(t) \/ Fill(t) \/ Publish(t) PROVE GoingBack' /\ SelectedBack
    BY <2>1, HandBack
  <2>2. CASE Restore
    BY <1>0, <1>2, <2>2, RestoreBack
  <2>3. ASSUME Elsewhere PROVE GoingBack' /\ SelectedBack
    BY <2>3 DEF Elsewhere, GoingBack, SelectedBack
  <2>4. CASE \/ CountryShard \/ Rank \/ TryNext \/ StopRefused \/ NoneLeft \/ Connected \/ Beside
             \/ ConnectFails \/ Tested \/ WrongCountry \/ Measure \/ MeasureRaises \/ Measured
             \/ StopMeasured \/ Finish \/ FinishRaises
    BY <1>0, <1>2, <2>3, <2>4, BeforeBack
  <2>5. CASE EditJob
    <3>1. PICK op : Save(op, Start("edit", "end")) /\ job = Idle
      BY <2>5 DEF EditJob, MayStart
    <3>2. job' = [Start("edit", "end") EXCEPT !.pc = "saving", !.next = Start("edit", "end").pc]
      BY <1>0, <1>2, <3>1 DEF Save
    <3>3. Start("edit", "end") \in Jobs /\ Start("edit", "end").kind = "edit"
      BY <1>0, SoundStore, StartFacts DEF IInv, JobKinds, Steps
    <3>4. job'.kind = "edit" /\ job.kind = "none"
      BY <3>1, <3>2, <3>3, IdleFacts DEF Jobs
    <3>5. QED
      BY <3>4 DEF GoingBack, SelectedBack
  <2>6. CASE SelectOrMark \/ UseSelected \/ Preflight
    BY <1>0, <1>2, <2>6 DEF SelectOrMark, UseSelected, Preflight
  <2>7. CASE LinuxSelected \/ UsePool
    <3>1. PICK kind \in JobKinds, pc \in {"connect", "measure", "rank", "country"} :
             job' = Start(kind, pc) /\ job = Idle
      BY <1>0, <1>2, <2>7 DEF LinuxSelected, UsePool, MayStart, JobKinds
    <3>2. job'.pc = pc /\ job.kind = "none"
      BY <1>0, <3>1, SoundStore, StartFacts, IdleFacts DEF IInv, Steps
    <3>3. QED
      BY <3>2 DEF GoingBack, SelectedBack
  <2>8. CASE JobEnds \/ Killed
    BY <2>8, IdleFacts DEF JobEnds, Killed, GoingBack, SelectedBack
  <2>9. CASE StopNode \/ ProviderExits \/ UNCHANGED vars
    BY <2>9 DEF StopNode, ProviderExits, vars, Files, RInv, GoingBack, SelectedBack, CanEdit
  <2>10. CASE Click
    <3>1. PICK op : Take("window", op) /\ job' = job
      BY <2>10 DEF Click
    <3>2. UNCHANGED tmp /\ (Busy("worker") => hand'["worker"].stale)
      BY <1>0, <3>1, StaleFacts DEF Take, Threads
    <3>3. job.pc = "saving" => Busy("worker")
      BY <1>0 DEF IInv, Alone
    <3>4. QED
      BY <3>1, <3>2, <3>3 DEF GoingBack, SelectedBack
  <2>11. QED
    BY <1>2, <2>1, <2>2, <2>4, <2>5, <2>6, <2>7, <2>8, <2>9, <2>10 DEF Next
<1>3. QED
  BY <1>0, <1>1, <1>2

\* A batch on Linux ends with the user's node selected again, whatever failed
\* on the way and whatever was clicked meanwhile, unless its last edit
\* overlapped one of the window or the stop before it raised.
THEOREM SelectionAlwaysRestored == Spec => SelectionRestored
<1>1. Init => RInv
  <2> SUFFICES ASSUME Init PROVE RInv
    OBVIOUS
  <2>1. IInv
    BY InitInv
  <2>2. Noted /\ GoingBack
    BY IdleFacts DEF Init, Noted, GoingBack, Busy, Threads, FreeHand
  <2>3. QED
    BY <2>1, <2>2 DEF RInv
<1>2. RInv /\ [Next]_vars => RInv'
  BY Inductive, NotedStep, BackStep DEF RInv
<1>3. RInv /\ [Next]_vars => [SelectedBack]_vars
  BY BackStep
<1>4. QED
  BY <1>1, <1>2, <1>3, PTL DEF Spec, SelectionRestored, SelectedBack

-----------------------------------------------------------------------------
(* The marks: what merges and refreshes keep *)

HasMark(q, id) == \E k \in DOMAIN q : q[k].id = id /\ q[k].marked

\* The second list of two joined comes after the first.
LEMMA JoinedAfter ==
  ASSUME NEW N \in Kinds, NEW q \in Lists(N), NEW r \in Lists(N), IdsOf(q) \cap IdsOf(r) = {}
  PROVE  /\ \A k \in DOMAIN r : Len(q) + k \in DOMAIN (q \o r) /\ (q \o r)[Len(q) + k] = r[k]
         /\ IdsOf(q \o r) = IdsOf(q) \cup IdsOf(r)
<1>1. /\ q \in Seq(N) /\ Len(q) \in Nat /\ r \in Seq(N) /\ Len(r) \in Nat /\ DOMAIN r = 1..Len(r)
  BY ListFacts
<1>2. /\ q \o r \in Seq(N) /\ Len(q \o r) = Len(q) + Len(r)
      /\ \A k \in 1..Len(q) + Len(r) : (q \o r)[k] = IF k <= Len(q) THEN q[k] ELSE r[k - Len(q)]
  BY <1>1, ConcatProperties
<1>3. ASSUME NEW k \in DOMAIN r
      PROVE  Len(q) + k \in DOMAIN (q \o r) /\ (q \o r)[Len(q) + k] = r[k]
  <2>1. k \in Nat /\ k > 0 /\ k <= Len(r)
    BY <1>1
  <2>2. Len(q) + k \in 1..Len(q) + Len(r) /\ ~(Len(q) + k <= Len(q)) /\ (Len(q) + k) - Len(q) = k
    BY <1>1, <2>1
  <2>3. DOMAIN (q \o r) = 1..Len(q) + Len(r)
    BY <1>1, <1>2
  <2>4. QED
    BY <1>2, <2>2, <2>3
<1>4. ASSUME NEW k \in DOMAIN (q \o r) PROVE (q \o r)[k].id \in IdsOf(q) \cup IdsOf(r)
  <2>1. \/ k \in DOMAIN q /\ (q \o r)[k] = q[k]
        \/ k - Len(q) \in DOMAIN r /\ (q \o r)[k] = r[k - Len(q)]
    BY <1>1, <1>2
  <2>2. QED
    BY <2>1 DEF IdsOf
<1>5. \A k \in DOMAIN q : k \in DOMAIN (q \o r) /\ (q \o r)[k] = q[k]
  BY Joined
<1>6. IdsOf(q \o r) = IdsOf(q) \cup IdsOf(r)
  <2>1. IdsOf(q \o r) \subseteq IdsOf(q) \cup IdsOf(r)
    <3>1. ASSUME NEW id \in IdsOf(q \o r) PROVE id \in IdsOf(q) \cup IdsOf(r)
      <4>1. PICK k \in DOMAIN (q \o r) : id = (q \o r)[k].id
        BY DEF IdsOf
      <4>2. QED
        BY <1>4, <4>1
    <3>2. QED
      BY <3>1
  <2>2. IdsOf(q) \subseteq IdsOf(q \o r)
    BY <1>5 DEF IdsOf
  <2>3. IdsOf(r) \subseteq IdsOf(q \o r)
    BY <1>3 DEF IdsOf
  <2>4. QED
    BY <2>1, <2>2, <2>3
<1>7. QED
  BY <1>3, <1>6

\* A merge keeps the marks of what was there, and those of what it adds as far
\* as the limit allows.
LEMMA MergeKeeps ==
  ASSUME NEW N \in Kinds, NEW e \in Lists(N), NEW inc \in Lists(N), Len(e) <= MaxNodes
  PROVE  /\ \A id : HasMark(e, id) => HasMark(Merge(e, inc), id)
         /\ \A k \in DOMAIN inc :
               inc[k].marked /\ inc[k].id \notin IdsOf(e) /\ Len(e) + k <= MaxNodes =>
                  HasMark(Merge(e, inc), inc[k].id)
         /\ \A k \in DOMAIN e : k \in DOMAIN Merge(e, inc) /\ Merge(e, inc)[k].id = e[k].id
                                /\ Merge(e, inc)[k].marked = e[k].marked
<1> DEFINE g == [k \in DOMAIN e |-> IF e[k].id \in IdsOf(inc)
                                    THEN Updated(e[k], NodeOf(inc, e[k].id)) ELSE e[k]]
           S == {k \in DOMAIN inc : inc[k].id \notin IdsOf(e)}
           new == Those(inc, S)
<1>1. /\ e \in Seq(N) /\ Distinct(e) /\ Len(e) \in Nat /\ DOMAIN e = 1..Len(e)
      /\ \A k \in DOMAIN e : e[k] \in N
      /\ \A id \in IdsOf(inc) : NodeOf(inc, id) \in N /\ NodeOf(inc, id).id = id
      /\ inc \in Seq(N) /\ Len(inc) \in Nat /\ DOMAIN inc = 1..Len(inc)
  BY ListFacts
<1>2. \A k \in DOMAIN e : g[k] \in N /\ g[k].id = e[k].id
  BY <1>1, KindFacts
<1>3. \A k \in DOMAIN e : g[k].marked = e[k].marked
  <2> SUFFICES ASSUME NEW k \in DOMAIN e PROVE g[k].marked = e[k].marked
    OBVIOUS
  <2>1. CASE e[k].id \in IdsOf(inc)
    <3>1. PICK n \in N : n = NodeOf(inc, e[k].id)
      BY <1>1, <2>1
    <3>2. PICK o \in Records : o = e[k]
      BY <1>1, KindFacts
    <3>3. n \in Records
      BY KindFacts
    <3>4. Updated(o, n).marked = o.marked
      BY <3>3 DEF Updated, Records
    <3>5. QED
      BY <2>1, <3>1, <3>2, <3>4
  <2>2. QED
    BY <2>1
<1>4. g \in [DOMAIN e -> N]
  BY <1>2
<1>5. g \in Lists(N) /\ Len(g) = Len(e) /\ DOMAIN g = DOMAIN e /\ IdsOf(g) = IdsOf(e)
  BY <1>1, <1>2, <1>4, Mapped
<1>6. new \in Lists(N) /\ \A id \in IdsOf(new) : \E k \in S : id = inc[k].id
  BY Chosen
<1>7. IdsOf(g) \cap IdsOf(new) = {}
  BY <1>5, <1>6
<1>8. \A i \in S : \E k \in DOMAIN new : k <= i /\ new[k] = inc[i]
  <2>1. S \in SUBSET DOMAIN inc
    OBVIOUS
  <2> HIDE DEF S
  <2>2. QED
    BY <1>1, <2>1, ThoseKept
<1>9. Merge(e, inc) = Cut(g \o new)
  BY DEF Merge
<1>10. \A k \in DOMAIN e : g[k].id = e[k].id /\ g[k].marked = e[k].marked
  BY <1>2, <1>3
<1>11. S = {k \in DOMAIN inc : inc[k].id \notin IdsOf(e)}
  OBVIOUS
<1> HIDE DEF g, new, S
<1>12. /\ g \o new \in Lists(N)
       /\ \A k \in DOMAIN g : k \in DOMAIN (g \o new) /\ (g \o new)[k] = g[k]
       /\ \A k \in DOMAIN new : Len(e) + k \in DOMAIN (g \o new) /\ (g \o new)[Len(e) + k] = new[k]
  BY <1>5, <1>6, <1>7, Joined, JoinedAfter
<1>13. \A k \in DOMAIN (g \o new) : k <= MaxNodes =>
            k \in DOMAIN Merge(e, inc) /\ Merge(e, inc)[k] = (g \o new)[k]
  BY <1>9, <1>12, CutFacts
<1>14. \A k \in DOMAIN e : /\ k \in DOMAIN Merge(e, inc) /\ Merge(e, inc)[k].id = e[k].id
                           /\ Merge(e, inc)[k].marked = e[k].marked
  <2> SUFFICES ASSUME NEW k \in DOMAIN e
               PROVE  /\ k \in DOMAIN Merge(e, inc) /\ Merge(e, inc)[k].id = e[k].id
                      /\ Merge(e, inc)[k].marked = e[k].marked
    OBVIOUS
  <2>1. k <= MaxNodes
    BY <1>1, PoolAssumption
  <2>2. Merge(e, inc)[k] = g[k] /\ k \in DOMAIN Merge(e, inc)
    BY <1>5, <1>12, <1>13, <2>1
  <2>3. QED
    BY <1>10, <2>2
<1>15. \A id : HasMark(e, id) => HasMark(Merge(e, inc), id)
  BY <1>14 DEF HasMark
<1>16. ASSUME NEW i \in DOMAIN inc, inc[i].marked, inc[i].id \notin IdsOf(e), Len(e) + i <= MaxNodes
       PROVE  HasMark(Merge(e, inc), inc[i].id)
  <2>1. PICK k \in DOMAIN new : k <= i /\ new[k] = inc[i]
    BY <1>8, <1>11, <1>16
  <2>2. k \in Nat /\ i \in Nat
    BY <1>1, <1>6, ListFacts
  <2>3. Len(e) + k <= MaxNodes
    BY <1>1, <1>16, <2>1, <2>2, PoolAssumption
  <2>4. Len(e) + k \in DOMAIN Merge(e, inc) /\ Merge(e, inc)[Len(e) + k] = inc[i]
    BY <1>12, <1>13, <2>1, <2>3
  <2>5. QED
    BY <1>16, <2>4 DEF HasMark
<1>17. QED
  BY <1>14, <1>15, <1>16

\* A merge that the limit did not cut.
LEMMA MergeUncut ==
  ASSUME NEW N \in Kinds, NEW e \in Lists(N), NEW inc \in Lists(N),
         Len(Merge(e, inc)) < MaxNodes
  PROVE  Len(e) <= MaxNodes /\ IdsOf(Merge(e, inc)) \subseteq IdsOf(e) \cup IdsOf(inc)
<1> DEFINE g == [k \in DOMAIN e |-> IF e[k].id \in IdsOf(inc)
                                    THEN Updated(e[k], NodeOf(inc, e[k].id)) ELSE e[k]]
           S == {k \in DOMAIN inc : inc[k].id \notin IdsOf(e)}
           new == Those(inc, S)
<1>1. /\ e \in Seq(N) /\ Distinct(e) /\ Len(e) \in Nat /\ DOMAIN e = 1..Len(e)
      /\ \A k \in DOMAIN e : e[k] \in N
      /\ \A id \in IdsOf(inc) : NodeOf(inc, id) \in N /\ NodeOf(inc, id).id = id
  BY ListFacts
<1>2. \A k \in DOMAIN e : g[k] \in N /\ g[k].id = e[k].id
  BY <1>1, KindFacts
<1>3. g \in [DOMAIN e -> N]
  BY <1>2
<1>4. g \in Lists(N) /\ Len(g) = Len(e) /\ IdsOf(g) = IdsOf(e)
  BY <1>1, <1>2, <1>3, Mapped
<1>5. new \in Lists(N) /\ \A id \in IdsOf(new) : \E k \in S : id = inc[k].id
  BY Chosen
<1>6. IdsOf(g) \cap IdsOf(new) = {} /\ IdsOf(new) \subseteq IdsOf(inc)
  BY <1>4, <1>5 DEF IdsOf
<1>7. Merge(e, inc) = Cut(g \o new)
  BY DEF Merge
<1> HIDE DEF g, new, S
<1>8. /\ g \o new \in Lists(N) /\ Len(g \o new) = Len(e) + Len(new)
      /\ IdsOf(g \o new) = IdsOf(e) \cup IdsOf(new)
  <2>1. g \o new \in Lists(N) /\ Len(g \o new) = Len(g) + Len(new)
    BY <1>4, <1>5, <1>6, Joined
  <2>2. IdsOf(g \o new) = IdsOf(g) \cup IdsOf(new)
    BY <1>4, <1>5, <1>6, JoinedAfter
  <2>3. QED
    BY <1>4, <2>1, <2>2
<1>9. /\ Len(g \o new) \in Nat /\ DOMAIN (g \o new) = 1..Len(g \o new) /\ g \o new \in Seq(N)
      /\ Len(new) \in Nat
  BY <1>5, <1>8, ListFacts
<1>10. /\ Merge(e, inc) \in Seq(N)
       /\ \A k \in DOMAIN Merge(e, inc) : k \in DOMAIN (g \o new) /\ Merge(e, inc)[k] = (g \o new)[k]
       /\ \A k \in DOMAIN (g \o new) : k <= MaxNodes => k \in DOMAIN Merge(e, inc)
  <2> DEFINE q == g \o new
  <2>1. q \in Seq(N) /\ Merge(e, inc) = Cut(q)
    BY <1>7, <1>9
  <2> HIDE DEF q
  <2>2. /\ Cut(q) \in Seq(N)
        /\ \A k \in DOMAIN Cut(q) : k \in DOMAIN q /\ Cut(q)[k] = q[k]
        /\ \A k \in DOMAIN q : k <= MaxNodes => k \in DOMAIN Cut(q)
    BY <2>1, CutPlaces
  <2>3. QED
    BY <2>1, <2>2 DEF q
<1>11. MaxNodes \in Nat /\ MaxNodes > 0
  BY PoolAssumption
<1>12. MaxNodes \notin DOMAIN Merge(e, inc)
  BY <1>10, <1>11
<1>13. Len(g \o new) < MaxNodes
  BY <1>9, <1>10, <1>11, <1>12
<1>14. IdsOf(Merge(e, inc)) \subseteq IdsOf(g \o new)
  BY <1>10 DEF IdsOf
<1>15. QED
  BY <1>1, <1>6, <1>8, <1>9, <1>11, <1>13, <1>14

\* What a user marked is still there under its link, or is what the edit
\* unmarks.
HasLink(q, link) == \E k \in DOMAIN q : q[k].marked /\ Raw[q[k].id] = link

KeptBy(s, s2) ==
    \A k \in DOMAIN s.nodes :
       s.nodes[k].marked =>
          HasLink(s2.nodes, Raw[s.nodes[k].id]) \/ s2 = Mark(s, s.nodes[k].id)

LEMMA MarkIsLink ==
  ASSUME NEW q, NEW id, HasMark(q, id)
  PROVE  HasLink(q, Raw[id])
  BY DEF HasMark, HasLink

\* A node found by its id is the one in the list.
LEMMA FoundAgain ==
  ASSUME NEW N \in Kinds, NEW q \in Lists(N), NEW k \in DOMAIN q
  PROVE  q[k].id \in IdsOf(q) /\ NodeOf(q, q[k].id) = q[k]
<1>1. Distinct(q) /\ q[k].id \in IdsOf(q)
  BY ListFacts
<1>2. (CHOOSE i \in DOMAIN q : q[i].id = q[k].id) = k
  BY <1>1 DEF Distinct
<1>3. QED
  BY <1>1, <1>2 DEF NodeOf

LEMMA ChangedKeeps ==
  ASSUME NEW s, NEW id, NEW m,
         \A k \in DOMAIN s.nodes : s.nodes[k].id = id => m.id = id /\ m.marked = s.nodes[k].marked,
         s = [selected |-> s.selected, nodes |-> s.nodes]
  PROVE  KeptBy(s, Changed(s, id, m))
<1> DEFINE g == [k \in DOMAIN s.nodes |-> IF s.nodes[k].id = id THEN m ELSE s.nodes[k]]
<1>1. Changed(s, id, m) = [selected |-> s.selected, nodes |-> g]
  BY DEF Changed
<1>2. \A k \in DOMAIN s.nodes : g[k].id = s.nodes[k].id /\ g[k].marked = s.nodes[k].marked
  OBVIOUS
<1>3. DOMAIN g = DOMAIN s.nodes
  OBVIOUS
<1> HIDE DEF g
<1>4. Changed(s, id, m).nodes = g
  BY <1>1
<1>5. QED
  BY <1>2, <1>3, <1>4 DEF KeptBy, HasLink

LEMMA ImportKeeps ==
  ASSUME NEW N \in Kinds, NEW s \in Stores(N), NEW inc \in Lists(N)
  PROVE  KeptBy(s, Import(s, inc))
<1>1. s.nodes \in Lists(N) /\ Len(s.nodes) <= MaxNodes
  BY StoreFacts
<1>2. \A id : HasMark(s.nodes, id) => HasMark(Merge(s.nodes, inc), id)
  BY <1>1, MergeKeeps
<1>3. Import(s, inc).nodes = Merge(s.nodes, inc)
  BY DEF Import
<1>4. ASSUME NEW k \in DOMAIN s.nodes, s.nodes[k].marked
      PROVE  HasLink(Import(s, inc).nodes, Raw[s.nodes[k].id])
  <2>1. HasMark(s.nodes, s.nodes[k].id)
    BY <1>4 DEF HasMark
  <2>2. QED
    BY <1>2, <1>3, <2>1, MarkIsLink
<1>5. QED
  BY <1>4 DEF KeptBy

\* A marked node among those that are taken keeps its mark.
LEMMA TakenMarks ==
  ASSUME NEW N \in Kinds, NEW q \in Lists(N), NEW S \in SUBSET DOMAIN q,
         NEW k \in S, q[k].marked
  PROVE  HasMark(Those(q, S), q[k].id)
<1>1. q \in Seq(N)
  BY ListFacts
<1>2. PICK i \in DOMAIN Those(q, S) : Those(q, S)[i] = q[k]
  BY <1>1, ThoseKept
<1>3. QED
  BY <1>2 DEF HasMark

LEMMA RefreshLinuxKeeps ==
  ASSUME NEW N \in Kinds, NEW s \in Stores(N), NEW inc \in Lists(N)
  PROVE  KeptBy(s, RefreshLinux(s, inc))
<1> DEFINE T == {k \in DOMAIN s.nodes : s.nodes[k].source \notin Sources \/ s.nodes[k].marked}
           e == Those(s.nodes, T)
<1>0. /\ T \in SUBSET DOMAIN s.nodes /\ \A k \in DOMAIN s.nodes : s.nodes[k].marked => k \in T
      /\ RefreshLinux(s, inc) = Reselected(s, Merge(e, inc))
  BY DEF RefreshLinux
<1> HIDE DEF T
<1>1. s.nodes \in Lists(N) /\ Len(s.nodes) <= MaxNodes
  BY StoreFacts
<1>2. e \in Lists(N) /\ Len(e) <= Len(s.nodes) /\ Len(e) \in Nat /\ Len(s.nodes) \in Nat
  BY <1>0, <1>1, Chosen, ListFacts
<1>3. Len(e) <= MaxNodes
  BY <1>1, <1>2, PoolAssumption
<1>4. \A id : HasMark(e, id) => HasMark(Merge(e, inc), id)
  BY <1>2, <1>3, MergeKeeps
<1>5. RefreshLinux(s, inc).nodes = Merge(e, inc)
  BY <1>0 DEF Reselected
<1>6. ASSUME NEW k \in DOMAIN s.nodes, s.nodes[k].marked
      PROVE  HasLink(RefreshLinux(s, inc).nodes, Raw[s.nodes[k].id])
  <2>1. HasMark(e, s.nodes[k].id)
    BY <1>0, <1>1, <1>6, TakenMarks
  <2>2. QED
    BY <1>4, <1>5, <2>1, MarkIsLink
<1>7. QED
  BY <1>6 DEF KeptBy

\* A country shard goes first, and takes the place of marks only when the pool
\* is full.
LEMMA CountryKeeps ==
  ASSUME NEW N \in Kinds, NEW s \in Stores(N), NEW inc \in Lists(N),
         Len(RefreshCountry(s, inc).nodes) # MaxNodes
  PROVE  KeptBy(s, RefreshCountry(s, inc))
<1> DEFINE S == {k \in DOMAIN inc : inc[k].id \in IdsOf(s.nodes)}
           known == Those(inc, S)
           olds == [k \in DOMAIN known |-> NodeOf(s.nodes, known[k].id)]
           fresh == Merge(olds, inc)
           T == {k \in DOMAIN s.nodes : s.nodes[k].id \notin IdsOf(fresh)}
           kept == Those(s.nodes, T)
           both == fresh \o kept
<1>1. s.nodes \in Lists(N)
  BY StoreFacts
<1>0. /\ S \in SUBSET DOMAIN inc /\ \A i \in S : inc[i].id \in IdsOf(s.nodes)
      /\ \A i \in DOMAIN inc : inc[i].id \in IdsOf(s.nodes) => i \in S
      /\ T \in SUBSET DOMAIN s.nodes /\ \A i \in T : s.nodes[i].id \notin IdsOf(fresh)
      /\ \A i \in DOMAIN s.nodes : s.nodes[i].id \notin IdsOf(fresh) => i \in T
      /\ RefreshCountry(s, inc) = Reselected(s, Cut(both))
  BY DEF RefreshCountry
<1> HIDE DEF S, T
<1>2. /\ known \in Lists(N) /\ \A k \in DOMAIN known : \E i \in S : known[k] = inc[i]
      /\ \A i \in S : \E k \in DOMAIN known : known[k] = inc[i]
  <2>1. inc \in Seq(N)
    BY ListFacts
  <2>2. \A i \in S : \E k \in DOMAIN known : known[k] = inc[i]
    BY <1>0, <2>1, ThoseKept
  <2>3. QED
    BY <1>0, <2>2, Chosen
<1>3. known \in Seq(N) /\ Distinct(known)
  BY <1>2, ListFacts
<1>4. \A k \in DOMAIN known : olds[k] \in N /\ olds[k].id = known[k].id
  BY <1>0, <1>1, <1>2, ListFacts
<1>5. olds \in Lists(N) /\ DOMAIN olds = DOMAIN known
  <2>1. olds \in [DOMAIN known -> N]
    BY <1>4
  <2>2. QED
    BY <1>3, <1>4, <2>1, Mapped
<1>6. fresh \in Lists(N)
  BY <1>5, Merged
<1>7. kept \in Lists(N) /\ \A id \in IdsOf(kept) : \E k \in T : id = s.nodes[k].id
  BY <1>0, <1>1, Chosen
<1>8. IdsOf(fresh) \cap IdsOf(kept) = {}
  BY <1>0, <1>7
<1>9. /\ both \in Lists(N) /\ Len(both) = Len(fresh) + Len(kept)
      /\ \A k \in DOMAIN fresh : k \in DOMAIN both /\ both[k] = fresh[k]
      /\ \A k \in DOMAIN kept : Len(fresh) + k \in DOMAIN both /\ both[Len(fresh) + k] = kept[k]
  BY <1>6, <1>7, <1>8, Joined, JoinedAfter
<1>10. \A k \in DOMAIN known : olds[k] = NodeOf(s.nodes, known[k].id)
  OBVIOUS
<1> HIDE DEF known, olds
<1>12. RefreshCountry(s, inc).nodes = Cut(both) /\ Len(Cut(both)) # MaxNodes
  BY <1>0 DEF Reselected
<1>13. /\ Len(both) < MaxNodes /\ Len(fresh) < MaxNodes
       /\ \A k \in DOMAIN both : k \in DOMAIN Cut(both) /\ Cut(both)[k] = both[k]
  <2> HIDE DEF both, fresh, kept
  <2>1. /\ both \in Seq(N) /\ Len(both) \in Nat /\ DOMAIN both = 1..Len(both)
        /\ Len(fresh) \in Nat /\ Len(kept) \in Nat
    BY <1>6, <1>7, <1>9, ListFacts
  <2>2. /\ Cut(both) \in Seq(N) /\ Len(Cut(both)) <= MaxNodes
        /\ \A k \in DOMAIN Cut(both) : k \in DOMAIN both /\ Cut(both)[k] = both[k]
        /\ \A k \in DOMAIN both : k <= MaxNodes => k \in DOMAIN Cut(both)
    BY <2>1, CutPlaces
  <2>3. MaxNodes \in Nat /\ MaxNodes > 0
    BY PoolAssumption
  <2>4. MaxNodes \notin DOMAIN Cut(both)
    BY <1>12, <2>2, <2>3
  <2>5. Len(both) < MaxNodes
    BY <2>1, <2>2, <2>3, <2>4
  <2>6. QED
    BY <1>9, <2>1, <2>2, <2>3, <2>5
<1>14. Len(olds) <= MaxNodes /\ IdsOf(fresh) \subseteq IdsOf(olds) \cup IdsOf(inc)
  BY <1>5, <1>13, MergeUncut
<1>15. \A id : HasMark(olds, id) => HasMark(fresh, id)
  BY <1>5, <1>14, MergeKeeps
<1>16. IdsOf(olds) \subseteq IdsOf(inc)
  BY <1>0, <1>2, <1>4, <1>5 DEF IdsOf
<1> HIDE DEF fresh, kept, both
<1>17. \A id : HasMark(fresh, id) => HasMark(Cut(both), id)
  BY <1>9, <1>13 DEF HasMark
<1>18. \A id : HasMark(kept, id) => HasMark(Cut(both), id)
  BY <1>9, <1>13 DEF HasMark
<1>19. ASSUME NEW k \in DOMAIN s.nodes, s.nodes[k].marked
       PROVE  HasMark(Cut(both), s.nodes[k].id)
  <2>1. CASE s.nodes[k].id \in IdsOf(fresh)
    <3>1. PICK i \in DOMAIN inc : inc[i].id = s.nodes[k].id
      BY <1>14, <1>16, <2>1 DEF IdsOf
    <3>2. s.nodes[k].id \in IdsOf(s.nodes) /\ NodeOf(s.nodes, s.nodes[k].id) = s.nodes[k]
      BY <1>1, FoundAgain
    <3>3. PICK j \in DOMAIN known : known[j] = inc[i]
      BY <1>0, <1>2, <3>1, <3>2
    <3>4. j \in DOMAIN olds /\ olds[j] = s.nodes[k]
      BY <1>5, <1>10, <3>1, <3>2, <3>3
    <3>5. HasMark(olds, s.nodes[k].id)
      BY <1>19, <3>4 DEF HasMark
    <3>6. QED
      BY <1>15, <1>17, <3>5
  <2>2. CASE s.nodes[k].id \notin IdsOf(fresh)
    <3>1. k \in T
      BY <1>0, <2>2
    <3>2. HasMark(kept, s.nodes[k].id)
      BY <1>0, <1>1, <1>19, <3>1, TakenMarks DEF kept
    <3>3. QED
      BY <1>18, <3>2
  <2>3. QED
    BY <2>1, <2>2
<1>20. QED
  BY <1>12, <1>19, MarkIsLink DEF KeptBy

\* The old node that a node of the current parser stands for, by its place.
Place(old, n) ==
    IF n.id \in IdsOf(old) THEN CHOOSE k \in DOMAIN old : old[k].id = n.id
    ELSE CHOOSE k \in Legacy(old, n) : \A j \in Legacy(old, n) : j <= k

LEMMA PlaceFacts ==
  ASSUME NEW N \in Kinds, NEW old \in Lists(N), NEW n,
         n.id \in IdsOf(old) \/ Legacy(old, n) # {}
  PROVE  /\ Place(old, n) \in DOMAIN old
         /\ n.id \in IdsOf(old) => old[Place(old, n)].id = n.id
         /\ n.id \notin IdsOf(old) => /\ Raw[old[Place(old, n)].id] = Raw[n.id]
                                      /\ old[Place(old, n)] = LegacyOf(old, n)
<1>1. CASE n.id \in IdsOf(old)
  <2>1. \E k \in DOMAIN old : old[k].id = n.id
    BY <1>1 DEF IdsOf
  <2>2. QED
    BY <1>1, <2>1 DEF Place
<1>2. CASE n.id \notin IdsOf(old)
  <2>1. Len(old) \in Nat /\ DOMAIN old = 1..Len(old)
    BY ListFacts
  <2>2. Legacy(old, n) \in SUBSET DOMAIN old /\ Legacy(old, n) # {}
        /\ \A k \in Legacy(old, n) : Raw[old[k].id] = Raw[n.id]
    BY <1>2 DEF Legacy
  <2>3. \E k \in Legacy(old, n) : \A j \in Legacy(old, n) : j <= k
    BY <2>1, <2>2, LastPlace
  <2>4. Place(old, n) = (CHOOSE k \in Legacy(old, n) : \A j \in Legacy(old, n) : j <= k)
    BY <1>2 DEF Place
  <2>5. Place(old, n) \in Legacy(old, n)
    BY <2>3, <2>4
  <2>6. LegacyOf(old, n) = old[Place(old, n)]
    BY <2>4 DEF LegacyOf
  <2>7. QED
    BY <1>2, <2>2, <2>5, <2>6
<1>3. QED
  BY <1>1, <1>2

\* A match carries the mark of the old node.
LEMMA MatchFacts ==
  ASSUME NEW N \in Kinds, NEW old \in Lists(N), NEW n \in N,
         n.id \in IdsOf(old) \/ Legacy(old, n) # {}
  PROVE  Match(old, n).id = n.id /\ Match(old, n).marked = old[Place(old, n)].marked
<1>1. CASE n.id \in IdsOf(old)
  <2>1. Place(old, n) \in DOMAIN old /\ old[Place(old, n)].id = n.id
    BY <1>1, PlaceFacts
  <2>2. NodeOf(old, n.id) = old[Place(old, n)]
    BY <2>1, FoundAgain
  <2>3. Match(old, n) = NodeOf(old, n.id)
    BY <1>1 DEF Match
  <2>4. QED
    BY <2>1, <2>2, <2>3
<1>2. CASE n.id \notin IdsOf(old)
  <2>1. old[Place(old, n)] = LegacyOf(old, n)
    BY <1>2, PlaceFacts
  <2>2. Match(old, n) = [n EXCEPT !.marked = LegacyOf(old, n).marked]
    BY <1>2 DEF Match
  <2>3. n \in Records
    BY KindFacts
  <2>4. QED
    BY <2>1, <2>2, <2>3 DEF Records
<1>3. QED
  BY <1>1, <1>2

Current(q) == \A k \in DOMAIN q : q[k].id \notin Outdated

\* A refresh matches no old node twice, and none that it keeps beside the
\* matches: both together have room.
LEMMA MatchesHaveRoom ==
  ASSUME NEW N \in Kinds, NEW old \in Lists(N), NEW inc \in Lists(N), Current(inc),
         NEW S \in SUBSET DOMAIN inc,
         \A i \in S : inc[i].id \in IdsOf(old) \/ Legacy(old, inc[i]) # {},
         NEW T \in SUBSET DOMAIN old,
         \A k \in T : old[k].id \notin IdsOf(inc) \cup Migrated(old, inc)
  PROVE  Cardinality(T) + Cardinality(S) <= Len(old)
<1> DEFINE f == [i \in S |-> Place(old, inc[i])]
           G == DOMAIN old \ T
<1>1. /\ Len(old) \in Nat /\ DOMAIN old = 1..Len(old) /\ Distinct(inc)
      /\ \A i \in DOMAIN inc : inc[i].id \in Ids /\ inc[i].id \in IdsOf(inc)
  BY ListFacts
<1>2. /\ \A i \in S : f[i] \in DOMAIN old
      /\ \A i \in S : inc[i].id \in IdsOf(old) => old[f[i]].id = inc[i].id
      /\ \A i \in S : inc[i].id \notin IdsOf(old) => /\ Raw[old[f[i]].id] = Raw[inc[i].id]
                                                     /\ old[f[i]] = LegacyOf(old, inc[i])
  BY PlaceFacts
<1>3. \A i \in S : Raw[old[f[i]].id] = Raw[inc[i].id]
  BY <1>2
<1>4. ASSUME NEW a \in S, NEW b \in S, f[a] = f[b] PROVE a = b
  <2>1. Raw[inc[a].id] = Raw[inc[b].id]
    BY <1>3, <1>4
  <2>2. inc[a].id \in Ids \ Outdated /\ inc[b].id \in Ids \ Outdated
    BY <1>1 DEF Current
  <2>3. inc[a].id = inc[b].id
    BY <2>1, <2>2, PoolAssumption
  <2>4. QED
    BY <1>1, <2>3 DEF Distinct
<1>5. ASSUME NEW i \in S PROVE old[f[i]].id \in IdsOf(inc) \cup Migrated(old, inc)
  <2>1. CASE inc[i].id \in IdsOf(old)
    BY <1>1, <1>2, <2>1
  <2>2. CASE inc[i].id \notin IdsOf(old)
    <3>1. Legacy(old, inc[i]) # {} /\ old[f[i]] = LegacyOf(old, inc[i])
      BY <1>2, <2>2
    <3>2. QED
      BY <3>1 DEF Migrated
  <2>3. QED
    BY <2>1, <2>2
<1>6. \A i \in S : f[i] \in G
  BY <1>2, <1>5
<1>7. f \in Injection(S, G)
  <2>1. f \in [S -> G]
    BY <1>6
  <2>2. QED
    BY <1>4, <2>1, Fun_IsInj
<1>8. IsFiniteSet(DOMAIN old) /\ Cardinality(DOMAIN old) = Len(old)
  <2> DEFINE n == Len(old)
  <2>1. n \in Nat /\ DOMAIN old = 1..n
    BY <1>1
  <2> HIDE DEF n
  <2>2. IsFiniteSet(1..n) /\ Cardinality(1..n) = n
    BY <2>1, FS_Interval
  <2>3. QED
    BY <2>1, <2>2 DEF n
<1>9. IsFiniteSet(G) /\ IsFiniteSet(T)
  BY <1>8, FS_Subset
<1>10. Cardinality(S) <= Cardinality(G) /\ IsFiniteSet(S)
  BY <1>7, <1>9, FS_Injection
<1>11. Cardinality(DOMAIN old) = Cardinality(G) + Cardinality(T)
  <2>1. G \cup T = DOMAIN old /\ G \cap T = {}
    OBVIOUS
  <2> HIDE DEF G
  <2>2. Cardinality(G \cup T) = Cardinality(G) + Cardinality(T) - Cardinality(G \cap T)
    BY <1>9, FS_Union
  <2>3. Cardinality({}) = 0
    BY FS_EmptySet
  <2>4. Cardinality(G) \in Nat /\ Cardinality(T) \in Nat
    BY <1>9, FS_CardinalityType
  <2>5. Cardinality(DOMAIN old) = Cardinality(G) + Cardinality(T) - Cardinality({})
    BY <2>1, <2>2
  <2>6. QED
    BY <2>3, <2>4, <2>5
<1>12. Cardinality(G) \in Nat /\ Cardinality(T) \in Nat /\ Cardinality(S) \in Nat
  BY <1>9, <1>10, FS_CardinalityType
<1> HIDE DEF G
<1>13. QED
  BY <1>1, <1>8, <1>10, <1>11, <1>12

LEMMA RefreshWindowsKeeps ==
  ASSUME NEW N \in Kinds, NEW s \in Stores(N), NEW inc \in Lists(N), Current(inc), NEW ok
  PROVE  KeptBy(s, RefreshWindows(s, ok, inc))
<1> DEFINE old == s.nodes
           S == {k \in DOMAIN inc : inc[k].id \in IdsOf(old) \/ Legacy(old, inc[k]) # {}}
           hits == Those(inc, S)
           matches == Matching(old, inc)
           fresh == Merge(matches, inc)
           gone == IdsOf(inc) \cup Migrated(old, inc)
           T == {k \in DOMAIN old : LET n == old[k]
                                    IN n.id \notin gone /\ (n.source \notin ok \/ n.marked)}
           kept == Those(old, T)
           new == RefreshWindows(s, ok, inc)
<1>1. old \in Lists(N) /\ Len(old) <= MaxNodes /\ Len(old) \in Nat /\ inc \in Seq(N) /\ old \in Seq(N)
  BY StoreFacts, ListFacts
<1>2. /\ S \in SUBSET DOMAIN inc
      /\ \A i \in S : inc[i].id \in IdsOf(old) \/ Legacy(old, inc[i]) # {}
      /\ \A i \in DOMAIN inc : inc[i].id \in IdsOf(old) \/ Legacy(old, inc[i]) # {} => i \in S
  OBVIOUS
<1>3. /\ T \in SUBSET DOMAIN old /\ \A k \in T : old[k].id \notin gone
      /\ \A k \in DOMAIN old : old[k].id \notin gone /\ old[k].marked => k \in T
  OBVIOUS
<1>4. matches = [k \in DOMAIN hits |-> Match(old, hits[k])]
  BY DEF Matching
<1>5. new.nodes = Merge(kept, fresh)
  BY DEF RefreshWindows, Reselected
<1> HIDE DEF S, T, new
<1>6. Cardinality(T) + Cardinality(S) <= Len(old)
  BY <1>1, <1>2, <1>3, MatchesHaveRoom
<1>7. /\ hits \in Lists(N) /\ DOMAIN hits = 1..Cardinality(S) /\ Cardinality(S) \in Nat
      /\ \A i \in S : \E k \in DOMAIN hits : hits[k] = inc[i]
      /\ \A k \in DOMAIN hits : \E i \in S : hits[k] = inc[i]
  BY <1>1, <1>2, ThoseKept, Chosen
<1>8. kept \in Lists(N) /\ Len(kept) = Cardinality(T) /\ Cardinality(T) \in Nat
      /\ \A id \in IdsOf(kept) : \E k \in T : id = old[k].id
  BY <1>1, <1>3, ThoseKept, Chosen
<1>9. matches \in Lists(N) /\ DOMAIN matches = DOMAIN hits
  BY <1>1, <1>4, MatchingSound
<1>10. fresh \in Lists(N) /\ Len(matches) = Cardinality(S)
  BY <1>7, <1>9, Merged, ListFacts
<1>11. Len(kept) <= MaxNodes /\ Len(matches) <= MaxNodes /\ MaxNodes \in Nat
  BY <1>1, <1>6, <1>7, <1>8, <1>10, PoolAssumption
<1>12. \A k \in DOMAIN matches : /\ k \in DOMAIN fresh /\ fresh[k].id = matches[k].id
                                 /\ fresh[k].marked = matches[k].marked
  BY <1>9, <1>11, MergeKeeps
<1>13. ASSUME NEW i \in S
       PROVE  \E k \in DOMAIN matches : /\ matches[k].id = inc[i].id
                                        /\ matches[k].marked = old[Place(old, inc[i])].marked
  <2>1. PICK k \in DOMAIN hits : hits[k] = inc[i]
    BY <1>7
  <2>2. inc[i] \in N
    BY <1>1, <1>2
  <2>3. Match(old, inc[i]).id = inc[i].id
        /\ Match(old, inc[i]).marked = old[Place(old, inc[i])].marked
    BY <1>1, <1>2, <2>2, MatchFacts
  <2>4. k \in DOMAIN matches /\ matches[k] = Match(old, inc[i])
    BY <1>4, <1>9, <2>1
  <2>5. QED
    BY <2>3, <2>4
<1>14. /\ \A id : HasMark(kept, id) => HasMark(Merge(kept, fresh), id)
       /\ \A k \in DOMAIN fresh : fresh[k].marked /\ fresh[k].id \notin IdsOf(kept)
                                    /\ Len(kept) + k <= MaxNodes =>
             HasMark(Merge(kept, fresh), fresh[k].id)
  BY <1>8, <1>10, <1>11, MergeKeeps
<1> HIDE DEF hits, matches, fresh, kept
<1>15. ASSUME NEW i \in S, old[Place(old, inc[i])].marked
       PROVE  HasMark(Merge(kept, fresh), inc[i].id)
  <2>1. PICK k \in DOMAIN matches : /\ matches[k].id = inc[i].id
                                    /\ matches[k].marked = old[Place(old, inc[i])].marked
    BY <1>13
  <2>2. k \in DOMAIN fresh /\ fresh[k].id = inc[i].id /\ fresh[k].marked
    BY <1>12, <1>15, <2>1
  <2>3. Len(kept) + k <= MaxNodes
    BY <1>1, <1>6, <1>7, <1>8, <1>9, <1>11
  <2>4. inc[i].id \notin IdsOf(kept)
    <3>1. inc[i].id \in gone
      BY <1>2 DEF IdsOf
    <3>2. QED
      BY <1>3, <1>8, <3>1
  <2>5. QED
    BY <1>14, <2>2, <2>3, <2>4
<1>16. ASSUME NEW k \in DOMAIN old, old[k].marked
       PROVE  HasLink(new.nodes, Raw[old[k].id])
  <2>1. CASE old[k].id \notin gone
    <3>1. HasMark(kept, old[k].id)
      BY <1>1, <1>3, <1>16, <2>1, TakenMarks DEF kept
    <3>2. QED
      BY <1>5, <1>14, <3>1, MarkIsLink
  <2>2. CASE old[k].id \in IdsOf(inc)
    <3>1. PICK i \in DOMAIN inc : inc[i].id = old[k].id
      BY <2>2 DEF IdsOf
    <3>2. inc[i].id \in IdsOf(old) /\ i \in S
      BY <1>2, <3>1 DEF IdsOf
    <3>3. Place(old, inc[i]) \in DOMAIN old /\ old[Place(old, inc[i])].id = old[k].id
      BY <1>1, <3>1, <3>2, PlaceFacts
    <3>4. Place(old, inc[i]) = k
      BY <1>1, <3>3, ListFacts DEF Distinct
    <3>5. HasMark(Merge(kept, fresh), old[k].id)
      BY <1>15, <1>16, <3>1, <3>2, <3>4
    <3>6. QED
      BY <1>5, <3>5, MarkIsLink
  <2>3. CASE old[k].id \in Migrated(old, inc)
    <3>1. PICK i \in DOMAIN inc : Legacy(old, inc[i]) # {} /\ old[k].id = LegacyOf(old, inc[i]).id
      BY <2>3 DEF Migrated
    <3>2. inc[i].id \notin IdsOf(old) /\ i \in S
      BY <1>2, <3>1 DEF Legacy
    <3>3. /\ Place(old, inc[i]) \in DOMAIN old /\ old[Place(old, inc[i])] = LegacyOf(old, inc[i])
          /\ Raw[old[Place(old, inc[i])].id] = Raw[inc[i].id]
      BY <1>1, <3>1, <3>2, PlaceFacts
    <3>4. Place(old, inc[i]) = k
      BY <1>1, <3>1, <3>3, ListFacts DEF Distinct
    <3>5. HasMark(Merge(kept, fresh), inc[i].id) /\ Raw[inc[i].id] = Raw[old[k].id]
      BY <1>15, <1>16, <3>2, <3>3, <3>4
    <3>6. QED
      BY <1>5, <3>5, MarkIsLink
  <2>4. QED
    BY <2>1, <2>2, <2>3
<1>17. QED
  BY <1>16 DEF KeptBy, new

-----------------------------------------------------------------------------
(* The marks through the steps of both threads *)

\* Every edit keeps the marks: a refresh on Windows because the parser gives a
\* link one id, a country shard if it does not fill the pool.
LEMMA EditKeeps ==
  ASSUME NEW s \in Stores(Records), NEW op, OpOk(op, FALSE),
         op.what = "refresh" => Current(op.with),
         op.what = "country" => Len(Edited(op, s).nodes) # MaxNodes
  PROVE  KeptBy(s, Edited(op, s))
<1> DEFINE N == Records
<1>0. N \in Kinds /\ Lists(Honest) \subseteq Lists(N)
  BY KindOk DEF Kind, Kinds
<1>1. /\ s.nodes \in Lists(N) /\ s = [selected |-> s.selected, nodes |-> s.nodes]
      /\ \A k \in DOMAIN s.nodes : s.nodes[k] \in N /\ NodeOf(s.nodes, s.nodes[k].id) = s.nodes[k]
  BY <1>0, StoreFacts, ListFacts, FoundAgain
<1>2. CASE op.what = "select"
  <2>1. Edited(op, s) = [selected |-> op.id, nodes |-> s.nodes]
    BY <1>1, <1>2 DEF Edited
  <2>2. QED
    BY <2>1 DEF KeptBy, HasLink
<1>3. CASE op.what = "mark"
  <2>1. Edited(op, s) = Mark(s, op.id)
    BY <1>3 DEF Edited
  <2> DEFINE m == [NodeOf(s.nodes, op.id) EXCEPT !.marked = ~@]
             g == [k \in DOMAIN s.nodes |-> IF s.nodes[k].id = op.id THEN m ELSE s.nodes[k]]
  <2>2. Mark(s, op.id) = [selected |-> s.selected, nodes |-> g]
    BY <1>1 DEF Mark, Changed
  <2>3. \A k \in DOMAIN s.nodes : k \in DOMAIN g /\ (s.nodes[k].id # op.id => g[k] = s.nodes[k])
    OBVIOUS
  <2> HIDE DEF g
  <2>4. Mark(s, op.id).nodes = g
    BY <2>2
  <2>5. QED
    BY <2>1, <2>3, <2>4 DEF KeptBy, HasLink
<1>4. CASE op.what \in {"test", "perf"}
  <2> DEFINE n == NodeOf(s.nodes, op.id)
             m == IF op.what = "test" THEN [n EXCEPT !.test = op.with]
                                      ELSE [n EXCEPT !.perf = op.with]
  <2>1. Edited(op, s) = Changed(s, op.id, m)
    BY <1>4 DEF Edited, RecordTest, RecordPerf
  <2>2. ASSUME NEW k \in DOMAIN s.nodes, s.nodes[k].id = op.id
        PROVE  m.id = op.id /\ m.marked = s.nodes[k].marked
    <3>1. PICK o \in Records : o = s.nodes[k] /\ o = n
      BY <1>1, <2>2
    <3>2. m = IF op.what = "test" THEN [o EXCEPT !.test = op.with]
                                  ELSE [o EXCEPT !.perf = op.with]
      BY <3>1
    <3>3. m.id = o.id /\ m.marked = o.marked
      BY <3>2 DEF Records
    <3>4. QED
      BY <2>2, <3>1, <3>3
  <2> HIDE DEF m
  <2>3. QED
    BY <1>1, <2>1, <2>2, ChangedKeeps
<1>5. CASE op.what = "import"
  <2>1. op.with \in Lists(N) /\ Edited(op, s) = Import(s, op.with)
    BY <1>0, <1>5 DEF OpOk, Edited
  <2>2. QED
    BY <1>0, <2>1, ImportKeeps
<1>6. CASE op.what = "country"
  <2>1. op.with \in Lists(N) /\ Edited(op, s) = RefreshCountry(s, op.with)
    BY <1>0, <1>6 DEF OpOk, Edited
  <2>2. QED
    BY <1>0, <1>6, <2>1, CountryKeeps
<1>7. CASE op.what = "refresh"
  <2>1. op.with \in Lists(N) /\ Current(op.with)
        /\ Edited(op, s) \in {RefreshWindows(s, op.ok, op.with), RefreshLinux(s, op.with)}
    BY <1>0, <1>7 DEF OpOk, Edited
  <2>2. KeptBy(s, RefreshWindows(s, op.ok, op.with)) /\ KeptBy(s, RefreshLinux(s, op.with))
    BY <1>0, <2>1, RefreshWindowsKeeps, RefreshLinuxKeeps
  <2>3. QED
    BY <2>1, <2>2
<1>8. CASE op.what = "testall"
  <2>1. Edited(op, s) = s
    BY <1>8 DEF Edited, TestAll
  <2>2. QED
    BY <2>1 DEF KeptBy, HasLink
<1>9. QED
  BY <1>2, <1>3, <1>4, <1>5, <1>6, <1>7, <1>8 DEF OpOk

\* What a thread is about to write, unless it is noted as overlapped.
Followed ==
    \A t \in Threads : Busy(t) /\ ~hand[t].stale =>
       /\ \A u \in Threads \ {t} : ~Busy(u)
       /\ ~hand[t].renamed
       /\ hand[t].pc \in {"read", "open"} =>
            /\ hand[t].copy = store
            /\ hand[t].op.what # "country"
            /\ hand[t].op.what = "refresh" => Current(hand[t].op.with)
       /\ hand[t].pc = "filled" /\ tmp # NoText => KeptBy(store, tmp)

\* Only Windows asks for a shard.
NoShard == Linux => job.pc # "country"

MInv == IInv /\ Followed /\ NoShard

MarksStay ==
    \A k \in DOMAIN store.nodes :
       LET n == store.nodes[k]
       IN n.marked =>
             \/ \E m \in DOMAIN store'.nodes :
                   store'.nodes[m].marked /\ Raw[store'.nodes[m].id] = Raw[n.id]
             \/ store' = Mark(store, n.id)
             \/ job.pc = "country" /\ Len(store'.nodes) = MaxNodes
             \/ \E t \in Threads : hand[t].stale

LEMMA KeptStay ==
  ASSUME \/ store' = store \/ KeptBy(store, store')
         \/ job.pc = "country" /\ Len(store'.nodes) = MaxNodes
         \/ \E t \in Threads : hand[t].stale
  PROVE  MarksStay
  BY DEF KeptBy, HasLink, MarksStay

\* An edit as the jobs begin it.
Asked(op) ==
    /\ OpOk(op, FALSE)
    /\ op.what = "refresh" => Current(op.with)
    /\ op.what = "country" => Windows /\ job.pc = "country"

LEMMA StoreKind == ASSUME IInv PROVE store \in Stores(Records) /\ swayed \in BOOLEAN
  BY KindGrows DEF IInv, Shape, Sound, Kind

LEMMA TakeMarks ==
  ASSUME IInv, NEW t \in Threads, NEW op, Take(t, op), Asked(op), op.what # "country"
  PROVE  Followed' /\ store' = store
<1>1. /\ UNCHANGED <<store, tmp>> /\ DOMAIN hand' = Threads
      /\ hand'[t].pc = "read" /\ hand'[t].op = op /\ hand'[t].copy = store
      /\ hand'[t].renamed = FALSE
  BY TakeFacts DEF IInv
<1>2. /\ hand'[t].stale = (\E u \in Threads \ {t} : Busy(u))
      /\ \A u \in Threads \ {t} : Busy(u)' = Busy(u) /\ hand'[u].stale = Busy(u)
  BY StaleFacts DEF IInv
<1>3. QED
  BY <1>1, <1>2 DEF Followed, Asked

LEMMA SaveMarks ==
  ASSUME IInv, NEW op, NEW j, Save(op, j), Asked(op)
  PROVE  Followed' /\ MarksStay
<1>1. CASE Windows
  <2>1. store' = Edited(op, store) /\ hand' = hand /\ \A t \in Threads : ~Busy(t)
    BY <1>1 DEF Save, IInv, Alone
  <2>2. Followed'
    BY <2>1 DEF Followed, Busy
  <2>3. op.what = "country" /\ Len(Edited(op, store).nodes) = MaxNodes => MarksStay
    BY <2>1, KeptStay DEF Asked
  <2>4. \/ KeptBy(store, Edited(op, store))
        \/ op.what = "country" /\ Len(Edited(op, store).nodes) = MaxNodes
    BY StoreKind, EditKeeps DEF Asked
  <2>5. QED
    BY <2>1, <2>2, <2>3, <2>4, KeptStay
<1>2. CASE ~Windows
  <2>1. Take("worker", op) /\ op.what # "country"
    BY <1>2 DEF Save, Asked
  <2>2. QED
    BY <2>1, TakeMarks, KeptStay DEF Threads
<1>3. QED
  BY <1>1, <1>2

LEMMA HandMarks ==
  ASSUME MInv, NEW t \in Threads, Open(t) \/ Fill(t) \/ Publish(t)
  PROVE  Followed' /\ MarksStay
<1>0. DOMAIN hand = Threads /\ Busy(t) /\ IInv /\ Shape /\ Followed
  BY DEF MInv, IInv, Shape, Open, Fill, Publish, Busy
<1>1. ASSUME NEW u \in Threads \ {t}, Busy(u) PROVE hand[u].stale
  BY <1>0, <1>1 DEF Followed
<1>2. CASE Released(t) /\ UNCHANGED <<store, tmp>>
  <2>1. Followed'
    BY <1>1, <1>2 DEF Released, FreeHand, Followed, Busy
  <2>2. QED
    BY <1>2, <2>1, KeptStay
<1>3. CASE /\ hand[t].pc = "read" /\ store' = store /\ hand' = [hand EXCEPT ![t].pc = "open"]
  <2>1. \A u \in Threads \ {t} : hand'[u] = hand[u]
    BY <1>0, <1>3
  <2>2. /\ hand'[t].pc = "open" /\ hand'[t].stale = hand[t].stale /\ hand'[t].op = hand[t].op
        /\ hand'[t].copy = hand[t].copy /\ hand'[t].renamed = hand[t].renamed
    BY <1>0, <1>3 DEF Shape, HandFields
  <2>3. Followed'
    BY <1>0, <1>1, <1>3, <2>1, <2>2 DEF Followed, Busy
  <2>4. QED
    BY <1>3, <2>3, KeptStay
<1>4. CASE Fill(t)
  <2>1. PICK text \in Stores(Kind(~swayed)) :
           /\ \/ hand[t].renamed /\ store' = text /\ tmp' = tmp
              \/ ~hand[t].renamed /\ tmp' = text /\ store' = store
           /\ (~hand[t].renamed /\ \A u \in Threads \ {t} : ~Busy(u)) =>
                text = Edited(hand[t].op, hand[t].copy)
    BY <1>0, <1>4, Filled
  <2>2. /\ hand[t].pc = "open"
        /\ hand' = [hand EXCEPT ![t] = [FreeHand EXCEPT !.pc = "filled", !.stale = hand[t].stale]]
    BY <1>4 DEF Fill
  <2>3. \A u \in Threads \ {t} : hand'[u] = hand[u]
    BY <1>0, <2>2
  <2>4. hand'[t].pc = "filled" /\ hand'[t].stale = hand[t].stale /\ hand'[t].renamed = FALSE
    BY <1>0, <2>2 DEF FreeHand
  <2>5. ASSUME ~hand[t].stale PROVE KeptBy(store', tmp')
    <3>1. /\ hand[t].copy = store /\ hand[t].op.what # "country"
          /\ hand[t].op.what = "refresh" => Current(hand[t].op.with)
          /\ ~hand[t].renamed /\ \A u \in Threads \ {t} : ~Busy(u)
      BY <1>0, <2>2, <2>5 DEF Followed
    <3>2. OpOk(hand[t].op, FALSE) /\ CanEdit(hand[t].op, hand[t].copy)
      <4>1. /\ OpOk(hand[t].op, ~swayed) /\ swayed \in BOOLEAN
            /\ CanEdit(hand[t].op, hand[t].copy)
        BY <1>0, <2>2 DEF IInv, Shape, Sound
      <4>2. QED
        BY <4>1, KindGrows
    <3>3. tmp' = Edited(hand[t].op, store) /\ store' = store
      BY <2>1, <3>1
    <3>4. QED
      BY <1>0, <3>1, <3>2, <3>3, StoreKind, EditKeeps
  <2>6. Followed'
    BY <1>0, <1>1, <2>3, <2>4, <2>5 DEF Followed, Busy
  <2>7. CASE hand[t].stale
    BY <2>6, <2>7, KeptStay
  <2>8. CASE ~hand[t].stale
    BY <1>0, <2>1, <2>6, <2>8, KeptStay DEF Followed
  <2>9. QED
    BY <2>7, <2>8
<1>5. CASE /\ hand[t].pc = "filled" /\ tmp # NoText /\ store' = tmp /\ tmp' = NoText /\ Released(t)
  <2>1. Followed'
    BY <1>1, <1>5 DEF Released, FreeHand, Followed, Busy
  <2>2. hand[t].stale \/ KeptBy(store, store')
    BY <1>0, <1>5 DEF Followed
  <2>3. QED
    BY <2>1, <2>2, KeptStay
<1>6. QED
  BY <1>0, <1>2, <1>3, <1>4, <1>5, ReleasedFacts DEF Open, Publish, GiveUp

LEMMA NoShardStep == ASSUME MInv, [Next]_vars PROVE NoShard'
<1>0. /\ job \in Jobs /\ (Linux => job.pc # "country" /\ job.next # "country")
      /\ (Linux' <=> Linux) /\ (Linux <=> ~Windows)
  <2>1. platform' = platform
    BY PlatformKept DEF vars
  <2>2. QED
    BY <2>1, Platforms DEF MInv, IInv, Shape, LinuxCourse, NoShard
<1>1. CASE Windows
  BY <1>0, <1>1 DEF NoShard
<1> SUFFICES ASSUME Linux, ~Windows PROVE job'.pc # "country"
  BY <1>0, <1>1 DEF NoShard
<1>2. CASE UNCHANGED job
  BY <1>0, <1>2
<1>3. CASE \E t \in Threads : Open(t) \/ Fill(t) \/ Publish(t)
  <2>1. PICK t \in Threads : Open(t) \/ Fill(t) \/ Publish(t)
    BY <1>3
  <2>2. Raised([job EXCEPT !.pc = job.next]).pc \in {"finish", "end"}
    <3>1. [job EXCEPT !.pc = job.next] \in Jobs
      BY <1>0 DEF Jobs
    <3>2. QED
      BY <3>1, RaisedFacts
  <2>3. job' \in {job, [job EXCEPT !.pc = job.next], Raised([job EXCEPT !.pc = job.next])}
    BY <2>1 DEF Open, Fill, Publish, GiveUp
  <2>4. [job EXCEPT !.pc = job.next].pc = job.next
    BY <1>0 DEF Jobs
  <2>5. QED
    BY <1>0, <2>2, <2>3, <2>4
<1>4. ASSUME NEW op, NEW j \in Jobs, Save(op, j) PROVE job'.pc # "country"
  <2>1. job' = [j EXCEPT !.pc = "saving", !.next = j.pc]
    BY <1>4 DEF Save
  <2>2. QED
    BY <2>1 DEF Jobs
<1>5. \A kind \in JobKinds, pc \in Steps : Start(kind, pc) \in Jobs /\ Start(kind, pc).pc = pc
  BY SoundStore, StartFacts DEF MInv, IInv
<1>6. CASE EditJob
  <2>1. Start("edit", "end") \in Jobs
    BY <1>5 DEF JobKinds, Steps
  <2>2. QED
    BY <1>4, <1>6, <2>1 DEF EditJob
<1>7. CASE SelectOrMark \/ UseSelected \/ Preflight
  BY <1>7 DEF SelectOrMark, UseSelected, Preflight
<1>8. CASE LinuxSelected \/ UsePool
  BY <1>5, <1>8 DEF LinuxSelected, UsePool, JobKinds, Steps
<1>9. CASE CountryShard
  BY <1>0, <1>9 DEF CountryShard
<1>10. CASE TryNext
  <2>1. PICK id \in job.todo : \E op :
          Save(op, [job EXCEPT !.pc = "connect", !.node = id, !.todo = @ \ {id}])
    BY <1>10 DEF TryNext
  <2>2. [job EXCEPT !.pc = "connect", !.node = id, !.todo = @ \ {id}] \in Jobs
    BY <1>0 DEF Jobs, Steps
  <2>3. QED
    BY <1>4, <2>1, <2>2
<1>11. CASE Rank \/ Connected \/ Measure \/ StopMeasured \/ Finish \/ FinishRaises
  BY <1>0, <1>11 DEF Rank, Connected, Measure, StopMeasured, Finish, FinishRaises, Goto, Jobs
<1>12. CASE NoneLeft \/ StopRefused \/ MeasureRaises
  <2>1. job' = Raised(job)
    BY <1>12 DEF NoneLeft, StopRefused, MeasureRaises
  <2>2. QED
    BY <1>0, <2>1, RaisedFacts
<1>13. CASE ConnectFails
  <2>1. [job EXCEPT !.pc = "next"] \in Jobs
    BY <1>0 DEF Jobs, Steps
  <2>2. (\E op : Save(op, [job EXCEPT !.pc = "next"])) \/ \E pc \in {"finish", "end", "next"} : Goto(pc)
    BY <1>13, ConnectFailsMoves DEF MInv
  <2>3. QED
    BY <1>0, <1>4, <2>1, <2>2 DEF Goto, Jobs
<1>14. CASE Tested \/ WrongCountry
  BY <1>0, <1>14 DEF Tested, WrongCountry, MInv, IInv, LinuxCourse
<1>15. CASE Measured
  <2>1. PICK pc \in {"stop", "finish"} : pc = IF job.kind = "batch" THEN "stop" ELSE "finish"
    OBVIOUS
  <2>2. [job EXCEPT !.pc = pc, !.through = None] \in Jobs
    BY <1>0 DEF Jobs, Steps
  <2>3. \/ Goto("finish")
        \/ \E op : Save(op, [job EXCEPT !.pc = pc, !.through = None])
    BY <1>15, <2>1 DEF Measured
  <2>4. QED
    BY <1>0, <1>4, <2>2, <2>3 DEF Goto, Jobs
<1>15a. CASE Restore
  <2>1. [job EXCEPT !.pc = "end"] \in Jobs
    BY <1>0 DEF Jobs, Steps
  <2>2. Goto("end") \/ \E op : Save(op, [job EXCEPT !.pc = "end"])
    BY <1>15a DEF Restore
  <2>3. QED
    BY <1>0, <1>4, <2>1, <2>2 DEF Goto, Jobs
<1>16. CASE JobEnds \/ Killed
  BY <1>16, IdleFacts DEF JobEnds, Killed
<1>17. CASE Click \/ Beside \/ StopNode \/ ProviderExits \/ UNCHANGED vars
  BY <1>2, <1>17 DEF Click, Beside, StopNode, ProviderExits, vars
<1>18. QED
  BY <1>3, <1>6, <1>7, <1>8, <1>9, <1>10, <1>11, <1>12, <1>13, <1>14, <1>15, <1>15a, <1>16,
     <1>17 DEF Next

\* The lists that jobs ask to bring in come from the current parser.
LEMMA FeedCurrent == ASSUME NEW feed \in Feeds PROVE Current(Listed(feed))
<1>1. PICK m \in 1..MaxNodes : feed \in [1..m -> Ids \ Outdated]
  BY DEF Feeds, Seqs
<1>2. DOMAIN Listed(feed) = 1..m /\ \A k \in 1..m : Listed(feed)[k].id = feed[k]
  BY <1>1 DEF Listed, Node
<1>3. QED
  BY <1>1, <1>2 DEF Current

LEMMA MarkStep == ASSUME MInv, [Next]_vars PROVE Followed' /\ MarksStay
<1>0. IInv /\ Shape /\ Followed /\ job \in Jobs
  BY DEF MInv, IInv, Shape
<1>1. CASE UNCHANGED <<store, tmp, hand>>
  BY <1>0, <1>1, KeptStay DEF Followed, Busy
<1>2. ASSUME NEW op, NEW j, Save(op, j), Asked(op) PROVE Followed' /\ MarksStay
  BY <1>0, <1>2, SaveMarks
<1>3. ASSUME NEW what \in {"select", "mark", "test", "perf", "testall"}, NEW id,
             NEW with, what \in {"test", "perf"} => with \in Ids \cup {None}
      PROVE  Asked(Op(what, id, with))
  BY <1>3, OpFacts DEF Asked, OpOk
<1>4. CASE Click
  <2>1. PICK id \in Pool, what \in {"select", "mark"} : Take("window", Op(what, id, <<>>))
    BY <1>4 DEF Click
  <2>2. Op(what, id, <<>>).what # "country"
    BY OpFacts
  <2>3. QED
    BY <1>0, <1>3, <2>1, <2>2, TakeMarks, KeptStay DEF Threads
<1>5. CASE \E t \in Threads : Open(t) \/ Fill(t) \/ Publish(t)
  BY <1>5, HandMarks
<1>6. CASE EditJob
  <2>1. PICK feed \in Feeds :
          \/ Save(Op("import", None, Imported(feed)), Start("edit", "end"))
          \/ \E ok \in IF Windows THEN SUBSET Sources ELSE {Sources} :
                Save([Op("refresh", None, Listed(feed)) EXCEPT !.ok = ok], Start("edit", "end"))
          \/ Save(Op("testall", None, <<>>), Start("edit", "end"))
    BY <1>6 DEF EditJob
  <2>2. Imported(feed) \in Lists(Honest) /\ Listed(feed) \in Lists(Honest) /\ Current(Listed(feed))
    BY FeedFacts, FeedCurrent
  <2>3. CASE Save(Op("import", None, Imported(feed)), Start("edit", "end"))
    <3>1. Asked(Op("import", None, Imported(feed)))
      BY <2>2, OpFacts DEF Asked, OpOk
    <3>2. QED
      BY <1>2, <2>3, <3>1
  <2>4. ASSUME NEW ok, Save([Op("refresh", None, Listed(feed)) EXCEPT !.ok = ok], Start("edit", "end"))
        PROVE  Followed' /\ MarksStay
    <3> DEFINE op == [Op("refresh", None, Listed(feed)) EXCEPT !.ok = ok]
    <3>1. op.what = "refresh" /\ op.with = Listed(feed)
      BY DEF Op
    <3>2. Save(op, Start("edit", "end"))
      BY <2>4
    <3> HIDE DEF op
    <3>3. Asked(op)
      BY <2>2, <3>1 DEF Asked, OpOk
    <3>4. QED
      BY <1>2, <3>2, <3>3
  <2>5. CASE Save(Op("testall", None, <<>>), Start("edit", "end"))
    BY <1>2, <1>3, <2>5
  <2>6. QED
    BY <2>1, <2>3, <2>4, <2>5
<1>7. CASE SelectOrMark
  <2>1. PICK id \in Pool, what \in {"select", "mark"} : Save(Op(what, id, <<>>), Start("edit", "end"))
    BY <1>7 DEF SelectOrMark
  <2>2. QED
    BY <1>2, <1>3, <2>1
<1>8. CASE CountryShard
  <2>1. CASE UNCHANGED Files
    BY <1>1, <2>1 DEF Files
  <2>2. CASE ~ UNCHANGED Files
    <3>1. PICK feed \in Feeds : Save(Op("country", None, Shard(feed)), [job EXCEPT !.pc = "rank"])
      BY <1>8, <2>2 DEF CountryShard
    <3>2. Shard(feed) \in Lists(Honest) /\ job.pc = "country" /\ Windows
      BY <1>0, <1>8, FeedFacts, Platforms DEF CountryShard, MInv, NoShard
    <3>3. Asked(Op("country", None, Shard(feed)))
      BY <3>2, OpFacts DEF Asked, OpOk
    <3>4. QED
      BY <1>2, <3>1, <3>3
  <2>3. QED
    BY <2>1, <2>2
<1>9. CASE TryNext
  <2>1. PICK id, j : Save(Op("select", id, <<>>), j)
    BY <1>9 DEF TryNext
  <2>2. QED
    BY <1>2, <1>3, <2>1
<1>10. job.through \in Ids \cup {None}
  BY <1>0 DEF Jobs
<1>11. CASE Tested \/ WrongCountry
  <2>1. PICK with \in Ids \cup {None} : \/ UNCHANGED Files
                                        \/ \E j : Save(Op("test", job.node, with), j)
    BY <1>10, <1>11 DEF Tested, WrongCountry
  <2>2. QED
    BY <1>1, <1>2, <1>3, <2>1 DEF Files
<1>12. CASE ConnectFails
  <2>1. \/ UNCHANGED Files
        \/ \E what \in {"test", "perf"} : Save(Op(what, job.node, None), [job EXCEPT !.pc = "next"])
    BY <1>0, <1>12, ConnectFailsMoves
  <2>2. QED
    BY <1>1, <1>2, <1>3, <2>1 DEF Files
<1>13. CASE Measured
  <2>1. \/ UNCHANGED Files
        \/ \E j : Save(Op("perf", Credited, job.through), j)
    BY <1>13 DEF Measured
  <2>2. QED
    BY <1>1, <1>2, <1>3, <1>10, <2>1 DEF Files
<1>14. CASE Restore
  <2>1. UNCHANGED Files \/ \E j : Save(Op("select", job.original, <<>>), j)
    BY <1>14 DEF Restore
  <2>2. QED
    BY <1>1, <1>2, <1>3, <2>1 DEF Files
<1>15. CASE Killed
  BY <1>15, KeptStay DEF Killed, Followed, Busy, Threads, FreeHand
<1>16. CASE UseSelected \/ Preflight \/ LinuxSelected \/ UsePool
  BY <1>1, <1>16 DEF UseSelected, Preflight, LinuxSelected, UsePool, Files
<1>17. CASE Rank \/ StopRefused \/ NoneLeft \/ Connected \/ Beside \/ Measure \/ MeasureRaises
  BY <1>1, <1>17 DEF Rank, StopRefused, NoneLeft, Connected, Beside, Measure, MeasureRaises, Files
<1>18. CASE \/ StopMeasured \/ Finish \/ FinishRaises \/ JobEnds \/ StopNode \/ ProviderExits
            \/ UNCHANGED vars
  BY <1>1, <1>18
     DEF StopMeasured, Finish, FinishRaises, JobEnds, StopNode, ProviderExits, Files, vars
<1>19. QED
  BY <1>4, <1>5, <1>6, <1>7, <1>8, <1>9, <1>11, <1>12, <1>13, <1>14, <1>15, <1>16, <1>17, <1>18
     DEF Next

\* A link the user made a favorite or pinned stays in the pool, and stays so,
\* through every edit of both desktops: only the user, two edits at once, or a
\* country shard that fills the pool takes it back.
THEOREM MarksAlwaysKept == Spec => MarksKept
<1>1. Init => MInv
  <2> SUFFICES ASSUME Init PROVE MInv
    OBVIOUS
  <2>1. IInv
    BY InitInv
  <2>2. Followed /\ NoShard
    BY IdleFacts DEF Init, Followed, NoShard, Busy, Threads, FreeHand
  <2>3. QED
    BY <2>1, <2>2 DEF MInv
<1>2. MInv /\ [Next]_vars => MInv'
  BY Inductive, MarkStep, NoShardStep DEF MInv
<1>3. MInv /\ [Next]_vars => [MarksStay]_vars
  BY MarkStep
<1>4. QED
  BY <1>1, <1>2, <1>3, PTL DEF Spec, MarksKept, MarksStay
===============================================================================
