----------------------------- MODULE QueueFacts -----------------------------
(***************************************************************************)
(* What the proofs need of sequences and of numbers beyond the library: a  *)
(* first element of a set of naturals, from the well-foundedness of <, and *)
(* with it induction, stated for sets; and what the selections of QueueOps *)
(* return, for queues of any length: Keep picks in the order of the queue, *)
(* Take picks the most urgent. InOrder says of a sequence that every two   *)
(* elements are in a relation; adding, removing and keeping preserve it.   *)
(***************************************************************************)
EXTENDS QueueOps, TLAPS, WellFoundedInduction, FiniteSetTheorems, SequenceTheorems

(* A set of natural numbers that is not empty has a least element. *)
LEMMA LeastNat ==
  ASSUME NEW T, T \subseteq Nat, T # {}
  PROVE  \E x \in T : \A y \in T : x <= y
<1> DEFINE R == OpToRel(<, Nat)
<1>1. IsWellFoundedOn(R, Nat)
  BY NatLessThanWellFounded
<1>2. PICK x \in T : \A y \in T : ~ (<<y, x>> \in R)
  <2> HIDE DEF R
  <2>1. QED
    BY <1>1, WFMin
<1>3. \A y \in T : ~ (y < x)
  BY <1>2 DEF OpToRel
<1>4. QED
  BY <1>3

(* A set that holds 0 and the successor of each of its members is all of Nat. *)
LEMMA NatInductionOnSet ==
  ASSUME NEW T, 0 \in T, \A n \in Nat : n \in T => n + 1 \in T
  PROVE  Nat \subseteq T
<1> DEFINE Missing == Nat \ T
<1> SUFFICES ASSUME Missing # {} PROVE FALSE
  OBVIOUS
<1>1. PICK n \in Missing : \A m \in Missing : n <= m
  <2>1. Missing \subseteq Nat
    OBVIOUS
  <2> HIDE DEF Missing
  <2>2. QED
    BY <2>1, LeastNat
<1>2. n \in Nat \ {0} /\ n - 1 \in Nat /\ ~ (n <= n - 1)
  BY <1>1
<1>3. n - 1 \in T
  BY <1>1, <1>2
<1>4. QED
  BY <1>1, <1>2, <1>3

-----------------------------------------------------------------------------
\* t is what the first n elements of q leave of it when only those in S stay:
\* h says where each element of t is in q.
Picks(q, S, n, t, h) ==
  /\ h \in [1 .. Len(t) -> 1 .. n]
  /\ \A k, l \in 1 .. Len(t) : k < l => h[k] < h[l]
  /\ \A k \in 1 .. Len(t) : t[k] = q[h[k]] /\ q[h[k]] \in S
  /\ \A i \in 1 .. n : q[i] \in S => \E k \in 1 .. Len(t) : h[k] = i

\* The body of the function in Keep.
KeptStep(q, S, f, n) ==
  IF n = 0 THEN <<>>
  ELSE IF q[n] \in S THEN Append(f[n - 1], q[n])
  ELSE f[n - 1]

(* The function that Keep defines by recursion exists up to any n. *)
LEMMA KeptExists ==
  ASSUME NEW q, NEW S, NEW m \in Nat
  PROVE  \E f : f = [n \in 0 .. m |-> KeptStep(q, S, f, n)]
<1> DEFINE Body(f, n) == KeptStep(q, S, f, n)
           Exists(k) == \E f : f = [n \in 0 .. k |-> Body(f, n)]
           T == {k \in Nat : Exists(k)}
<1>1. Exists(0)
  <2> DEFINE f == [n \in 0 .. 0 |-> <<>>]
  <2>1. f = [n \in 0 .. 0 |-> Body(f, n)]
    OBVIOUS
  <2>2. QED
    BY <2>1
<1>2. ASSUME NEW k \in Nat, Exists(k) PROVE Exists(k + 1)
  <2>1. PICK f : f = [n \in 0 .. k |-> Body(f, n)]
    BY <1>2
  <2> DEFINE g == [n \in 0 .. k + 1 |-> IF n = k + 1 THEN Body(f, n) ELSE f[n]]
  <2>2. ASSUME NEW n \in 0 .. k + 1 PROVE g[n] = Body(g, n)
    <3>1. CASE n = k + 1
      <4>1. g[n] = Body(f, n) /\ n # 0 /\ n - 1 \in 0 .. k + 1 /\ n - 1 # k + 1
        BY <3>1
      <4>2. g[n - 1] = f[n - 1]
        BY <4>1
      <4> HIDE DEF g
      <4>3. QED
        BY <4>1, <4>2 DEF KeptStep
    <3>2. CASE n # k + 1
      <4>1. n \in 0 .. k /\ g[n] = f[n]
        BY <3>2
      <4>2. f[n] = Body(f, n)
        BY <2>1, <4>1
      <4>3. n # 0 => n - 1 \in 0 .. k + 1 /\ n - 1 # k + 1 /\ g[n - 1] = f[n - 1]
        BY <4>1
      <4> HIDE DEF g
      <4>4. QED
        BY <4>1, <4>2, <4>3 DEF KeptStep
    <3>3. QED
      BY <3>1, <3>2
  <2>3. g = [n \in 0 .. k + 1 |-> Body(g, n)]
    <3>1. \A n \in 0 .. k + 1 : g[n] = Body(g, n)
      BY <2>2
    <3>2. g = [n \in 0 .. k + 1 |-> g[n]]
      OBVIOUS
    <3> HIDE DEF g, Body
    <3>3. QED
      BY <3>1, <3>2
  <2> HIDE DEF g, Body
  <2>4. QED
    BY <2>3
<1>3. Exists(m)
  <2>1. 0 \in T /\ \A k \in Nat : k \in T => k + 1 \in T
    <3> HIDE DEF Exists
    <3>1. QED
      BY <1>1, <1>2
  <2>2. Nat \subseteq T
    <3> HIDE DEF T
    <3>1. QED
      BY <2>1, NatInductionOnSet
  <2>3. QED
    BY <2>2
<1>4. QED
  BY <1>3


(* Keep returns the elements of q in S, in the order they have in q. *)
LEMMA KeepPicks ==
  ASSUME NEW X, NEW q \in Seq(X), NEW S
  PROVE  /\ Keep(q, S) \in Seq(X)
         /\ \E h : Picks(q, S, Len(q), Keep(q, S), h)
<1> DEFINE Body(f, n) == KeptStep(q, S, f, n)
           kept == CHOOSE f : f = [n \in 0 .. Len(q) |-> Body(f, n)]
           Good(n) == /\ kept[n] \in Seq(X)
                      /\ \E h : Picks(q, S, n, kept[n], h)
           T == {n \in Nat : n <= Len(q) => Good(n)}
<1>1. Len(q) \in Nat /\ \A i \in 1 .. Len(q) : q[i] \in X
  BY LenProperties, ElementOfSeq
<1>2. Keep(q, S) = kept[Len(q)]
  BY DEF Keep, KeptStep
<1>3. \A n \in 0 .. Len(q) : kept[n] = Body(kept, n)
  <2>1. \E f : f = [n \in 0 .. Len(q) |-> Body(f, n)]
    <3>1. Len(q) \in Nat
      BY <1>1
    <3>2. QED
      BY <3>1, KeptExists
  <2>2. kept = [n \in 0 .. Len(q) |-> Body(kept, n)]
    BY <2>1
  <2> HIDE DEF kept
  <2>3. QED
    BY <2>2
<1> HIDE DEF kept
<1>4. Good(0)
  <2>1. kept[0] = <<>>
    BY <1>1, <1>3 DEF KeptStep
  <2>2. Len(<<>>) = 0 /\ <<>> \in Seq(X)
    BY EmptySeq
  <2>3. Picks(q, S, 0, <<>>, [k \in 1 .. 0 |-> 0])
    BY <2>2 DEF Picks
  <2>4. QED
    BY <2>1, <2>2, <2>3
<1>5. ASSUME NEW n \in Nat, n + 1 <= Len(q), Good(n) PROVE Good(n + 1)
  <2> DEFINE t == kept[n]
  <2>0. n + 1 \in 1 .. Len(q) /\ q[n + 1] \in X
    BY <1>1, <1>5
  <2>1. kept[n + 1] = IF q[n + 1] \in S THEN Append(t, q[n + 1]) ELSE t
    <3>1. n + 1 \in 0 .. Len(q) /\ n + 1 # 0 /\ (n + 1) - 1 = n
      BY <1>1, <2>0
    <3>2. QED
      BY <1>3, <3>1 DEF KeptStep
  <2>2. t \in Seq(X) /\ Len(t) \in Nat
    BY <1>5, LenProperties
  <2>3. PICK h : Picks(q, S, n, t, h)
    BY <1>5
  <2> HIDE DEF t
  <2>4. CASE q[n + 1] \notin S
    <3>1. Picks(q, S, n + 1, t, h)
      <4>1. h \in [1 .. Len(t) -> 1 .. n + 1]
        BY <2>3 DEF Picks
      <4>2. \A i \in 1 .. n + 1 : i \in 1 .. n \/ i = n + 1
        OBVIOUS
      <4>3. QED
        BY <2>3, <2>4, <4>1, <4>2 DEF Picks
    <3>2. QED
      BY <2>1, <2>2, <2>4, <3>1
  <2>5. CASE q[n + 1] \in S
    <3> DEFINE u == Append(t, q[n + 1])
               g == [k \in 1 .. Len(t) + 1 |-> IF k = Len(t) + 1 THEN n + 1 ELSE h[k]]
    <3>1. u \in Seq(X) /\ Len(u) = Len(t) + 1
      BY <2>0, <2>2
    <3>2. u[Len(t) + 1] = q[n + 1] /\ \A k \in 1 .. Len(t) : u[k] = t[k]
      BY <2>0, <2>2
    <3>3. \A k \in 1 .. Len(t) + 1 : k = Len(t) + 1 \/ (k \in 1 .. Len(t) /\ k # Len(t) + 1)
      BY <2>2
    <3> HIDE DEF u
    <3>4. /\ g[Len(t) + 1] = n + 1 /\ \A k \in 1 .. Len(t) : g[k] = h[k]
          /\ g \in [1 .. Len(t) + 1 -> 1 .. n + 1]
      <4>1. \A k \in 1 .. Len(t) : h[k] \in 1 .. n
        BY <2>3 DEF Picks
      <4>2. QED
        BY <2>2, <3>3, <4>1
    <3> HIDE DEF g
    <3>5. \A k, l \in 1 .. Len(t) + 1 : k < l => g[k] < g[l]
      <4> SUFFICES ASSUME NEW k \in 1 .. Len(t) + 1, NEW l \in 1 .. Len(t) + 1, k < l
                   PROVE  g[k] < g[l]
        OBVIOUS
      <4>1. k \in 1 .. Len(t) /\ g[k] = h[k] /\ h[k] \in 1 .. n
        BY <2>2, <2>3, <3>4 DEF Picks
      <4>2. CASE l = Len(t) + 1
        BY <3>4, <4>1, <4>2
      <4>3. CASE l \in 1 .. Len(t)
        <5>1. g[l] = h[l] /\ h[k] < h[l]
          BY <2>3, <3>4, <4>1, <4>3 DEF Picks
        <5>2. QED
          BY <4>1, <5>1
      <4>4. QED
        BY <3>3, <4>2, <4>3
    <3>6. \A k \in 1 .. Len(t) + 1 : u[k] = q[g[k]] /\ q[g[k]] \in S
      BY <2>3, <2>5, <3>2, <3>3, <3>4 DEF Picks
    <3>7. \A i \in 1 .. n + 1 : q[i] \in S => \E k \in 1 .. Len(t) + 1 : g[k] = i
      <4> SUFFICES ASSUME NEW i \in 1 .. n + 1, q[i] \in S
                   PROVE  \E k \in 1 .. Len(t) + 1 : g[k] = i
        OBVIOUS
      <4>1. CASE i = n + 1
        <5>1. Len(t) + 1 \in 1 .. Len(t) + 1
          BY <2>2
        <5>2. QED
          BY <3>4, <4>1, <5>1
      <4>2. CASE i # n + 1
        <5>1. i \in 1 .. n
          BY <4>2
        <5>2. PICK k \in 1 .. Len(t) : h[k] = i
          BY <2>3, <5>1 DEF Picks
        <5>3. k \in 1 .. Len(t) + 1
          BY <2>2
        <5>4. QED
          BY <3>4, <5>2, <5>3
      <4>3. QED
        BY <4>1, <4>2
    <3>8. Picks(q, S, n + 1, u, g)
      BY <3>1, <3>4, <3>5, <3>6, <3>7 DEF Picks
    <3>9. QED
      BY <2>1, <2>5, <3>1, <3>8 DEF u
  <2>6. QED
    BY <2>4, <2>5
<1>6. Good(Len(q))
  <2> HIDE DEF Good
  <2>1. 0 \in T
    BY <1>4
  <2>2. \A n \in Nat : n \in T => n + 1 \in T
    BY <1>1, <1>5
  <2>3. Nat \subseteq T
    <3> HIDE DEF T
    <3>1. QED
      BY <2>1, <2>2, NatInductionOnSet
  <2>4. QED
    BY <1>1, <2>3
<1>7. QED
  BY <1>2, <1>6

(* What is kept are the members in S, each once if the queue holds each once. *)
LEMMA KeepFacts ==
  ASSUME NEW X, NEW q \in Seq(X), NEW S
  PROVE  /\ Keep(q, S) \in Seq(X)
         /\ Members(Keep(q, S)) = Members(q) \cap S
         /\ Distinct(q) => Distinct(Keep(q, S))
<1> DEFINE t == Keep(q, S)
<1>1. t \in Seq(X)
  BY KeepPicks
<1>2. PICK h : Picks(q, S, Len(q), t, h)
  BY KeepPicks
<1>3. /\ Len(q) \in Nat /\ DOMAIN q = 1 .. Len(q)
      /\ Len(t) \in Nat /\ DOMAIN t = 1 .. Len(t)
  BY <1>1, LenProperties
<1> HIDE DEF t
<1>4. Members(t) = Members(q) \cap S
  <2>1. ASSUME NEW k \in 1 .. Len(t) PROVE t[k] \in Members(q) \cap S
    BY <1>2, <1>3, <2>1 DEF Picks, Members
  <2>2. ASSUME NEW i \in 1 .. Len(q), q[i] \in S PROVE q[i] \in Members(t)
    BY <1>2, <1>3, <2>2 DEF Picks, Members
  <2>3. QED
    BY <1>3, <2>1, <2>2 DEF Members
<1>5. ASSUME Distinct(q), NEW k \in 1 .. Len(t), NEW l \in 1 .. Len(t), t[k] = t[l]
      PROVE  k = l
  <2>1. h[k] \in 1 .. Len(q) /\ h[l] \in 1 .. Len(q) /\ q[h[k]] = q[h[l]]
    BY <1>2, <1>5 DEF Picks
  <2>2. h[k] = h[l]
    BY <1>3, <1>5, <2>1 DEF Distinct
  <2>3. ~ (k < l) /\ ~ (l < k)
    BY <1>2, <2>1, <2>2 DEF Picks
  <2>4. QED
    BY <1>3, <2>3
<1>6. QED
  BY <1>1, <1>3, <1>4, <1>5 DEF t, Distinct

-----------------------------------------------------------------------------
\* The members of a sequence: finitely many, each at its position.
LEMMA MembersFacts ==
  ASSUME NEW X, NEW q \in Seq(X)
  PROVE  /\ Members(q) \subseteq X /\ IsFiniteSet(Members(q))
         /\ Cardinality(Members(q)) \in Nat
         /\ \A r \in Members(q) : Position(q, r) \in DOMAIN q /\ q[Position(q, r)] = r
         /\ q # <<>> => Members(q) # {}
<1>1. /\ Len(q) \in Nat /\ DOMAIN q = 1 .. Len(q)
      /\ q \in [1 .. Len(q) -> X]
  BY LenProperties
<1>2. q \in Surjection(1 .. Len(q), Members(q))
  BY <1>1 DEF Surjection, Members
<1>3. IsFiniteSet(Members(q))
  BY <1>1, <1>2, FS_NatSurjection DEF ExistsSurjection
<1>4. Cardinality(Members(q)) \in Nat
  BY <1>3, FS_CardinalityType
<1>5. \A r \in Members(q) : Position(q, r) \in DOMAIN q /\ q[Position(q, r)] = r
  BY DEF Members, Position
<1>6. q # <<>> => Members(q) # {}
  BY <1>1, EmptySeq DEF Members
<1>7. QED
  BY <1>1, <1>3, <1>4, <1>5, <1>6 DEF Members

\* In a sequence without repetition an element is at one place.
LEMMA PositionFacts ==
  ASSUME NEW X, NEW q \in Seq(X), Distinct(q), NEW i \in DOMAIN q
  PROVE  Position(q, q[i]) = i
BY DEF Position, Distinct

(* Before orders the members of a queue that holds each once. *)
LEMMA BeforeOrders ==
  ASSUME NEW X, NEW q \in Seq(X), Distinct(q), NEW u \in [X -> Nat],
         NEW r \in Members(q), NEW s \in Members(q), NEW t \in Members(q)
  PROVE  /\ ~ Before(q, u, r, r)
         /\ r = s \/ Before(q, u, r, s) \/ Before(q, u, s, r)
         /\ Before(q, u, r, s) /\ Before(q, u, s, t) => Before(q, u, r, t)
<1>1. u[r] \in Nat /\ u[s] \in Nat /\ u[t] \in Nat
  BY MembersFacts
<1>2. /\ Position(q, r) \in Nat /\ Position(q, s) \in Nat /\ Position(q, t) \in Nat
      /\ q[Position(q, r)] = r /\ q[Position(q, s)] = s
  BY MembersFacts, LenProperties
<1>3. Position(q, r) = Position(q, s) => r = s
  BY <1>2
<1>4. QED
  BY <1>1, <1>2, <1>3 DEF Before

(* Who goes before whom shows in the ranks. *)
LEMMA RankFacts ==
  ASSUME NEW X, NEW q \in Seq(X), Distinct(q), NEW u \in [X -> Nat]
  PROVE  /\ \A r \in Members(q) : Rank(q, u, r) \in Nat
         /\ \A r, s \in Members(q) : Before(q, u, r, s) => Rank(q, u, r) < Rank(q, u, s)
<1> DEFINE Ahead(r) == {s \in Members(q) : Before(q, u, s, r)}
<1>1. \A r : /\ IsFiniteSet(Ahead(r)) /\ Cardinality(Ahead(r)) \in Nat
             /\ Rank(q, u, r) = Cardinality(Ahead(r))
  <2> TAKE r
  <2>1. IsFiniteSet(Ahead(r))
    BY MembersFacts, FS_Subset
  <2>2. QED
    BY <2>1, FS_CardinalityType DEF Rank
<1>2. ASSUME NEW r \in Members(q), NEW s \in Members(q), Before(q, u, r, s)
      PROVE  Cardinality(Ahead(r)) < Cardinality(Ahead(s))
  <2>1. Ahead(r) \subseteq Ahead(s)
    BY <1>2, BeforeOrders
  <2>2. r \in Ahead(s) /\ r \notin Ahead(r)
    BY <1>2, BeforeOrders
  <2> HIDE DEF Ahead
  <2>3. /\ Cardinality(Ahead(r)) <= Cardinality(Ahead(s))
        /\ Cardinality(Ahead(r)) # Cardinality(Ahead(s))
    BY <1>1, <2>1, <2>2, FS_Subset
  <2>4. QED
    BY <1>1, <2>3
<1>3. QED
  BY <1>1, <1>2

(* Some member of a queue that is not empty goes before all others. *)
LEMMA SeedFacts ==
  ASSUME NEW X, NEW q \in Seq(X), Distinct(q), NEW u \in [X -> Nat], q # <<>>
  PROVE  /\ Seed(q, u) \in Members(q)
         /\ Rank(q, u, Seed(q, u)) = 0
<1> DEFINE Ranks == {Rank(q, u, r) : r \in Members(q)}
<1>1. Ranks \subseteq Nat /\ Ranks # {}
  BY MembersFacts, RankFacts
<1>2. PICK n \in Ranks : \A m \in Ranks : n <= m
  <2> HIDE DEF Ranks
  <2>1. QED
    BY <1>1, LeastNat
<1>3. PICK r \in Members(q) : n = Rank(q, u, r)
  BY <1>2
<1>4. ASSUME NEW s \in Members(q), Before(q, u, s, r) PROVE FALSE
  <2>1. Rank(q, u, s) < Rank(q, u, r) /\ Rank(q, u, s) \in Ranks
    BY <1>4, RankFacts
  <2>2. Rank(q, u, r) <= Rank(q, u, s)
    BY <1>2, <1>3, <2>1
  <2>3. Rank(q, u, r) \in Nat /\ Rank(q, u, s) \in Nat
    BY RankFacts
  <2>4. QED
    BY <2>1, <2>2, <2>3
<1>5. {s \in Members(q) : Before(q, u, s, r)} = {}
  BY <1>4
<1>6. Rank(q, u, r) = 0
  BY <1>5, FS_EmptySet DEF Rank
<1>7. QED
  BY <1>6 DEF Seed

(* take returns the most urgent, as many as there are up to the limit. *)
LEMMA TakeFacts ==
  ASSUME NEW X, NEW q \in Seq(X), Distinct(q), NEW u \in [X -> Nat],
         NEW limit \in Nat
  PROVE  /\ Take(q, u, limit) \in Seq(X)
         /\ Members(Take(q, u, limit)) = Chosen(q, u, limit)
         /\ Distinct(Take(q, u, limit))
         /\ Len(Take(q, u, limit)) <= limit
         /\ Chosen(q, u, limit) \subseteq Members(q)
         /\ \A r \in Chosen(q, u, limit), s \in Members(q) \ Chosen(q, u, limit) :
              Before(q, u, r, s)
         /\ q # <<>> /\ limit > 0 => Take(q, u, limit) # <<>>
<1> DEFINE C == Chosen(q, u, limit)
           c == Cardinality(C)
           rank == [r \in C |-> Rank(q, u, r)]
           t == Take(q, u, limit)
<1>1. C \subseteq Members(q) /\ IsFiniteSet(C) /\ c \in Nat
  <2>1. C \subseteq Members(q)
    BY DEF Chosen
  <2> HIDE DEF C
  <2>2. QED
    BY <2>1, MembersFacts, FS_Subset, FS_CardinalityType
<1>2. \A r \in Members(q) : r \in C <=> Rank(q, u, r) < limit
  BY DEF Chosen
<1>3. t = [k \in 1 .. c |-> CHOOSE r \in C : Rank(q, u, r) = k - 1]
  BY DEF Take
<1> HIDE DEF C
<1>4. \A r, s \in Members(q) : Rank(q, u, r) = Rank(q, u, s) => r = s
  BY BeforeOrders, RankFacts
<1>5. \A r \in Members(q) : Rank(q, u, r) \in Nat
  BY RankFacts
<1>6. \A r \in C : rank[r] \in 0 .. c - 1
  <2> SUFFICES ASSUME NEW r \in C PROVE Rank(q, u, r) \in 0 .. c - 1
    OBVIOUS
  <2> DEFINE ahead == {s \in Members(q) : Before(q, u, s, r)}
  <2>1. ahead \subseteq C \ {r}
    <3> SUFFICES ASSUME NEW s \in Members(q), Before(q, u, s, r)
                 PROVE  s \in C \ {r}
      OBVIOUS
    <3>1. Rank(q, u, s) < Rank(q, u, r) /\ Rank(q, u, r) < limit
      BY <1>1, <1>2, RankFacts
    <3>2. Rank(q, u, s) \in Nat /\ Rank(q, u, r) \in Nat
      BY <1>1, <1>5
    <3>3. QED
      BY <1>2, <3>1, <3>2
  <2>2. Rank(q, u, r) = Cardinality(ahead)
    BY DEF Rank
  <2> HIDE DEF ahead
  <2>3. IsFiniteSet(C \ {r}) /\ Cardinality(C \ {r}) = c - 1
    BY <1>1, FS_RemoveElement
  <2>4. Cardinality(ahead) <= c - 1
    BY <2>1, <2>3, FS_Subset
  <2>5. QED
    BY <1>1, <1>5, <2>2, <2>4
<1>7. rank \in Surjection(C, 0 .. c - 1)
  <2>1. rank \in Injection(C, 0 .. c - 1)
    BY <1>1, <1>4, <1>6 DEF Injection, IsInjective
  <2>2. IsFiniteSet(0 .. c - 1) /\ Cardinality(0 .. c - 1) = c
    <3>1. 0 \in Int /\ c - 1 \in Int /\ c \in Nat
      BY <1>1
    <3> HIDE DEF c
    <3>2. QED
      BY <3>1, FS_Interval
  <2> HIDE DEF rank, c
  <2>3. c = Cardinality(C)
    BY DEF c
  <2>4. QED
    BY <2>1, <2>2, <2>3, FS_Injection
<1>8. c <= limit
  <2>1. rank \in Injection(C, 0 .. limit - 1)
    BY <1>1, <1>2, <1>4, <1>5 DEF Injection, IsInjective
  <2>2. IsFiniteSet(0 .. limit - 1) /\ Cardinality(0 .. limit - 1) = limit
    BY FS_Interval
  <2> HIDE DEF rank
  <2>3. QED
    BY <2>1, <2>2, FS_Injection
<1> HIDE DEF t, c
<1>9. \A k \in 1 .. c : t[k] \in C /\ Rank(q, u, t[k]) = k - 1
  <2> SUFFICES ASSUME NEW k \in 1 .. c
               PROVE  t[k] \in C /\ Rank(q, u, t[k]) = k - 1
    OBVIOUS
  <2>1. k - 1 \in 0 .. c - 1
    BY <1>1
  <2>2. \E r \in C : Rank(q, u, r) = k - 1
    BY <1>7, <2>1 DEF Surjection
  <2>3. QED
    BY <1>3, <2>2
<1>10. DOMAIN t = 1 .. c
  BY <1>3
<1>11. t \in Seq(C) /\ Len(t) = c
  BY <1>1, <1>3, <1>9
<1>12. t \in Seq(X)
  BY <1>1, <1>11, MembersFacts, SeqMonotonic
<1>13. Members(t) = C
  <2>1. ASSUME NEW r \in C PROVE r \in Members(t)
    <3>1. rank[r] \in 0 .. c - 1 /\ rank[r] = Rank(q, u, r)
      BY <1>6
    <3> HIDE DEF rank
    <3>2. Rank(q, u, r) + 1 \in 1 .. c /\ Rank(q, u, t[Rank(q, u, r) + 1]) = Rank(q, u, r)
      BY <1>1, <1>9, <3>1
    <3>3. t[Rank(q, u, r) + 1] = r
      BY <1>1, <1>4, <1>9, <3>2
    <3>4. QED
      BY <1>10, <3>2, <3>3 DEF Members
  <2>2. QED
    BY <1>9, <1>10, <2>1 DEF Members
<1>14. Distinct(t)
  BY <1>1, <1>9, <1>10 DEF Distinct
<1>15. ASSUME NEW r \in C, NEW s \in Members(q) \ C PROVE Before(q, u, r, s)
  <2>1. ~ (Rank(q, u, s) < Rank(q, u, r)) /\ r # s
    BY <1>1, <1>2, <1>5
  <2>2. QED
    BY <1>1, <2>1, BeforeOrders, RankFacts
<1>16. ASSUME q # <<>>, limit > 0 PROVE t # <<>>
  <2>1. Seed(q, u) \in C
    BY <1>2, <1>16, SeedFacts
  <2>2. QED
    BY <1>13, <2>1 DEF Members
<1>17. QED
  BY <1>1, <1>8, <1>11, <1>12, <1>13, <1>14, <1>15, <1>16 DEF C, t

-----------------------------------------------------------------------------
(* The first n of those that Keep picks. *)
LEMMA FirstFew ==
  ASSUME NEW X, NEW q \in Seq(X), NEW S, NEW n \in Nat
  PROVE  LET p == Keep(q, S)
             t == SubSeq(p, 1, IF Len(p) < n THEN Len(p) ELSE n)
         IN  /\ t \in Seq(X) /\ Len(t) \in Nat /\ Len(t) <= n /\ Len(t) <= Len(p)
             /\ \A i \in 1 .. Len(t) : t[i] = p[i]
             /\ Members(t) \subseteq Members(q) \cap S
             /\ Members(q) \cap S # {} /\ n > 0 => t # <<>>
<1> DEFINE p == Keep(q, S)
           m == IF Len(p) < n THEN Len(p) ELSE n
           t == SubSeq(p, 1, m)
<1>1. p \in Seq(X) /\ Members(p) = Members(q) \cap S
  BY KeepFacts
<1> HIDE DEF p
<1>2. Len(p) \in Nat /\ DOMAIN p = 1 .. Len(p) /\ \A i \in 1 .. Len(p) : p[i] \in X
  BY <1>1, LenProperties, ElementOfSeq
<1>3. m \in Nat /\ m <= Len(p) /\ m <= n /\ \A i \in 1 .. m : p[i] \in X
  BY <1>2
<1>4. Members(q) \cap S # {} /\ n > 0 => m > 0
  BY <1>1, <1>2 DEF Members
<1> HIDE DEF m
<1>5. /\ t \in Seq(X) /\ Len(t) = m
      /\ \A i \in 1 .. m : t[i] = p[i]
  <2>1. /\ t \in Seq(X) /\ Len(t) = IF 1 <= m THEN m - 1 + 1 ELSE 0
        /\ \A i \in 1 .. m - 1 + 1 : t[i] = p[1 + i - 1]
    BY <1>3, SubSeqProperties
  <2> HIDE DEF t
  <2>2. QED
    BY <1>3, <2>1
<1> HIDE DEF t
<1>6. DOMAIN t = 1 .. m
  BY <1>5, LenProperties
<1>7. Members(t) \subseteq Members(p)
  BY <1>2, <1>3, <1>5, <1>6 DEF Members
<1>8. m > 0 => t # <<>>
  BY <1>5, EmptySeq
<1>9. QED
  BY <1>1, <1>3, <1>4, <1>5, <1>7, <1>8 DEF t, m, p

\* If the queue holds each once, so do the first n that Keep picks.
LEMMA FirstKept ==
  ASSUME NEW X, NEW q \in Seq(X), Distinct(q), NEW S, NEW n \in Nat
  PROVE  LET p == Keep(q, S)
             t == SubSeq(p, 1, IF Len(p) < n THEN Len(p) ELSE n)
         IN  /\ t \in Seq(X) /\ Distinct(t)
             /\ Members(t) \subseteq Members(q) \cap S
             /\ Len(t) <= n
             /\ Members(q) \cap S # {} /\ n > 0 => t # <<>>
<1> DEFINE p == Keep(q, S)
           t == SubSeq(p, 1, IF Len(p) < n THEN Len(p) ELSE n)
<1>1. /\ t \in Seq(X) /\ Len(t) \in Nat /\ Len(t) <= n /\ Len(t) <= Len(p)
      /\ \A i \in 1 .. Len(t) : t[i] = p[i]
      /\ Members(t) \subseteq Members(q) \cap S
      /\ Members(q) \cap S # {} /\ n > 0 => t # <<>>
  BY FirstFew
<1>2. p \in Seq(X) /\ Distinct(p)
  BY KeepFacts
<1> HIDE DEF t, p
<1>3. DOMAIN t = 1 .. Len(t) /\ DOMAIN p = 1 .. Len(p) /\ Len(p) \in Nat
  BY <1>1, <1>2, LenProperties
<1>4. Distinct(t)
  BY <1>1, <1>2, <1>3 DEF Distinct
<1>5. QED
  BY <1>1, <1>4 DEF t, p

\* A group: the seed's peers out of the queue, within the limit of the seed.
LEMMA GroupFacts ==
  ASSUME NEW X, NEW q \in Seq(X), Distinct(q), NEW u \in [X -> Nat],
         NEW C, NEW lim \in [X -> Int], q # <<>>
  PROVE  LET t == Group(q, u, C, lim)
             seed == Seed(q, u)
         IN  /\ seed \in X
             /\ t \in Seq(X) /\ Distinct(t) /\ t # <<>>
             /\ Members(t) \subseteq Members(q)
             /\ \A r \in Members(t) : r = seed \/ <<seed, r>> \in C
             /\ Len(t) <= 1 \/ Len(t) <= lim[seed]
<1> DEFINE seed == Seed(q, u)
           n == IF lim[seed] < 1 THEN 1 ELSE lim[seed]
           S == {r \in Members(q) : r = seed \/ <<seed, r>> \in C}
           t == SubSeq(Keep(q, S), 1, IF Len(Keep(q, S)) < n THEN Len(Keep(q, S)) ELSE n)
<1>1. seed \in Members(q) /\ seed \in X
  BY SeedFacts, MembersFacts
<1>2. Group(q, u, C, lim) = t
  BY <1>1 DEF Group, FirstThat
<1>3. n \in Nat /\ n > 0 /\ (n <= 1 \/ n = lim[seed])
  BY <1>1
<1>4. Members(q) \cap S # {}
  BY <1>1
<1>5. \A r \in S : r = seed \/ <<seed, r>> \in C
  OBVIOUS
<1> HIDE DEF seed, n, S
<1>6. /\ t \in Seq(X) /\ Distinct(t)
      /\ Members(t) \subseteq Members(q) \cap S
      /\ Len(t) <= n /\ t # <<>>
  BY <1>3, <1>4, FirstKept
<1>7. Len(t) \in Nat
  BY <1>6, LenProperties
<1> HIDE DEF t
<1>8. Len(t) <= 1 \/ Len(t) <= lim[seed]
  BY <1>1, <1>3, <1>6, <1>7
<1>9. QED
  BY <1>1, <1>2, <1>5, <1>6, <1>8 DEF seed

\* What joins a batch: peers of its first member, up to the limit.
LEMMA JoiningFacts ==
  ASSUME NEW X, NEW q \in Seq(X), Distinct(q), NEW batch \in Seq(X), NEW C,
         NEW limit \in Int, Joining(q, batch, C, limit) # <<>>
  PROVE  LET t == Joining(q, batch, C, limit)
         IN  /\ batch # <<>>
             /\ t \in Seq(X) /\ Distinct(t)
             /\ Members(t) \subseteq Members(q)
             /\ \A r \in Members(t) : <<batch[1], r>> \in C
             /\ Len(batch) + Len(t) <= limit
<1> DEFINE n == limit - Len(batch)
           S == {r \in Members(q) : <<batch[1], r>> \in C}
           t == SubSeq(Keep(q, S), 1, IF Len(Keep(q, S)) < n THEN Len(Keep(q, S)) ELSE n)
<1>1. batch # <<>> /\ ~ (Len(batch) >= limit) /\ Joining(q, batch, C, limit) = t
  BY DEF Joining, FirstThat
<1>2. Len(batch) \in Nat
  BY LenProperties
<1>3. n \in Nat /\ Len(batch) + n = limit
  BY <1>1, <1>2
<1>4. \A r \in S : <<batch[1], r>> \in C
  OBVIOUS
<1> HIDE DEF n, S
<1>5. /\ t \in Seq(X) /\ Distinct(t)
      /\ Members(t) \subseteq Members(q) \cap S /\ Len(t) <= n
  BY <1>3, FirstKept
<1>6. Len(t) \in Nat
  BY <1>5, LenProperties
<1> HIDE DEF t
<1>7. Len(batch) + Len(t) <= limit
  BY <1>2, <1>3, <1>5, <1>6
<1>8. QED
  BY <1>1, <1>4, <1>5, <1>7

\* Two sequences that share nothing, one after the other.
LEMMA JoinedFacts ==
  ASSUME NEW X, NEW s \in Seq(X), NEW t \in Seq(X)
  PROVE  /\ s \o t \in Seq(X) /\ Len(s \o t) = Len(s) + Len(t)
         /\ Members(s \o t) = Members(s) \cup Members(t)
         /\ Distinct(s) /\ Distinct(t) /\ Members(s) \cap Members(t) = {} =>
              Distinct(s \o t)
         /\ s # <<>> => (s \o t)[1] = s[1]
<1> DEFINE st == s \o t
<1>1. /\ Len(s) \in Nat /\ DOMAIN s = 1 .. Len(s)
      /\ Len(t) \in Nat /\ DOMAIN t = 1 .. Len(t)
      /\ st \in Seq(X) /\ Len(st) = Len(s) + Len(t)
      /\ \A i \in 1 .. Len(s) + Len(t) :
           st[i] = IF i <= Len(s) THEN s[i] ELSE t[i - Len(s)]
  BY LenProperties, ConcatProperties
<1>2. DOMAIN st = 1 .. Len(s) + Len(t)
  BY <1>1, LenProperties
<1>3. s # <<>> => Len(s) > 0
  BY <1>1, EmptySeq
<1> HIDE DEF st
<1>4. Members(st) \subseteq Members(s) \cup Members(t)
  <2> SUFFICES ASSUME NEW i \in 1 .. Len(s) + Len(t)
               PROVE  st[i] \in Members(s) \cup Members(t)
    BY <1>2 DEF Members
  <2>1. CASE i <= Len(s)
    BY <1>1, <2>1 DEF Members
  <2>2. CASE ~ (i <= Len(s))
    <3>1. i - Len(s) \in 1 .. Len(t) /\ st[i] = t[i - Len(s)]
      BY <1>1, <2>2
    <3>2. QED
      BY <1>1, <3>1 DEF Members
  <2>3. QED
    BY <2>1, <2>2
<1>5. Members(s) \cup Members(t) \subseteq Members(st)
  <2>1. ASSUME NEW i \in 1 .. Len(s) PROVE s[i] \in Members(st)
    <3>1. i \in 1 .. Len(s) + Len(t) /\ st[i] = s[i]
      BY <1>1
    <3>2. QED
      BY <1>2, <3>1 DEF Members
  <2>2. ASSUME NEW i \in 1 .. Len(t) PROVE t[i] \in Members(st)
    <3>1. i + Len(s) \in 1 .. Len(s) + Len(t) /\ st[i + Len(s)] = t[i]
      BY <1>1
    <3>2. QED
      BY <1>2, <3>1 DEF Members
  <2>3. QED
    BY <1>1, <2>1, <2>2 DEF Members
<1>6. ASSUME Distinct(s), Distinct(t), Members(s) \cap Members(t) = {},
             NEW i \in 1 .. Len(s) + Len(t), NEW j \in 1 .. Len(s) + Len(t),
             st[i] = st[j]
      PROVE  i = j
  <2> DEFINE L(k) == /\ k \in 1 .. Len(s) /\ st[k] = s[k]
                     /\ st[k] \in Members(s)
             R(k) == /\ k - Len(s) \in 1 .. Len(t) /\ st[k] = t[k - Len(s)]
                     /\ st[k] \in Members(t)
  <2>1. ASSUME NEW k \in 1 .. Len(s) + Len(t) PROVE L(k) \/ R(k)
    <3>1. CASE k <= Len(s)
      BY <1>1, <3>1 DEF Members
    <3>2. CASE ~ (k <= Len(s))
      <4>1. k - Len(s) \in 1 .. Len(t) /\ st[k] = t[k - Len(s)]
        BY <1>1, <3>2
      <4>2. QED
        BY <1>1, <4>1 DEF Members
    <3>3. QED
      BY <3>1, <3>2
  <2>2. ASSUME L(i), L(j) PROVE i = j
    <3>1. s[i] = s[j]
      BY <1>6, <2>2
    <3>2. QED
      BY <1>1, <1>6, <2>2, <3>1 DEF Distinct
  <2>3. ASSUME R(i), R(j) PROVE i = j
    <3>1. t[i - Len(s)] = t[j - Len(s)]
      BY <1>6, <2>3
    <3>2. i - Len(s) = j - Len(s)
      BY <1>1, <1>6, <2>3, <3>1 DEF Distinct
    <3>3. QED
      BY <1>1, <3>2
  <2>4. ~ (L(i) /\ R(j)) /\ ~ (R(i) /\ L(j))
    BY <1>6
  <2>5. (L(i) \/ R(i)) /\ (L(j) \/ R(j))
    BY <2>1
  <2> HIDE DEF L, R
  <2>6. QED
    BY <2>2, <2>3, <2>4, <2>5
<1>7. QED
  BY <1>1, <1>2, <1>3, <1>4, <1>5, <1>6 DEF Distinct, st

\* A sequence without repetition has as many members as elements.
LEMMA DistinctCounts ==
  ASSUME NEW X, NEW q \in Seq(X), Distinct(q)
  PROVE  /\ IsFiniteSet(Members(q)) /\ Len(q) \in Nat
         /\ Cardinality(Members(q)) = Len(q)
<1>1. Len(q) \in Nat /\ DOMAIN q = 1 .. Len(q) /\ q \in [1 .. Len(q) -> X]
  BY LenProperties
<1>2. q \in Bijection(1 .. Len(q), Members(q))
  BY <1>1 DEF Bijection, Injection, Surjection, IsInjective, Members, Distinct
<1>3. IsFiniteSet(1 .. Len(q)) /\ Cardinality(1 .. Len(q)) = Len(q)
  BY <1>1, FS_Interval
<1>4. QED
  BY <1>1, <1>2, <1>3, FS_Bijection DEF ExistsBijection

(* An empty sequence has no members. *)
LEMMA EmptyFacts == Members(<<>>) = {} /\ Distinct(<<>>) /\ Len(<<>>) = 0
<1>1. Len(<<>>) = 0 /\ DOMAIN <<>> = {}
  BY EmptySeq, LenProperties
<1>2. QED
  BY <1>1 DEF Members, Distinct

(* One more element at the end of a sequence. *)
LEMMA AppendMembers ==
  ASSUME NEW X, NEW q \in Seq(X), NEW r \in X
  PROVE  /\ Append(q, r) \in Seq(X) /\ Len(Append(q, r)) = Len(q) + 1
         /\ Append(q, r) # <<>>
         /\ Members(Append(q, r)) = Members(q) \cup {r}
         /\ Distinct(q) /\ r \notin Members(q) => Distinct(Append(q, r))
<1> DEFINE a == Append(q, r)
<1>1. /\ a \in Seq(X) /\ Len(a) = Len(q) + 1
      /\ \A i \in 1 .. Len(q) : a[i] = q[i]
      /\ a[Len(q) + 1] = r
      /\ Len(q) \in Nat /\ DOMAIN q = 1 .. Len(q)
  BY AppendProperties, LenProperties
<1>2. DOMAIN a = 1 .. Len(q) + 1
  BY <1>1, LenProperties
<1>3. a # <<>>
  BY <1>1, EmptySeq
<1> HIDE DEF a
<1>4. Members(a) = Members(q) \cup {r}
  BY <1>1, <1>2 DEF Members
<1>5. ASSUME Distinct(q), r \notin Members(q) PROVE Distinct(a)
  <2>1. \A i \in 1 .. Len(q) : a[i] # r
    BY <1>1, <1>5 DEF Members
  <2>2. QED
    BY <1>1, <1>2, <1>5, <2>1 DEF Distinct
<1>6. QED
  BY <1>1, <1>3, <1>4, <1>5 DEF a

(* The first element of a sequence and the rest. *)
LEMMA HeadTailFacts ==
  ASSUME NEW X, NEW q \in Seq(X), q # <<>>
  PROVE  /\ Head(q) \in X /\ Head(q) = q[1]
         /\ Tail(q) \in Seq(X) /\ Len(q) \in Nat /\ Len(Tail(q)) = Len(q) - 1
         /\ \A i \in 1 .. Len(q) - 1 : Tail(q)[i] = q[i + 1]
         /\ Members(q) = {Head(q)} \cup Members(Tail(q))
         /\ Distinct(q) => Distinct(Tail(q)) /\ Head(q) \notin Members(Tail(q))
         /\ Tail(q) = <<>> <=> Len(q) = 1
<1> DEFINE t == Tail(q)
<1>1. /\ Head(q) \in X /\ Head(q) = q[1]
      /\ t \in Seq(X) /\ Len(t) = Len(q) - 1
      /\ \A i \in 1 .. Len(t) : t[i] = q[i + 1]
  BY HeadTailProperties
<1>2. /\ Len(q) \in Nat /\ Len(q) # 0 /\ DOMAIN q = 1 .. Len(q)
      /\ DOMAIN t = 1 .. Len(q) - 1
  BY <1>1, LenProperties, EmptySeq
<1>3. t = <<>> <=> Len(q) = 1
  <2>1. t = <<>> => Len(t) = 0
    BY EmptySeq
  <2>2. t # <<>> => Len(t) \in Nat \ {0}
    BY <1>1, EmptySeq
  <2> HIDE DEF t
  <2>3. QED
    BY <1>1, <1>2, <2>1, <2>2
<1> HIDE DEF t
<1>7. \A i \in 1 .. Len(q) - 1 : t[i] = q[i + 1]
  BY <1>1
<1>4. Members(q) = {Head(q)} \cup Members(t)
  <2>1. ASSUME NEW x \in Members(q) PROVE x \in {Head(q)} \cup Members(t)
    <3>1. PICK i \in 1 .. Len(q) : q[i] = x
      BY <1>2 DEF Members
    <3>2. CASE i = 1
      BY <1>1, <3>1, <3>2
    <3>3. CASE i # 1
      <4>1. i - 1 \in 1 .. Len(q) - 1 /\ (i - 1) + 1 = i
        BY <1>2, <3>3
      <4>2. t[i - 1] = q[i]
        BY <1>1, <1>2, <4>1
      <4>3. QED
        BY <1>2, <3>1, <4>1, <4>2 DEF Members
    <3>4. QED
      BY <3>2, <3>3
  <2>2. ASSUME NEW x \in Members(t) PROVE x \in Members(q)
    <3>1. PICK i \in 1 .. Len(q) - 1 : t[i] = x
      BY <1>2 DEF Members
    <3>2. i + 1 \in 1 .. Len(q) /\ q[i + 1] = x
      BY <1>1, <1>2, <3>1
    <3>3. QED
      BY <1>2, <3>2 DEF Members
  <2>3. Head(q) \in Members(q)
    BY <1>1, <1>2 DEF Members
  <2>4. QED
    BY <2>1, <2>2, <2>3
<1>5. ASSUME Distinct(q) PROVE Distinct(t) /\ Head(q) \notin Members(t)
  <2>1. ASSUME NEW i \in 1 .. Len(q) - 1, NEW j \in 1 .. Len(q) - 1, t[i] = t[j]
        PROVE  i = j
    <3>1. i + 1 \in DOMAIN q /\ j + 1 \in DOMAIN q /\ q[i + 1] = q[j + 1]
      BY <1>1, <1>2, <2>1
    <3>2. i + 1 = j + 1
      BY <1>5, <3>1 DEF Distinct
    <3>3. QED
      BY <1>2, <3>2
  <2>2. ASSUME NEW i \in 1 .. Len(q) - 1, t[i] = Head(q) PROVE FALSE
    <3>1. i + 1 \in DOMAIN q /\ 1 \in DOMAIN q /\ q[i + 1] = q[1] /\ i + 1 # 1
      BY <1>1, <1>2, <2>2
    <3>2. QED
      BY <1>5, <3>1 DEF Distinct
  <2>3. QED
    BY <1>2, <2>1, <2>2 DEF Distinct, Members
<1>6. QED
  BY <1>1, <1>2, <1>3, <1>4, <1>5, <1>7 DEF t

-----------------------------------------------------------------------------
\* Each element of s stands in R to all that come behind it.
InOrder(s, R) == \A i, j \in DOMAIN s : i < j => <<s[i], s[j]>> \in R

(* One more element at the end, to which all others stand in R. *)
LEMMA OrderAppend ==
  ASSUME NEW X, NEW q \in Seq(X), NEW x \in X, NEW R, InOrder(q, R),
         \A y \in Members(q) : <<y, x>> \in R
  PROVE  InOrder(Append(q, x), R)
<1> DEFINE a == Append(q, x)
<1>1. /\ a \in Seq(X) /\ Len(a) = Len(q) + 1
      /\ \A i \in 1 .. Len(q) : a[i] = q[i]
      /\ a[Len(q) + 1] = x
      /\ Len(q) \in Nat /\ DOMAIN q = 1 .. Len(q)
  BY AppendProperties, LenProperties
<1>2. DOMAIN a = 1 .. Len(q) + 1
  BY <1>1, LenProperties
<1> HIDE DEF a
<1>3. ASSUME NEW i \in 1 .. Len(q) + 1, NEW j \in 1 .. Len(q) + 1, i < j
      PROVE  <<a[i], a[j]>> \in R
  <2>1. i \in 1 .. Len(q) /\ a[i] = q[i] /\ a[i] \in Members(q)
    BY <1>1, <1>3 DEF Members
  <2>2. CASE j \in 1 .. Len(q)
    BY <1>1, <1>3, <2>1, <2>2 DEF InOrder
  <2>3. CASE j = Len(q) + 1
    BY <1>1, <2>1, <2>3
  <2>4. QED
    BY <1>1, <2>2, <2>3
<1>4. QED
  BY <1>2, <1>3 DEF InOrder, a

(* The first element stands in R to the others, which stay in order. *)
LEMMA OrderTail ==
  ASSUME NEW X, NEW q \in Seq(X), q # <<>>, NEW R, InOrder(q, R)
  PROVE  /\ InOrder(Tail(q), R)
         /\ \A y \in Members(Tail(q)) : <<Head(q), y>> \in R
<1> DEFINE t == Tail(q)
<1>1. /\ Head(q) = q[1] /\ t \in Seq(X) /\ Len(q) \in Nat
      /\ Len(t) = Len(q) - 1
      /\ \A i \in 1 .. Len(q) - 1 : t[i] = q[i + 1]
      /\ DOMAIN q = 1 .. Len(q)
  BY HeadTailFacts, LenProperties
<1>2. DOMAIN t = 1 .. Len(q) - 1
  BY <1>1, LenProperties
<1> HIDE DEF t
<1>3. ASSUME NEW i \in 1 .. Len(q) - 1, NEW j \in 1 .. Len(q) - 1, i < j
      PROVE  <<t[i], t[j]>> \in R
  <2>1. /\ i + 1 \in DOMAIN q /\ j + 1 \in DOMAIN q /\ i + 1 < j + 1
        /\ t[i] = q[i + 1] /\ t[j] = q[j + 1]
    BY <1>1, <1>3
  <2>2. QED
    BY <2>1 DEF InOrder
<1>4. ASSUME NEW i \in 1 .. Len(q) - 1 PROVE <<Head(q), t[i]>> \in R
  <2>1. 1 \in DOMAIN q /\ i + 1 \in DOMAIN q /\ 1 < i + 1 /\ t[i] = q[i + 1]
    BY <1>1, <1>4
  <2>2. QED
    BY <1>1, <2>1 DEF InOrder
<1>5. QED
  BY <1>2, <1>3, <1>4 DEF InOrder, Members, t

(* What Keep leaves stays in order. *)
LEMMA OrderKept ==
  ASSUME NEW X, NEW q \in Seq(X), NEW S, NEW R, InOrder(q, R)
  PROVE  InOrder(Keep(q, S), R)
<1> DEFINE t == Keep(q, S)
<1>1. t \in Seq(X)
  BY KeepPicks
<1>2. PICK h : Picks(q, S, Len(q), t, h)
  BY KeepPicks
<1>3. /\ Len(q) \in Nat /\ DOMAIN q = 1 .. Len(q)
      /\ Len(t) \in Nat /\ DOMAIN t = 1 .. Len(t)
  BY <1>1, LenProperties
<1> HIDE DEF t
<1>4. ASSUME NEW i \in 1 .. Len(t), NEW j \in 1 .. Len(t), i < j
      PROVE  <<t[i], t[j]>> \in R
  <2>1. /\ h[i] \in DOMAIN q /\ h[j] \in DOMAIN q /\ h[i] < h[j]
        /\ t[i] = q[h[i]] /\ t[j] = q[h[j]]
    BY <1>2, <1>3, <1>4 DEF Picks
  <2>2. QED
    BY <2>1 DEF InOrder
<1>5. QED
  BY <1>3, <1>4 DEF InOrder, t

(* The first n of those that Keep picks are in order, and stand in R to the
   others it picks. *)
LEMMA OrderFirstKept ==
  ASSUME NEW X, NEW q \in Seq(X), NEW S, NEW n \in Nat, NEW R, InOrder(q, R)
  PROVE  LET p == Keep(q, S)
             t == SubSeq(p, 1, IF Len(p) < n THEN Len(p) ELSE n)
         IN  /\ InOrder(t, R)
             /\ \A x \in Members(t), y \in (Members(q) \cap S) \ Members(t) :
                  <<x, y>> \in R
<1> DEFINE p == Keep(q, S)
           t == SubSeq(p, 1, IF Len(p) < n THEN Len(p) ELSE n)
<1>1. /\ t \in Seq(X) /\ Len(t) \in Nat /\ Len(t) <= Len(p)
      /\ \A i \in 1 .. Len(t) : t[i] = p[i]
  BY FirstFew
<1>2. p \in Seq(X) /\ Members(p) = Members(q) \cap S /\ InOrder(p, R)
  BY KeepFacts, OrderKept
<1> HIDE DEF t, p
<1>3. DOMAIN t = 1 .. Len(t) /\ DOMAIN p = 1 .. Len(p) /\ Len(p) \in Nat
  BY <1>1, <1>2, LenProperties
<1>4. InOrder(t, R)
  BY <1>1, <1>2, <1>3 DEF InOrder
<1>5. ASSUME NEW x \in Members(t), NEW y \in Members(p) \ Members(t)
      PROVE  <<x, y>> \in R
  <2>1. PICK i \in 1 .. Len(t) : x = p[i]
    BY <1>1, <1>3 DEF Members
  <2>2. PICK j \in 1 .. Len(p) : y = p[j]
    BY <1>3 DEF Members
  <2>3. ~ (j <= Len(t))
    <3>1. j \in 1 .. Len(t) => p[j] \in Members(t)
      BY <1>1, <1>3 DEF Members
    <3>2. QED
      BY <1>5, <2>2, <3>1
  <2>4. i \in DOMAIN p /\ j \in DOMAIN p /\ i < j
    BY <1>1, <1>3, <2>3
  <2>5. QED
    BY <1>2, <2>1, <2>2, <2>4 DEF InOrder
<1>6. QED
  BY <1>2, <1>4, <1>5 DEF t, p

(* Two sequences in order, the elements of the first in R to the second's. *)
LEMMA OrderJoined ==
  ASSUME NEW X, NEW s \in Seq(X), NEW t \in Seq(X), NEW R,
         InOrder(s, R), InOrder(t, R),
         \A x \in Members(s), y \in Members(t) : <<x, y>> \in R
  PROVE  InOrder(s \o t, R)
<1> DEFINE st == s \o t
<1>1. /\ Len(s) \in Nat /\ DOMAIN s = 1 .. Len(s)
      /\ Len(t) \in Nat /\ DOMAIN t = 1 .. Len(t)
      /\ st \in Seq(X) /\ Len(st) = Len(s) + Len(t)
      /\ \A i \in 1 .. Len(s) + Len(t) :
           st[i] = IF i <= Len(s) THEN s[i] ELSE t[i - Len(s)]
  BY LenProperties, ConcatProperties
<1>2. DOMAIN st = 1 .. Len(s) + Len(t)
  BY <1>1, LenProperties
<1> HIDE DEF st
<1>3. ASSUME NEW i \in 1 .. Len(s) + Len(t), NEW j \in 1 .. Len(s) + Len(t), i < j
      PROVE  <<st[i], st[j]>> \in R
  <2>1. CASE j <= Len(s)
    <3>1. i \in DOMAIN s /\ j \in DOMAIN s /\ st[i] = s[i] /\ st[j] = s[j]
      BY <1>1, <1>3, <2>1
    <3>2. QED
      BY <1>3, <3>1 DEF InOrder
  <2>2. CASE i <= Len(s) /\ ~ (j <= Len(s))
    <3>1. j - Len(s) \in 1 .. Len(t) /\ st[j] = t[j - Len(s)] /\ st[i] = s[i]
      BY <1>1, <2>2
    <3>2. i \in DOMAIN s /\ j - Len(s) \in DOMAIN t
      BY <1>1, <2>2, <3>1
    <3>4. st[i] \in Members(s) /\ st[j] \in Members(t)
      BY <3>1, <3>2 DEF Members
    <3>3. QED
      BY <3>4
  <2>3. CASE ~ (i <= Len(s))
    <3>1. /\ i - Len(s) \in 1 .. Len(t) /\ j - Len(s) \in 1 .. Len(t)
          /\ i - Len(s) < j - Len(s)
          /\ st[i] = t[i - Len(s)] /\ st[j] = t[j - Len(s)]
      BY <1>1, <1>3, <2>3
    <3>2. QED
      BY <1>1, <3>1 DEF InOrder
  <2>4. QED
    BY <1>1, <1>3, <2>1, <2>2, <2>3
<1>4. QED
  BY <1>2, <1>3 DEF InOrder, st

(* Nothing is in order. *)
LEMMA OrderEmpty ==
  ASSUME NEW R
  PROVE  InOrder(<<>>, R)
<1>1. DOMAIN <<>> = {}
  BY EmptySeq, LenProperties
<1>2. QED
  BY <1>1 DEF InOrder

-----------------------------------------------------------------------------
(* Keep leaves a queue alone when all of it is kept. *)
LEMMA KeepAll ==
  ASSUME NEW X, NEW q \in Seq(X), NEW S, Members(q) \subseteq S
  PROVE  Keep(q, S) = q
<1> DEFINE t == Keep(q, S)
<1>1. t \in Seq(X)
  BY KeepPicks
<1>2. PICK h : Picks(q, S, Len(q), t, h)
  BY KeepPicks
<1>3. /\ Len(q) \in Nat /\ DOMAIN q = 1 .. Len(q)
      /\ Len(t) \in Nat /\ DOMAIN t = 1 .. Len(t)
  BY <1>1, LenProperties
<1> HIDE DEF t
<1> DEFINE Off == {i \in 1 .. Len(q) : i \notin 1 .. Len(t) \/ h[i] # i}
<1>4. \A i \in 1 .. Len(q) : \E k \in 1 .. Len(t) : h[k] = i
  BY <1>2, <1>3 DEF Picks, Members
<1>5. Off = {}
  <2> SUFFICES ASSUME Off # {} PROVE FALSE
    OBVIOUS
  <2>1. PICK n \in Off : \A m \in Off : n <= m
    <3>1. Off \subseteq Nat
      BY <1>3
    <3> HIDE DEF Off
    <3>2. QED
      BY <3>1, LeastNat
  <2>2. n \in 1 .. Len(q) /\ (n \notin 1 .. Len(t) \/ h[n] # n)
    BY <2>1
  <2>3. \A m \in 1 .. Len(q) : m < n => m \in 1 .. Len(t) /\ h[m] = m
    <3> SUFFICES ASSUME NEW m \in 1 .. Len(q), m < n
                 PROVE  m \in 1 .. Len(t) /\ h[m] = m
      OBVIOUS
    <3>1. m \notin Off
      BY <1>3, <2>1, <2>2
    <3>2. QED
      BY <3>1
  <2> HIDE DEF Off
  <2>4. PICK k \in 1 .. Len(t) : h[k] = n
    BY <1>4, <2>2
  <2>5. ~ (k < n)
    BY <1>3, <2>2, <2>3, <2>4
  <2>6. n \in 1 .. Len(t) /\ h[n] \in 1 .. Len(q) /\ (n = k \/ h[n] < h[k])
    BY <1>2, <1>3, <2>2, <2>4, <2>5 DEF Picks
  <2>7. h[n] < n
    BY <1>3, <2>2, <2>4, <2>6
  <2>8. n - 1 \in 1 .. Len(q) /\ n - 1 < n
    BY <1>3, <2>2, <2>6, <2>7
  <2>9. n - 1 \in 1 .. Len(t) /\ h[n - 1] = n - 1
    BY <2>3, <2>8
  <2>10. h[n - 1] < h[n]
    BY <1>2, <1>3, <2>6, <2>8, <2>9 DEF Picks
  <2>11. QED
    BY <1>3, <2>2, <2>6, <2>7, <2>9, <2>10
<1>6. \A i \in 1 .. Len(q) : i \in 1 .. Len(t) /\ h[i] = i
  BY <1>5
<1> HIDE DEF Off
<1>7. Len(t) = Len(q)
  <2>1. Len(q) <= Len(t)
    BY <1>3, <1>6
  <2>2. ASSUME Len(q) < Len(t) PROVE FALSE
    <3>1. Len(q) + 1 \in 1 .. Len(t) /\ h[Len(q) + 1] \in 1 .. Len(q)
      BY <1>2, <1>3, <2>2 DEF Picks
    <3>2. Len(q) \in 1 .. Len(q) /\ h[Len(q)] = Len(q) /\ Len(q) \in 1 .. Len(t)
      BY <1>3, <1>6, <3>1
    <3>3. h[Len(q)] < h[Len(q) + 1]
      BY <1>2, <1>3, <3>1, <3>2 DEF Picks
    <3>4. QED
      BY <1>3, <3>1, <3>2, <3>3
  <2>3. Len(t) \in Nat /\ Len(q) \in Nat
    BY <1>3
  <2>4. QED
    BY <2>1, <2>2, <2>3
<1>8. \A i \in 1 .. Len(q) : t[i] = q[i]
  BY <1>2, <1>3, <1>6, <1>7 DEF Picks
<1>9. t = q
  BY <1>1, <1>3, <1>7, <1>8, SeqEqual
<1>10. QED
  BY <1>9 DEF t

(* Keep leaves nothing when nothing is in S. *)
LEMMA KeepNone ==
  ASSUME NEW X, NEW q \in Seq(X), NEW S, Members(q) \cap S = {}
  PROVE  Keep(q, S) = <<>>
BY KeepFacts, MembersFacts
=============================================================================
