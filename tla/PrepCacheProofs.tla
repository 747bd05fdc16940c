-------------------------- MODULE PrepCacheProofs ---------------------------
(***************************************************************************)
(* The preparation cache for any number of callers, texts and threads and  *)
(* any size of the cache: whoever waits for a future waits for a call that *)
(* has a thread or is over, and a text that is being prepared is not       *)
(* prepared again.                                                         *)
(***************************************************************************)
EXTENDS PrepCache, QueueFacts, TLAPS, SequenceTheorems

Entry == [text : Texts, leader : Callers]

(* The cache is a dict, the calls without a thread are in the pool once,    *)
(* and the state of a call's own future goes with where the call is.        *)
Shape ==
  /\ \A i, j \in DOMAIN cache : cache[i].text = cache[j].text => i = j
  /\ \A i, j \in DOMAIN pool : pool[i] = pool[j] => i = j
  /\ \A i \in DOMAIN pool : stage[pool[i]] = "pooled"
  /\ \A c \in Callers :
       /\ stage[c] \in {"idle", "pooled", "waiting"} => future[c] = "none"
       /\ stage[c] = "leading" => future[c] = "pending"
       /\ stage[c] = "evicting" => future[c] = "result"
       /\ stage[c] = "dropping" => future[c] = "exception"

PInv == PrepTypeOK /\ Shape /\ FuturesAnswered /\ PreparedOnce

-----------------------------------------------------------------------------
(* Taking one element out of a sequence keeps the others, in their order. *)
LEMMA RemovedFacts ==
  ASSUME NEW S, NEW q \in Seq(S), NEW i \in 1 .. Len(q)
  PROVE  /\ Removed(q, i) \in Seq(S)
         /\ Len(Removed(q, i)) = Len(q) - 1
         /\ \A j \in 1 .. Len(q) - 1 :
              Removed(q, i)[j] = IF j < i THEN q[j] ELSE q[j + 1]
<1> DEFINE a == SubSeq(q, 1, i - 1)
           b == SubSeq(q, i + 1, Len(q))
<1>0. Len(q) \in Nat /\ \A k \in 1 .. Len(q) : q[k] \in S
  BY LenProperties, ElementOfSeq
<1>1. /\ a \in Seq(S) /\ Len(a) = i - 1
      /\ \A k \in 1 .. i - 1 : a[k] = q[k]
  <2>1. \A k \in 1 .. i - 1 : q[k] \in S
    BY <1>0
  <2>2. /\ a \in Seq(S) /\ Len(a) = IF 1 <= i - 1 THEN i - 1 - 1 + 1 ELSE 0
        /\ \A k \in 1 .. i - 1 - 1 + 1 : a[k] = q[1 + k - 1]
    BY <2>1, SubSeqProperties, <1>0
  <2>3. QED
    BY <2>2, <1>0
<1>2. /\ b \in Seq(S) /\ Len(b) = Len(q) - i
      /\ \A k \in 1 .. Len(q) - i : b[k] = q[i + k]
  <2>1. \A k \in i + 1 .. Len(q) : q[k] \in S
    BY <1>0
  <2>2. /\ b \in Seq(S)
        /\ Len(b) = IF i + 1 <= Len(q) THEN Len(q) - (i + 1) + 1 ELSE 0
        /\ \A k \in 1 .. Len(q) - (i + 1) + 1 : b[k] = q[i + 1 + k - 1]
    BY <2>1, SubSeqProperties, <1>0
  <2>3. QED
    BY <2>2, <1>0
<1> HIDE DEF a, b
<1>3. /\ a \o b \in Seq(S) /\ Len(a \o b) = Len(a) + Len(b)
      /\ \A k \in 1 .. Len(a) + Len(b) :
           (a \o b)[k] = IF k <= Len(a) THEN a[k] ELSE b[k - Len(a)]
  BY <1>1, <1>2, ConcatProperties
<1>4. Removed(q, i) = a \o b
  BY DEF Removed, a, b
<1>5. ASSUME NEW j \in 1 .. Len(q) - 1
      PROVE  (a \o b)[j] = IF j < i THEN q[j] ELSE q[j + 1]
  <2>1. CASE j < i
    BY <2>1, <1>0, <1>1, <1>2, <1>3
  <2>2. CASE ~ (j < i)
    <3> DEFINE k == j - (i - 1)
    <3>1. k \in 1 .. Len(q) - i /\ i + k = j + 1
      BY <2>2, <1>0
    <3>2. b[k] = q[j + 1]
      BY <3>1, <1>2
    <3>3. j \in 1 .. Len(a) + Len(b) /\ ~ (j <= Len(a)) /\ j - Len(a) = k
      BY <2>2, <1>0, <1>1, <1>2
    <3>4. (a \o b)[j] = b[k]
      BY <3>3, <1>3
    <3>5. QED
      BY <2>2, <3>2, <3>4
  <2>3. QED
    BY <2>1, <2>2
<1>6. QED
  BY <1>0, <1>1, <1>2, <1>3, <1>4, <1>5

(* The cache without a text: the entries of the other texts, each once. *)
LEMMA WithoutFacts ==
  ASSUME PrepTypeOK, Shape, NEW t \in Texts
  PROVE  /\ CacheWithout(t) \in Seq(Entry)
         /\ \A j \in DOMAIN CacheWithout(t) :
              \E i \in DOMAIN cache : CacheWithout(t)[j] = cache[i] /\ cache[i].text # t
         /\ \A i \in DOMAIN cache : cache[i].text # t =>
              \E j \in DOMAIN CacheWithout(t) : CacheWithout(t)[j] = cache[i]
         /\ \A j, k \in DOMAIN CacheWithout(t) :
              CacheWithout(t)[j].text = CacheWithout(t)[k].text => j = k
<1> DEFINE q == cache
           w == CacheWithout(t)
<1>1. q \in Seq(Entry) /\ Len(q) \in Nat /\ DOMAIN q = 1 .. Len(q)
  BY LenProperties DEF PrepTypeOK, Entry
<1>2. CASE EntriesOf(t) = {}
  BY <1>1, <1>2 DEF CacheWithout, EntriesOf, Shape
<1>3. CASE EntriesOf(t) # {}
  <2> DEFINE i == EntryOf(t)
  <2>1. i \in 1 .. Len(q) /\ q[i].text = t
    <3>1. i \in EntriesOf(t)
      BY <1>3 DEF EntryOf
    <3>2. QED
      BY <3>1, <1>1 DEF EntriesOf
  <2> HIDE DEF i
  <2>2. w = Removed(q, i)
    BY <1>3 DEF CacheWithout, i
  <2>3. /\ w \in Seq(Entry) /\ Len(w) = Len(q) - 1 /\ DOMAIN w = 1 .. Len(q) - 1
        /\ \A j \in 1 .. Len(q) - 1 : w[j] = IF j < i THEN q[j] ELSE q[j + 1]
    <3> HIDE DEF q, w
    <3>1. /\ Removed(q, i) \in Seq(Entry) /\ Len(Removed(q, i)) = Len(q) - 1
          /\ \A j \in 1 .. Len(q) - 1 :
               Removed(q, i)[j] = IF j < i THEN q[j] ELSE q[j + 1]
      BY <1>1, <2>1, RemovedFacts
    <3>2. DOMAIN Removed(q, i) = 1 .. Len(Removed(q, i))
      BY <3>1, LenProperties
    <3>3. QED
      BY <3>1, <3>2, <2>2
  <2> HIDE DEF q, w
  <2>4. \A m, n \in 1 .. Len(q) : q[m].text = q[n].text => m = n
    BY <1>1 DEF Shape, q
  <2>5. \A j \in DOMAIN w : \E m \in 1 .. Len(q) : w[j] = q[m] /\ q[m].text # t
    <3>1. SUFFICES ASSUME NEW j \in DOMAIN w
                   PROVE  \E m \in 1 .. Len(q) : w[j] = q[m] /\ q[m].text # t
      OBVIOUS
    <3> DEFINE m == IF j < i THEN j ELSE j + 1
    <3>2. m \in 1 .. Len(q) /\ m # i /\ w[j] = q[m]
      BY <1>1, <2>1, <2>3
    <3>3. QED
      BY <3>2, <2>1, <2>4
  <2>6. \A m \in 1 .. Len(q) : q[m].text # t => \E j \in DOMAIN w : w[j] = q[m]
    <3>1. SUFFICES ASSUME NEW m \in 1 .. Len(q), q[m].text # t
                   PROVE  \E j \in DOMAIN w : w[j] = q[m]
      OBVIOUS
    <3> DEFINE j == IF m < i THEN m ELSE m - 1
    <3>2. m # i
      BY <3>1, <2>1
    <3>3. j \in 1 .. Len(q) - 1 /\ (IF j < i THEN j ELSE j + 1) = m
      BY <3>2, <1>1, <2>1
    <3>4. QED
      BY <3>3, <2>3
  <2>7. \A j, k \in DOMAIN w : w[j].text = w[k].text => j = k
    <3>1. SUFFICES ASSUME NEW j \in DOMAIN w, NEW k \in DOMAIN w, w[j].text = w[k].text
                   PROVE  j = k
      OBVIOUS
    <3> DEFINE m == IF j < i THEN j ELSE j + 1
               n == IF k < i THEN k ELSE k + 1
    <3>2. m \in 1 .. Len(q) /\ n \in 1 .. Len(q) /\ w[j] = q[m] /\ w[k] = q[n]
      BY <1>1, <2>1, <2>3
    <3>3. m = n
      BY <3>1, <3>2, <2>4
    <3>4. QED
      BY <3>3, <2>1, <2>3, <1>1
  <2>8. QED
    BY <1>1, <2>3, <2>5, <2>6, <2>7 DEF q, w
<1>4. QED
  BY <1>2, <1>3

(* What the type of the state says of the elements of its parts. *)
LEMMA TypeFacts ==
  ASSUME PrepTypeOK
  PROVE  /\ stage \in [Callers -> {"idle", "pooled"} \cup Running \cup Finished]
         /\ future \in [Callers -> {"none", "pending", "result", "exception"}]
         /\ awaited \in [Callers -> Callers]
         /\ pool \in Seq(Callers) /\ Len(pool) \in Nat /\ DOMAIN pool = 1 .. Len(pool)
         /\ \A i \in DOMAIN pool : pool[i] \in Callers
         /\ cache \in Seq(Entry) /\ Len(cache) \in Nat
         /\ DOMAIN cache = 1 .. Len(cache)
         /\ \A i \in DOMAIN cache :
              cache[i] \in Entry /\ cache[i].leader \in Callers /\ cache[i].text \in Texts
         /\ \A c \in Callers : TextOf[c] \in Texts
<1>1. pool \in Seq(Callers) /\ cache \in Seq(Entry)
  BY DEF PrepTypeOK, Entry
<1>2. /\ Len(pool) \in Nat /\ DOMAIN pool = 1 .. Len(pool)
      /\ Len(cache) \in Nat /\ DOMAIN cache = 1 .. Len(cache)
  BY <1>1, LenProperties
<1>3. \A i \in 1 .. Len(pool) : pool[i] \in Callers
  BY <1>1, ElementOfSeq
<1>4. \A i \in 1 .. Len(cache) : cache[i] \in Entry
  BY <1>1, ElementOfSeq
<1>5. \A e \in Entry : e.leader \in Callers /\ e.text \in Texts
  BY DEF Entry
<1>6. \A c \in Callers : TextOf[c] \in Texts
  BY PrepAssumption
<1>7. QED
  BY <1>1, <1>2, <1>3, <1>4, <1>5, <1>6 DEF PrepTypeOK

\* The cache is empty initially.
LEMMA InitPInv == PrepInit => PInv
BY EmptySeq DEF PrepInit, PInv, PrepTypeOK, Shape, FuturesAnswered, PreparedOnce,
   Done, Running, Finished

(* A call of prepare_cached joins the pool. *)
LEMMA CallPInv == ASSUME PInv, NEW c \in Callers, Call(c) PROVE PInv'
<1> USE DEF PInv
<1>1. /\ pool \in Seq(Callers) /\ Len(pool) \in Nat /\ DOMAIN pool = 1 .. Len(pool)
      /\ stage \in [Callers -> {"idle", "pooled"} \cup Running \cup Finished]
  BY LenProperties DEF PrepTypeOK
<1>2. /\ stage[c] = "idle" /\ stage' = [stage EXCEPT ![c] = "pooled"]
      /\ UNCHANGED <<cache, future, awaited>> /\ pool' = Append(pool, c)
  BY DEF Call
<1>3. /\ pool' \in Seq(Callers) /\ DOMAIN pool' = 1 .. Len(pool) + 1
      /\ \A i \in 1 .. Len(pool) : pool'[i] = pool[i]
      /\ pool'[Len(pool) + 1] = c
  BY <1>1, <1>2, AppendProperties, LenProperties
<1>4. \A i \in 1 .. Len(pool) : pool[i] # c
  BY <1>1, <1>2 DEF Shape
<1>5. PrepTypeOK'
  BY <1>1, <1>2, <1>3 DEF PrepTypeOK
<1>6. Shape'
  <2>1. \A i, j \in DOMAIN pool' : pool'[i] = pool'[j] => i = j
    BY <1>1, <1>3, <1>4 DEF Shape
  <2>2. \A i \in DOMAIN pool' : stage'[pool'[i]] = "pooled"
    <3>1. SUFFICES ASSUME NEW i \in DOMAIN pool' PROVE stage'[pool'[i]] = "pooled"
      OBVIOUS
    <3>2. CASE i = Len(pool) + 1
      BY <3>2, <1>1, <1>2, <1>3
    <3>3. CASE i \in 1 .. Len(pool)
      BY <3>3, <1>1, <1>2, <1>3, <1>4 DEF Shape
    <3>4. QED
      BY <3>2, <3>3, <1>1, <1>3
  <2>3. QED
    BY <2>1, <2>2, <1>1, <1>2 DEF Shape
<1>7. FuturesAnswered'
  BY <1>1, <1>2 DEF FuturesAnswered, Done, PrepTypeOK
<1>8. PreparedOnce'
  BY <1>1, <1>2 DEF PreparedOnce
<1>9. QED
  BY <1>5, <1>6, <1>7, <1>8

(* A preparation that ends answers its future. *)
LEMMA PreparePInv == ASSUME PInv, NEW c \in Callers, Prepare(c) PROVE PInv'
<1> USE DEF PInv
<1>1. /\ stage[c] = "leading" /\ UNCHANGED <<pool, cache, awaited>>
      /\ \/ /\ stage' = [stage EXCEPT ![c] = "evicting"]
            /\ future' = [future EXCEPT ![c] = "result"]
         \/ /\ stage' = [stage EXCEPT ![c] = "dropping"]
            /\ future' = [future EXCEPT ![c] = "exception"]
  BY DEF Prepare
<1>2. /\ stage \in [Callers -> {"idle", "pooled"} \cup Running \cup Finished]
      /\ future \in [Callers -> {"none", "pending", "result", "exception"}]
      /\ pool \in Seq(Callers) /\ \A i \in DOMAIN pool : pool[i] \in Callers
      /\ \A i \in DOMAIN cache : cache[i].leader \in Callers
      /\ awaited \in [Callers -> Callers]
  BY TypeFacts
<1>3. PrepTypeOK'
  BY <1>1, <1>2 DEF PrepTypeOK, Running
<1>4. Shape'
  BY <1>1, <1>2 DEF Shape
<1>5. FuturesAnswered'
  BY <1>1, <1>2 DEF FuturesAnswered, Done
<1>6. PreparedOnce'
  BY <1>1, <1>2 DEF PreparedOnce, Shape
<1>7. QED
  BY <1>3, <1>4, <1>5, <1>6

(* A follower that wakes. *)
LEMMA ResumePInv == ASSUME PInv, NEW c \in Callers, Resume(c) PROVE PInv'
<1> USE DEF PInv
<1>1. /\ stage[c] = "waiting" /\ UNCHANGED <<pool, cache, future, awaited>>
      /\ \/ stage' = [stage EXCEPT ![c] = "prepared"]
         \/ stage' = [stage EXCEPT ![c] = "raised"]
  BY DEF Resume
<1>2. /\ stage \in [Callers -> {"idle", "pooled"} \cup Running \cup Finished]
      /\ pool \in Seq(Callers) /\ \A i \in DOMAIN pool : pool[i] \in Callers
      /\ \A i \in DOMAIN cache : cache[i].leader \in Callers
      /\ awaited \in [Callers -> Callers]
  BY TypeFacts
<1>3. PrepTypeOK'
  BY <1>1, <1>2 DEF PrepTypeOK, Finished
<1>4. Shape'
  BY <1>1, <1>2 DEF Shape
<1>5. FuturesAnswered'
  BY <1>1, <1>2 DEF FuturesAnswered, Done
<1>6. PreparedOnce'
  BY <1>1, <1>2 DEF PreparedOnce, Shape
<1>7. QED
  BY <1>3, <1>4, <1>5, <1>6

(* A leader that failed takes its text out of the cache, and with it every  *)
(* entry that could lead to its future.                                     *)
LEMMA DropPInv == ASSUME PInv, NEW c \in Callers, DropFailure(c) PROVE PInv'
<1> USE DEF PInv
<1> DEFINE t == TextOf[c]
<1>1. /\ stage[c] = "dropping" /\ cache' = CacheWithout(t)
      /\ stage' = [stage EXCEPT ![c] = "raised"] /\ UNCHANGED <<pool, future, awaited>>
  BY DEF DropFailure
<1>2. /\ stage \in [Callers -> {"idle", "pooled"} \cup Running \cup Finished]
      /\ pool \in Seq(Callers) /\ \A i \in DOMAIN pool : pool[i] \in Callers
      /\ \A i \in DOMAIN cache : cache[i].leader \in Callers
      /\ awaited \in [Callers -> Callers] /\ t \in Texts
  BY TypeFacts
<1>3. /\ cache' \in Seq(Entry)
      /\ \A j \in DOMAIN cache' :
           \E i \in DOMAIN cache : cache'[j] = cache[i] /\ cache[i].text # t
      /\ \A i \in DOMAIN cache : cache[i].text # t =>
           \E j \in DOMAIN cache' : cache'[j] = cache[i]
      /\ \A j, k \in DOMAIN cache' : cache'[j].text = cache'[k].text => j = k
  BY <1>1, <1>2, WithoutFacts
<1>4. PrepTypeOK'
  BY <1>1, <1>2, <1>3 DEF PrepTypeOK, Finished, Entry
<1>5. Shape'
  BY <1>1, <1>2, <1>3 DEF Shape
<1>6. FuturesAnswered'
  <2>1. \A d \in Callers : stage'[d] = "waiting" =>
          /\ TextOf[awaited'[d]] = TextOf[d]
          /\ \/ stage'[awaited'[d]] = "leading"
             \/ future'[awaited'[d]] \in {"result", "exception"}
    <3>1. SUFFICES ASSUME NEW d \in Callers, stage'[d] = "waiting"
                   PROVE  /\ TextOf[awaited[d]] = TextOf[d]
                          /\ \/ stage'[awaited[d]] = "leading"
                             \/ future[awaited[d]] \in {"result", "exception"}
      BY <1>1
    <3>2. stage[d] = "waiting" /\ awaited[d] \in Callers
      BY <3>1, <1>1, <1>2
    <3>3. /\ TextOf[awaited[d]] = TextOf[d]
          /\ \/ stage[awaited[d]] = "leading"
             \/ future[awaited[d]] \in {"result", "exception"}
      BY <3>2 DEF FuturesAnswered, Done
    <3>4. awaited[d] = c => stage[awaited[d]] # "leading"
      BY <1>1
    <3>5. QED
      BY <3>2, <3>3, <3>4, <1>1, <1>2
  <2>2. ASSUME NEW j \in DOMAIN cache'
        PROVE  LET l == cache'[j].leader
               IN /\ TextOf[l] = cache'[j].text
                  /\ stage'[l] = "leading" \/ future'[l] \in {"result", "exception"}
                  /\ future'[l] = "exception" => stage'[l] = "dropping"
    <3>1. PICK i \in DOMAIN cache : cache'[j] = cache[i] /\ cache[i].text # t
      BY <1>3
    <3> DEFINE l == cache[i].leader
    <3>2. /\ TextOf[l] = cache[i].text /\ l \in Callers
          /\ stage[l] = "leading" \/ future[l] \in {"result", "exception"}
          /\ future[l] = "exception" => stage[l] = "dropping"
      BY <1>2 DEF FuturesAnswered, Done
    <3>3. l # c
      BY <3>1, <3>2
    <3>4. stage'[l] = stage[l] /\ future' = future
      BY <3>2, <3>3, <1>1, <1>2
    <3>5. QED
      BY <3>1, <3>2, <3>4
  <2>3. QED
    BY <2>1, <2>2 DEF FuturesAnswered, Done
<1>7. PreparedOnce'
  <2>1. SUFFICES ASSUME NEW d \in Callers, stage'[d] = "leading"
                 PROVE  \/ \E i \in DOMAIN cache' : cache'[i].leader = d
                        \/ \E e \in Callers : TextOf[e] = TextOf[d]
                             /\ future'[e] = "exception" /\ stage'[e] = "raised"
    BY DEF PreparedOnce
  <2>2. stage[d] = "leading" /\ d # c
    BY <2>1, <1>1, <1>2
  <2>3. CASE TextOf[d] = t
    BY <2>3, <1>1, <1>2 DEF Shape
  <2>4. CASE TextOf[d] # t
    <3>1. CASE \E i \in DOMAIN cache : cache[i].leader = d
      BY <3>1, <2>4, <1>3 DEF FuturesAnswered
    <3>2. CASE \E e \in Callers : TextOf[e] = TextOf[d]
                 /\ future[e] = "exception" /\ stage[e] = "raised"
      BY <3>2, <1>1, <1>2
    <3>3. QED
      BY <3>1, <3>2, <2>2 DEF PreparedOnce
  <2>5. QED
    BY <2>3, <2>4
<1>8. QED
  BY <1>4, <1>5, <1>6, <1>7

(* Making room only takes entries from the front, and only answered ones. *)
LEMMA EvictedFacts ==
  ASSUME PrepTypeOK
  PROVE  \E n \in 0 .. Len(cache) :
           /\ Evicted(cache) = SubSeq(cache, n + 1, Len(cache))
           /\ \A i \in 1 .. n : Done(cache[i].leader)
<1> DEFINE excess == IF Len(cache) > CacheSize THEN Len(cache) - CacheSize ELSE 0
           stuck == {i \in 1 .. excess : ~ Done(cache[i].leader)}
           first == CHOOSE i \in stuck : \A j \in stuck : i <= j
<1>1. Len(cache) \in Nat /\ excess \in 0 .. Len(cache)
  BY TypeFacts, PrepAssumption
<1>2. CASE stuck = {}
  <2>1. Evicted(cache) = SubSeq(cache, excess + 1, Len(cache))
    BY <1>2 DEF Evicted
  <2>2. \A i \in 1 .. excess : Done(cache[i].leader)
    BY <1>2
  <2>3. QED
    BY <1>1, <2>1, <2>2
<1>3. CASE stuck # {}
  <2>1. \E i \in stuck : \A j \in stuck : i <= j
    <3>1. stuck \in SUBSET Nat
      BY <1>1
    <3> HIDE DEF stuck
    <3>2. QED
      BY <1>3, <3>1, LeastNat
  <2>2. first \in stuck /\ \A j \in stuck : first <= j
    BY <2>1
  <2>3. Evicted(cache) = SubSeq(cache, (first - 1) + 1, Len(cache))
    BY <1>3 DEF Evicted
  <2> HIDE DEF first
  <2>4. first - 1 \in 0 .. Len(cache)
    BY <1>1, <2>2
  <2>5. \A i \in 1 .. first - 1 : Done(cache[i].leader)
    BY <1>1, <2>2
  <2>6. QED
    BY <2>3, <2>4, <2>5
<1>4. QED
  BY <1>2, <1>3

(* The cache from an entry on: the entries from there. *)
LEMMA FrontFacts ==
  ASSUME PrepTypeOK, NEW n \in 0 .. Len(cache)
  PROVE  LET w == SubSeq(cache, n + 1, Len(cache))
         IN /\ w \in Seq(Entry) /\ DOMAIN w = 1 .. Len(cache) - n
            /\ \A j \in 1 .. Len(cache) - n : w[j] = cache[n + j]
<1> DEFINE w == SubSeq(cache, n + 1, Len(cache))
<1>1. Len(cache) \in Nat /\ \A i \in 1 .. Len(cache) : cache[i] \in Entry
  BY TypeFacts
<1>2. \A i \in n + 1 .. Len(cache) : cache[i] \in Entry
  BY <1>1
<1>3. /\ w \in Seq(Entry)
      /\ Len(w) = IF n + 1 <= Len(cache) THEN Len(cache) - (n + 1) + 1 ELSE 0
      /\ \A j \in 1 .. Len(cache) - (n + 1) + 1 : w[j] = cache[n + 1 + j - 1]
  BY <1>1, <1>2, SubSeqProperties
<1> HIDE DEF w
<1>4. DOMAIN w = 1 .. Len(w)
  BY <1>3, LenProperties
<1>5. QED
  BY <1>1, <1>3, <1>4 DEF w

\* Eviction drops the oldest entries: whoever waits for one of them still
\* holds its future.
LEMMA EvictPInv == ASSUME PInv, NEW c \in Callers, Evict(c) PROVE PInv'
<1> USE DEF PInv
<1>1. /\ stage[c] = "evicting" /\ cache' = Evicted(cache)
      /\ stage' = [stage EXCEPT ![c] = "prepared"] /\ UNCHANGED <<pool, future, awaited>>
  BY DEF Evict
<1>2. /\ stage \in [Callers -> {"idle", "pooled"} \cup Running \cup Finished]
      /\ pool \in Seq(Callers) /\ \A i \in DOMAIN pool : pool[i] \in Callers
      /\ Len(cache) \in Nat /\ DOMAIN cache = 1 .. Len(cache)
      /\ \A i \in DOMAIN cache : cache[i].leader \in Callers
      /\ awaited \in [Callers -> Callers]
  BY TypeFacts
<1>3. PICK n \in 0 .. Len(cache) :
           /\ cache' = SubSeq(cache, n + 1, Len(cache))
           /\ \A i \in 1 .. n : Done(cache[i].leader)
  BY <1>1, EvictedFacts
<1>4. /\ cache' \in Seq(Entry) /\ DOMAIN cache' = 1 .. Len(cache) - n
      /\ \A j \in 1 .. Len(cache) - n : n + j \in DOMAIN cache /\ cache'[j] = cache[n + j]
  BY <1>2, <1>3, FrontFacts
<1>5. PrepTypeOK'
  BY <1>1, <1>2, <1>4 DEF PrepTypeOK, Finished, Entry
<1>6. Shape'
  <2>1. ASSUME NEW i \in DOMAIN cache', NEW j \in DOMAIN cache', cache'[i].text = cache'[j].text
        PROVE  i = j
    <3>1. n + i = n + j
      BY <2>1, <1>4 DEF Shape
    <3>2. QED
      BY <3>1, <1>2, <1>4
  <2>2. QED
    BY <2>1, <1>1, <1>2 DEF Shape
<1>7. FuturesAnswered'
  <2>1. future[c] = "result"
    BY <1>1 DEF Shape
  <2>2. \A d \in Callers : stage'[d] = "waiting" =>
          /\ TextOf[awaited'[d]] = TextOf[d]
          /\ \/ stage'[awaited'[d]] = "leading"
             \/ future'[awaited'[d]] \in {"result", "exception"}
    BY <1>1, <1>2, <2>1 DEF FuturesAnswered, Done
  <2>3. ASSUME NEW j \in DOMAIN cache'
        PROVE  LET l == cache'[j].leader
               IN /\ TextOf[l] = cache'[j].text
                  /\ stage'[l] = "leading" \/ future'[l] \in {"result", "exception"}
                  /\ future'[l] = "exception" => stage'[l] = "dropping"
    <3>1. PICK i \in DOMAIN cache : cache'[j] = cache[i]
      BY <1>4
    <3> DEFINE l == cache[i].leader
    <3>2. /\ TextOf[l] = cache[i].text /\ l \in Callers
          /\ stage[l] = "leading" \/ future[l] \in {"result", "exception"}
          /\ future[l] = "exception" => stage[l] = "dropping"
      BY <1>2 DEF FuturesAnswered, Done
    <3>3. QED
      BY <3>1, <3>2, <2>1, <1>1, <1>2
  <2>4. QED
    BY <2>2, <2>3 DEF FuturesAnswered, Done
<1>8. PreparedOnce'
  <2>1. SUFFICES ASSUME NEW d \in Callers, stage'[d] = "leading"
                 PROVE  \/ \E i \in DOMAIN cache' : cache'[i].leader = d
                        \/ \E e \in Callers : TextOf[e] = TextOf[d]
                             /\ future'[e] = "exception" /\ stage'[e] = "raised"
    BY DEF PreparedOnce
  <2>2. stage[d] = "leading" /\ future[d] = "pending"
    BY <2>1, <1>1, <1>2 DEF Shape
  <2>3. CASE \E i \in DOMAIN cache : cache[i].leader = d
    <3>1. PICK i \in DOMAIN cache : cache[i].leader = d
      BY <2>3
    <3>2. i \notin 1 .. n
      BY <3>1, <2>2, <1>3 DEF Done
    <3>3. i - n \in 1 .. Len(cache) - n /\ n + (i - n) = i
      BY <3>2, <1>2
    <3> DEFINE j == i - n
    <3>4. j \in DOMAIN cache' /\ cache'[j] = cache[n + j]
      BY <3>3, <1>4
    <3>5. cache'[j].leader = d
      BY <3>1, <3>3, <3>4
    <3>6. QED
      BY <3>4, <3>5
  <2>4. CASE \E e \in Callers : TextOf[e] = TextOf[d]
               /\ future[e] = "exception" /\ stage[e] = "raised"
    BY <2>4, <1>1, <1>2
  <2>5. QED
    BY <2>2, <2>3, <2>4 DEF PreparedOnce
<1>9. QED
  BY <1>5, <1>6, <1>7, <1>8

(* A thread that takes up the first call of the pool. *)
LEMMA PoolHead ==
  ASSUME PrepTypeOK, Shape, NEW c \in Callers, Lookup(c)
  PROVE  /\ stage[c] = "pooled" /\ future[c] = "none"
         /\ pool' \in Seq(Callers)
         /\ \A i \in DOMAIN pool' : pool'[i] # c /\ stage[pool'[i]] = "pooled"
         /\ \A i, j \in DOMAIN pool' : pool'[i] = pool'[j] => i = j
<1>1. pool # << >> /\ c = Head(pool) /\ pool' = Tail(pool)
  BY DEF Lookup
<1>2. pool \in Seq(Callers) /\ Len(pool) \in Nat /\ DOMAIN pool = 1 .. Len(pool)
  BY TypeFacts
<1>3. /\ pool' \in Seq(Callers) /\ Len(pool') = Len(pool) - 1
      /\ \A i \in 1 .. Len(pool') : pool'[i] = pool[i + 1]
  BY <1>1, <1>2, HeadTailProperties
<1>4. DOMAIN pool' = 1 .. Len(pool) - 1
  BY <1>3, LenProperties
<1>5. Len(pool) > 0 /\ c = pool[1]
  BY <1>1, <1>2, EmptySeq
<1>6. stage[c] = "pooled" /\ future[c] = "none"
  BY <1>2, <1>5 DEF Shape
<1>7. \A i \in DOMAIN pool' : i + 1 \in DOMAIN pool /\ i + 1 # 1 /\ pool'[i] = pool[i + 1]
  BY <1>2, <1>3, <1>4
<1>8. \A i \in DOMAIN pool' : pool'[i] # c /\ stage[pool'[i]] = "pooled"
  BY <1>2, <1>5, <1>7 DEF Shape
<1>9. ASSUME NEW i \in DOMAIN pool', NEW j \in DOMAIN pool', pool'[i] = pool'[j]
      PROVE  i = j
  <2>1. i + 1 = j + 1
    BY <1>7, <1>9 DEF Shape
  <2>2. QED
    BY <2>1, <1>2, <1>4
<1>10. QED
  BY <1>3, <1>6, <1>8, <1>9

(* The call leads: its text was not in the cache. *)
LEMMA LeadPInv ==
  ASSUME PInv, NEW c \in Callers, Lookup(c), EntriesOf(TextOf[c]) = {}
  PROVE  PInv'
<1> USE DEF PInv
<1> DEFINE t == TextOf[c]
           e == [text |-> t, leader |-> c]
<1>1. /\ stage' = [stage EXCEPT ![c] = "leading"] /\ cache' = Append(cache, e)
      /\ future' = [future EXCEPT ![c] = "pending"] /\ awaited' = awaited
  BY DEF Lookup
<1>2. /\ stage \in [Callers -> {"idle", "pooled"} \cup Running \cup Finished]
      /\ future \in [Callers -> {"none", "pending", "result", "exception"}]
      /\ awaited \in [Callers -> Callers] /\ t \in Texts
      /\ cache \in Seq(Entry) /\ Len(cache) \in Nat /\ DOMAIN cache = 1 .. Len(cache)
      /\ \A i \in DOMAIN cache : cache[i].leader \in Callers
  BY TypeFacts
<1>3. /\ stage[c] = "pooled" /\ future[c] = "none" /\ pool' \in Seq(Callers)
      /\ \A i \in DOMAIN pool' : pool'[i] # c /\ stage[pool'[i]] = "pooled"
      /\ \A i, j \in DOMAIN pool' : pool'[i] = pool'[j] => i = j
  BY PoolHead
<1>4. e \in Entry /\ e.text = t /\ e.leader = c
  BY <1>2 DEF Entry
<1> HIDE DEF e
<1>5. /\ cache' \in Seq(Entry) /\ Len(cache') = Len(cache) + 1
      /\ \A i \in 1 .. Len(cache) : cache'[i] = cache[i]
      /\ cache'[Len(cache) + 1] = e
  BY <1>1, <1>2, <1>4, AppendProperties
<1>6. DOMAIN cache' = 1 .. Len(cache) + 1
  BY <1>5, LenProperties
<1>7. \A i \in 1 .. Len(cache) : cache[i].text # t /\ cache[i].leader # c
  <2>1. \A i \in 1 .. Len(cache) : cache[i].text # t
    BY <1>2 DEF EntriesOf
  <2>2. \A i \in 1 .. Len(cache) : TextOf[cache[i].leader] = cache[i].text
    BY <1>2 DEF FuturesAnswered
  <2>3. QED
    BY <2>1, <2>2
<1>8. PrepTypeOK'
  BY <1>1, <1>2, <1>3, <1>5 DEF PrepTypeOK, Running, Entry
<1>9. Shape'
  <2>1. \A i, j \in DOMAIN cache' : cache'[i].text = cache'[j].text => i = j
    BY <1>2, <1>4, <1>5, <1>6, <1>7 DEF Shape
  <2>2. \A i \in DOMAIN pool' : stage'[pool'[i]] = "pooled"
    BY <1>1, <1>3
  <2>3. \A d \in Callers :
          /\ stage'[d] \in {"idle", "pooled", "waiting"} => future'[d] = "none"
          /\ stage'[d] = "leading" => future'[d] = "pending"
          /\ stage'[d] = "evicting" => future'[d] = "result"
          /\ stage'[d] = "dropping" => future'[d] = "exception"
    BY <1>1, <1>2 DEF Shape
  <2>4. QED
    BY <2>1, <2>2, <2>3, <1>3 DEF Shape
<1>10. FuturesAnswered'
  <2>1. ASSUME NEW d \in Callers, stage'[d] = "waiting"
        PROVE  /\ TextOf[awaited'[d]] = TextOf[d]
               /\ \/ stage'[awaited'[d]] = "leading"
                  \/ future'[awaited'[d]] \in {"result", "exception"}
    <3>1. stage[d] = "waiting" /\ awaited'[d] = awaited[d] /\ awaited[d] \in Callers
      BY <2>1, <1>1, <1>2
    <3>2. /\ TextOf[awaited[d]] = TextOf[d]
          /\ stage[awaited[d]] = "leading" \/ future[awaited[d]] \in {"result", "exception"}
      BY <3>1 DEF FuturesAnswered, Done
    <3>3. awaited[d] # c
      BY <3>2, <1>3
    <3>4. QED
      BY <3>1, <3>2, <3>3, <1>1, <1>2
  <2>2. ASSUME NEW j \in DOMAIN cache'
        PROVE  LET l == cache'[j].leader
               IN /\ TextOf[l] = cache'[j].text
                  /\ stage'[l] = "leading" \/ future'[l] \in {"result", "exception"}
                  /\ future'[l] = "exception" => stage'[l] = "dropping"
    <3>1. CASE j = Len(cache) + 1
      BY <3>1, <1>1, <1>2, <1>4, <1>5
    <3>2. CASE j \in 1 .. Len(cache)
      <4> DEFINE l == cache[j].leader
      <4>1. /\ TextOf[l] = cache[j].text /\ l \in Callers /\ l # c
            /\ stage[l] = "leading" \/ future[l] \in {"result", "exception"}
            /\ future[l] = "exception" => stage[l] = "dropping"
        BY <3>2, <1>2, <1>7 DEF FuturesAnswered, Done
      <4>2. cache'[j] = cache[j] /\ stage'[l] = stage[l] /\ future'[l] = future[l]
        BY <3>2, <4>1, <1>1, <1>2, <1>5
      <4>3. QED
        BY <4>1, <4>2
    <3>3. QED
      BY <3>1, <3>2, <1>2, <1>6
  <2>3. QED
    BY <2>1, <2>2 DEF FuturesAnswered, Done
<1>11. PreparedOnce'
  <2>1. SUFFICES ASSUME NEW d \in Callers, stage'[d] = "leading"
                 PROVE  \/ \E i \in DOMAIN cache' : cache'[i].leader = d
                        \/ \E f \in Callers : TextOf[f] = TextOf[d]
                             /\ future'[f] = "exception" /\ stage'[f] = "raised"
    BY DEF PreparedOnce
  <2>2. CASE d = c
    <3>1. Len(cache) + 1 \in DOMAIN cache'
      BY <1>2, <1>6
    <3>2. QED
      BY <2>2, <3>1, <1>4, <1>5
  <2>3. CASE d # c
    <3>1. stage[d] = "leading"
      BY <2>1, <2>3, <1>1, <1>2
    <3>2. CASE \E i \in DOMAIN cache : cache[i].leader = d
      <4>1. PICK i \in DOMAIN cache : cache[i].leader = d
        BY <3>2
      <4>2. i \in DOMAIN cache' /\ cache'[i] = cache[i]
        BY <1>2, <1>5, <1>6
      <4>3. QED
        BY <4>1, <4>2
    <3>3. CASE \E f \in Callers : TextOf[f] = TextOf[d]
                 /\ future[f] = "exception" /\ stage[f] = "raised"
      BY <3>3, <1>1, <1>2, <1>3
    <3>4. QED
      BY <3>1, <3>2, <3>3 DEF PreparedOnce
  <2>4. QED
    BY <2>2, <2>3
<1>12. QED
  BY <1>8, <1>9, <1>10, <1>11

(* The call follows: the entry of its text moves to the end. *)
LEMMA FollowPInv ==
  ASSUME PInv, NEW c \in Callers, Lookup(c), EntriesOf(TextOf[c]) # {}
  PROVE  PInv'
<1> USE DEF PInv
<1> DEFINE t == TextOf[c]
           w == CacheWithout(t)
           e == cache[EntryOf(t)]
<1>1. /\ stage' = [stage EXCEPT ![c] = "waiting"] /\ cache' = Append(w, e)
      /\ awaited' = [awaited EXCEPT ![c] = e.leader] /\ future' = future
  BY DEF Lookup
<1>2. /\ stage \in [Callers -> {"idle", "pooled"} \cup Running \cup Finished]
      /\ future \in [Callers -> {"none", "pending", "result", "exception"}]
      /\ awaited \in [Callers -> Callers] /\ t \in Texts
      /\ \A i \in DOMAIN cache : cache[i] \in Entry /\ cache[i].leader \in Callers
  BY TypeFacts
<1>3. /\ stage[c] = "pooled" /\ future[c] = "none" /\ pool' \in Seq(Callers)
      /\ \A i \in DOMAIN pool' : pool'[i] # c /\ stage[pool'[i]] = "pooled"
      /\ \A i, j \in DOMAIN pool' : pool'[i] = pool'[j] => i = j
  BY PoolHead
<1>4. EntryOf(t) \in DOMAIN cache /\ e.text = t
  <2>1. EntryOf(t) \in EntriesOf(t)
    BY DEF EntryOf
  <2>2. QED
    BY <2>1 DEF EntriesOf
<1>5. e \in Entry /\ e.leader \in Callers /\ e.leader # c
  <2>1. e \in Entry /\ e.leader \in Callers
    BY <1>2, <1>4
  <2>2. stage[e.leader] = "leading" \/ future[e.leader] \in {"result", "exception"}
    BY <1>4 DEF FuturesAnswered, Done
  <2>3. QED
    BY <2>1, <2>2, <1>3
<1>6. /\ w \in Seq(Entry)
      /\ \A j \in DOMAIN w : \E i \in DOMAIN cache : w[j] = cache[i] /\ cache[i].text # t
      /\ \A i \in DOMAIN cache : cache[i].text # t => \E j \in DOMAIN w : w[j] = cache[i]
      /\ \A j, k \in DOMAIN w : w[j].text = w[k].text => j = k
  BY <1>2, WithoutFacts
<1>7. \A i \in DOMAIN cache : cache[i].text = t => cache[i] = e
  BY <1>4 DEF Shape
<1> HIDE DEF w, e
<1>8. /\ cache' \in Seq(Entry) /\ DOMAIN cache' = 1 .. Len(w) + 1
      /\ Len(w) \in Nat /\ DOMAIN w = 1 .. Len(w)
      /\ \A i \in 1 .. Len(w) : cache'[i] = w[i]
      /\ cache'[Len(w) + 1] = e
  BY <1>1, <1>5, <1>6, AppendProperties, LenProperties
<1>9. \A j \in DOMAIN cache' : \E i \in DOMAIN cache : cache'[j] = cache[i]
  <2>1. SUFFICES ASSUME NEW j \in DOMAIN cache' PROVE \E i \in DOMAIN cache : cache'[j] = cache[i]
    OBVIOUS
  <2>2. CASE j = Len(w) + 1
    BY <2>2, <1>4, <1>8 DEF e
  <2>3. CASE j \in 1 .. Len(w)
    BY <2>3, <1>6, <1>8
  <2>4. QED
    BY <2>2, <2>3, <1>8
<1>10. \A i \in DOMAIN cache : \E j \in DOMAIN cache' : cache'[j] = cache[i]
  <2>1. SUFFICES ASSUME NEW i \in DOMAIN cache PROVE \E j \in DOMAIN cache' : cache'[j] = cache[i]
    OBVIOUS
  <2>2. CASE cache[i].text = t
    <3>1. Len(w) + 1 \in DOMAIN cache'
      BY <1>8
    <3>2. QED
      BY <2>2, <3>1, <1>7, <1>8
  <2>3. CASE cache[i].text # t
    <3>1. PICK j \in DOMAIN w : w[j] = cache[i]
      BY <2>3, <1>6
    <3>2. j \in DOMAIN cache'
      BY <3>1, <1>8
    <3>3. QED
      BY <3>1, <3>2, <1>8
  <2>4. QED
    BY <2>2, <2>3
<1>11. PrepTypeOK'
  BY <1>1, <1>2, <1>3, <1>5, <1>8 DEF PrepTypeOK, Running, Entry
<1>12. Shape'
  <2>1. \A j \in 1 .. Len(w) : w[j].text # e.text
    BY <1>4, <1>6, <1>8
  <2>2. \A i, j \in DOMAIN cache' : cache'[i].text = cache'[j].text => i = j
    BY <2>1, <1>6, <1>8
  <2>3. \A i \in DOMAIN pool' : stage'[pool'[i]] = "pooled"
    BY <1>1, <1>3
  <2>4. \A d \in Callers :
          /\ stage'[d] \in {"idle", "pooled", "waiting"} => future'[d] = "none"
          /\ stage'[d] = "leading" => future'[d] = "pending"
          /\ stage'[d] = "evicting" => future'[d] = "result"
          /\ stage'[d] = "dropping" => future'[d] = "exception"
    BY <1>1, <1>2, <1>3 DEF Shape
  <2>5. QED
    BY <2>2, <2>3, <2>4, <1>3 DEF Shape
<1>13. \A i \in DOMAIN cache :
         LET l == cache[i].leader
         IN /\ l \in Callers /\ l # c /\ TextOf[l] = cache[i].text
            /\ stage[l] = "leading" \/ future[l] \in {"result", "exception"}
            /\ future[l] = "exception" => stage[l] = "dropping"
  BY <1>2, <1>3 DEF FuturesAnswered, Done
<1>14. FuturesAnswered'
  <2>1. ASSUME NEW d \in Callers, stage'[d] = "waiting"
        PROVE  /\ TextOf[awaited'[d]] = TextOf[d]
               /\ \/ stage'[awaited'[d]] = "leading"
                  \/ future'[awaited'[d]] \in {"result", "exception"}
    <3>1. CASE d = c
      <4>1. awaited'[d] = e.leader
        BY <3>1, <1>1, <1>2
      <4>2. /\ TextOf[e.leader] = t
            /\ stage[e.leader] = "leading" \/ future[e.leader] \in {"result", "exception"}
        BY <1>4, <1>13 DEF e
      <4>3. QED
        BY <3>1, <4>1, <4>2, <1>1, <1>2, <1>5
    <3>2. CASE d # c
      <4>1. stage[d] = "waiting" /\ awaited'[d] = awaited[d] /\ awaited[d] \in Callers
        BY <2>1, <3>2, <1>1, <1>2
      <4>2. /\ TextOf[awaited[d]] = TextOf[d]
            /\ stage[awaited[d]] = "leading" \/ future[awaited[d]] \in {"result", "exception"}
        BY <4>1 DEF FuturesAnswered, Done
      <4>3. awaited[d] # c
        BY <4>2, <1>3
      <4>4. QED
        BY <4>1, <4>2, <4>3, <1>1, <1>2
    <3>3. QED
      BY <3>1, <3>2
  <2>2. ASSUME NEW j \in DOMAIN cache'
        PROVE  LET l == cache'[j].leader
               IN /\ TextOf[l] = cache'[j].text
                  /\ stage'[l] = "leading" \/ future'[l] \in {"result", "exception"}
                  /\ future'[l] = "exception" => stage'[l] = "dropping"
    <3>1. PICK i \in DOMAIN cache : cache'[j] = cache[i]
      BY <1>9
    <3> DEFINE l == cache[i].leader
    <3>2. stage'[l] = stage[l]
      BY <1>1, <1>2, <1>13
    <3>3. QED
      BY <3>1, <3>2, <1>1, <1>13
  <2>3. QED
    BY <2>1, <2>2 DEF FuturesAnswered, Done
<1>15. PreparedOnce'
  <2>1. SUFFICES ASSUME NEW d \in Callers, stage'[d] = "leading"
                 PROVE  \/ \E i \in DOMAIN cache' : cache'[i].leader = d
                        \/ \E f \in Callers : TextOf[f] = TextOf[d]
                             /\ future'[f] = "exception" /\ stage'[f] = "raised"
    BY DEF PreparedOnce
  <2>2. stage[d] = "leading"
    BY <2>1, <1>1, <1>2
  <2>3. CASE \E i \in DOMAIN cache : cache[i].leader = d
    <3>1. PICK i \in DOMAIN cache : cache[i].leader = d
      BY <2>3
    <3>2. PICK j \in DOMAIN cache' : cache'[j] = cache[i]
      BY <1>10
    <3>3. QED
      BY <3>1, <3>2
  <2>4. CASE \E f \in Callers : TextOf[f] = TextOf[d]
               /\ future[f] = "exception" /\ stage[f] = "raised"
    BY <2>4, <1>1, <1>2, <1>3
  <2>5. QED
    BY <2>2, <2>3, <2>4 DEF PreparedOnce
<1>16. QED
  BY <1>11, <1>12, <1>14, <1>15

\* PInv is inductive.
LEMMA NextPInv == PInv /\ [PrepNext]_prepVars => PInv'
<1> SUFFICES ASSUME PInv, [PrepNext]_prepVars PROVE PInv'
  OBVIOUS
<1>1. CASE UNCHANGED prepVars
  BY <1>1 DEF prepVars, PInv, PrepTypeOK, Shape, FuturesAnswered, PreparedOnce, Done
<1>2. ASSUME NEW c \in Callers, Lookup(c) PROVE PInv'
  BY <1>2, LeadPInv, FollowPInv
<1>3. QED
  BY <1>1, <1>2, CallPInv, PreparePInv, EvictPInv, DropPInv, ResumePInv
     DEF PrepNext, PrepStep

-----------------------------------------------------------------------------
(* The shape of the cache and of the pool, from which the others follow. *)
THEOREM PrepInvariant == PrepSpec => []PInv
<1>1. QED
  BY InitPInv, NextPInv, PTL DEF PrepSpec

(* Whoever waits for a future waits for a call that has a thread of the pool *)
(* or is over, and no failure stays in the cache (kokoro_app.py:508-532).    *)
THEOREM PrepAnswers == PrepSpec => []FuturesAnswered
<1>1. PInv => FuturesAnswered
  BY DEF PInv
<1>2. QED
  BY <1>1, PrepInvariant, PTL

(* A text that is being prepared stays in the cache, except after a failure *)
(* of a call on the same text (kokoro_app.py:526-531).                      *)
THEOREM PrepKeeps == PrepSpec => []PreparedOnce
<1>1. PInv => PreparedOnce
  BY DEF PInv
<1>2. QED
  BY <1>1, PrepInvariant, PTL
=============================================================================
