---------------------------- MODULE EngineProofs ----------------------------
(***************************************************************************)
(* The engine core for any number of requests and slots, any chunk sizes   *)
(* and any interleaving of ticks, submits and failures.                    *)
(*                                                                         *)
(* The parts, each an inductive invariant on top of those before it:       *)
(*   SlotsInv      who is in which slot, and whose row is in it            *)
(*   FlashInv      a Flash row against the host's mirror and its budget    *)
(*   TurboInv      the same for Turbo                                      *)
(*   PlacesInv     where a request that was submitted is                   *)
(*   StreamInv     what the vocoder is handed is one run of tokens, from   *)
(*                 which the refinement of ChunkStream follows             *)
(*   TypesInv      the types, with the steps a Flash row has left          *)
(* Some of them assume BudgetsInBlocks, some MoreThanOneToken.             *)
(***************************************************************************)
EXTENDS Engine, QueueFacts

(* A finite set of numbers that is not empty has a largest member. *)
LEMMA LargestExists ==
  ASSUME NEW S, IsFiniteSet(S), NEW f \in [S -> Nat]
  PROVE  S # {} => \E m \in {f[r] : r \in S} : \A r \in S : f[r] <= m
<1> DEFINE Bound(U) == U # {} => \E r \in U : \A s \in U : f[s] <= f[r]
           T == {n \in Nat : \A U \in SUBSET S : Cardinality(U) = n => Bound(U)}
<1>1. \A U \in SUBSET S : IsFiniteSet(U) /\ Cardinality(U) \in Nat
  BY FS_Subset, FS_CardinalityType
<1>2. \A U \in SUBSET S : Cardinality(U) = 0 => Bound(U)
  BY <1>1, FS_EmptySet
<1>3. ASSUME NEW n \in Nat, \A U \in SUBSET S : Cardinality(U) = n => Bound(U),
             NEW U \in SUBSET S, Cardinality(U) = n + 1
      PROVE  Bound(U)
  <2> SUFFICES ASSUME NEW r \in U PROVE \E m \in U : \A s \in U : f[s] <= f[m]
    OBVIOUS
  <2>1. U \ {r} \in SUBSET S /\ Cardinality(U \ {r}) = n
    <3>1. IsFiniteSet(U) /\ Cardinality(U \ {r}) = Cardinality(U) - 1
      BY <1>1, FS_RemoveElement
    <3>2. (n + 1) - 1 = n
      OBVIOUS
    <3>3. QED
      BY <1>3, <3>1, <3>2
  <2>2. CASE U \ {r} = {}
    <3>1. \A s \in U : s = r
      BY <2>2
    <3>2. QED
      BY <3>1
  <2>3. CASE U \ {r} # {}
    <3>1. PICK m \in U \ {r} : \A s \in U \ {r} : f[s] <= f[m]
      BY <1>3, <2>1, <2>3
    <3>2. f[r] \in Nat /\ f[m] \in Nat /\ \A s \in U : f[s] \in Nat
      OBVIOUS
    <3>3. CASE f[r] <= f[m]
      BY <3>1, <3>3
    <3>4. CASE ~ (f[r] <= f[m])
      <4>1. \A s \in U : f[s] <= f[r]
        BY <3>1, <3>2, <3>4
      <4>2. QED
        BY <4>1
    <3>5. QED
      BY <3>3, <3>4
  <2>4. QED
    BY <2>2, <2>3
<1>4. Bound(S)
  <2> HIDE DEF Bound
  <2>1. 0 \in T
    BY <1>2
  <2>2. \A n \in Nat : n \in T => n + 1 \in T
    BY <1>3
  <2>3. Nat \subseteq T
    <3> HIDE DEF T
    <3>1. QED
      BY <2>1, <2>2, NatInductionOnSet
  <2>4. Cardinality(S) \in T
    BY <1>1, <2>3
  <2>5. QED
    BY <2>4
<1>5. QED
  BY <1>4

\* No prefix is longer than LongestPrefix.
LEMMA LongestPrefixFacts ==
  \A r \in Requests : LongestPrefix \in Nat /\ Prefix[r] \in Nat /\ Prefix[r] <= LongestPrefix
<1> SUFFICES ASSUME NEW r0 \in Requests
             PROVE  LongestPrefix \in Nat /\ Prefix[r0] \in Nat /\ Prefix[r0] <= LongestPrefix
  OBVIOUS
<1>1. IsFiniteSet(Requests) /\ Prefix \in [Requests -> Nat]
  BY EngineAssumption
<1>2. \E n \in {Prefix[r] : r \in Requests} : \A r \in Requests : Prefix[r] <= n
  BY <1>1, LargestExists
<1>3. /\ LongestPrefix \in {Prefix[r] : r \in Requests}
      /\ \A r \in Requests : Prefix[r] <= LongestPrefix
  BY <1>2 DEF LongestPrefix
<1>4. QED
  BY <1>1, <1>3

\* The longest length the host knows of is one of those of the active
\* requests and bounds them all.
LEMMA LongestCpuLenFacts ==
  ASSUME active \in Seq(Requests), cpu_len \in [Requests -> Nat],
         NEW r \in Members(active)
  PROVE  LongestCpuLen \in Nat /\ cpu_len[r] <= LongestCpuLen
<1> DEFINE M == Members(active)
           f == [s \in M |-> cpu_len[s]]
<1>1. M \subseteq Requests /\ IsFiniteSet(M) /\ r \in M
  BY MembersFacts
<1>2. f \in [M -> Nat]
  BY <1>1
<1>3. \E n \in {f[s] : s \in M} : \A s \in M : f[s] <= n
  <2> HIDE DEF f, M
  <2>1. QED
    BY <1>1, <1>2, LargestExists
<1>4. \E n \in {cpu_len[s] : s \in M} : \A s \in M : cpu_len[s] <= n
  <2> HIDE DEF M
  <2>1. {f[s] : s \in M} = {cpu_len[s] : s \in M} /\ \A s \in M : f[s] = cpu_len[s]
    OBVIOUS
  <2> HIDE DEF f
  <2>2. QED
    BY <1>3, <2>1
<1>5. /\ LongestCpuLen \in {cpu_len[s] : s \in M}
      /\ \A s \in M : cpu_len[s] <= LongestCpuLen
  BY <1>4 DEF LongestCpuLen
<1>6. QED
  BY <1>1, <1>5

-----------------------------------------------------------------------------
(* Slots *)

\* What any slot may hold.
RowSet ==
  IF kind = "turbo"
  THEN [owner : Requests, cache : Nat]
  ELSE [owner : Requests, start : Nat, masked : Nat, k : Nat, commit : BOOLEAN,
        budget : Nat, cache : Nat]

SlotsInv ==
  /\ kind \in {"turbo", "flash"}
  /\ phase \in {"admit", "step", "free"}
  /\ waiting \in Seq(Requests) /\ Distinct(waiting)
  /\ active \in Seq(Requests) /\ Len(active) <= MaxActive
  /\ slot \in [Requests -> Nat]
  /\ row \in Seq(RowSet)
  /\ SlotsMatch
  /\ to_free \in Seq(Requests) /\ Distinct(to_free)
  /\ Members(to_free) \subseteq Members(active)
  /\ phase # "free" => to_free = <<>>
  /\ Members(waiting) \cup Members(active) \subseteq submitted
  /\ Members(waiting) \cap Members(active) = {}
  /\ submitted \subseteq Requests

\* What the slots hold, whatever their numbers.
Pairs == {<<active[i], row[i]>> : i \in DOMAIN active}

\* The elements of active and row, slot by slot.
LEMMA SlotsFacts ==
  ASSUME SlotsInv
  PROVE  /\ Len(active) \in Nat /\ Len(row) = Len(active)
         /\ DOMAIN active = 1 .. Len(active) /\ DOMAIN row = 1 .. Len(active)
         /\ \A i \in 1 .. Len(active) : /\ active[i] \in Requests /\ row[i] \in RowSet
                                        /\ slot[active[i]] = i /\ row[i].owner = active[i]
         /\ Distinct(active)
         /\ Members(active) \subseteq Requests
         /\ \A r \in Members(active) : /\ slot[r] \in 1 .. Len(active)
                                       /\ active[slot[r]] = r
<1>1. /\ Len(active) \in Nat /\ DOMAIN active = 1 .. Len(active)
      /\ \A i \in 1 .. Len(active) : active[i] \in Requests
  BY LenProperties, ElementOfSeq DEF SlotsInv
<1>2. /\ Len(row) = Len(active) /\ DOMAIN row = 1 .. Len(active)
      /\ \A i \in 1 .. Len(active) : row[i] \in RowSet
  BY LenProperties, ElementOfSeq DEF SlotsInv, SlotsMatch
<1>3. \A i \in 1 .. Len(active) : slot[active[i]] = i /\ row[i].owner = active[i]
  BY <1>1 DEF SlotsInv, SlotsMatch
<1>4. QED
  BY <1>1, <1>2, <1>3 DEF Distinct, Members

(* The last slot moves into the freed one: the others keep what they hold. *)
LEMMA FreeSlotFacts ==
  ASSUME SlotsInv, NEW r \in Members(active), FreeSlot(r)
  PROVE  /\ active' \in Seq(Requests) /\ Len(active') = Len(active) - 1
         /\ row' \in Seq(RowSet) /\ Len(row') = Len(active')
         /\ slot' \in [Requests -> Nat]
         /\ Members(active') = Members(active) \ {r}
         /\ \A j \in 1 .. Len(active') : /\ slot'[active'[j]] = j
                                         /\ row'[j].owner = active'[j]
         /\ slot'[r] = NoSlot
         /\ \A s \in Requests \ Members(active) : slot'[s] = slot[s]
         /\ {<<active'[j], row'[j]>> : j \in DOMAIN active'} \subseteq Pairs
<1> DEFINE last == Len(active)
           i == slot[r]
           a == [active EXCEPT ![i] = active[last]]
           w == [row EXCEPT ![i] = row[last]]
<1>1. /\ i \in 1 .. last /\ active[i] = r /\ last \in 1 .. last /\ last \in Nat
      /\ active \in Seq(Requests) /\ row \in Seq(RowSet) /\ Len(row) = last
      /\ active[last] \in Requests /\ row[last] \in RowSet
      /\ DOMAIN active = 1 .. last
      /\ r \in Requests
  BY SlotsFacts DEF SlotsInv
<1>2. /\ a \in Seq(Requests) /\ Len(a) = last
      /\ \A j \in 1 .. last : a[j] = IF j = i THEN active[last] ELSE active[j]
  BY <1>1, ExceptSeq
<1>3. /\ w \in Seq(RowSet) /\ Len(w) = last
      /\ \A j \in 1 .. last : w[j] = IF j = i THEN row[last] ELSE row[j]
  BY <1>1, ExceptSeq
<1>4. active' = SubSeq(a, 1, last - 1) /\ row' = SubSeq(w, 1, last - 1)
  BY DEF FreeSlot
<1>5. slot' = [slot EXCEPT ![active[last]] = i, ![r] = NoSlot]
  BY DEF FreeSlot
<1> HIDE DEF a, w
<1>6. /\ active' \in Seq(Requests) /\ Len(active') = last - 1
      /\ \A j \in 1 .. last - 1 : active'[j] = a[j]
  <2>1. \A j \in 1 .. last - 1 : a[j] \in Requests
    BY <1>1, <1>2, ElementOfSeq
  <2>2. 1 \in Int /\ last - 1 \in Int
    BY <1>1
  <2> HIDE DEF last
  <2>3. /\ SubSeq(a, 1, last - 1) \in Seq(Requests)
        /\ Len(SubSeq(a, 1, last - 1)) = IF 1 <= last - 1 THEN (last - 1) - 1 + 1 ELSE 0
        /\ \A j \in 1 .. (last - 1) - 1 + 1 : SubSeq(a, 1, last - 1)[j] = a[1 + j - 1]
    BY <2>1, <2>2, SubSeqProperties
  <2>4. QED
    BY <1>1, <1>4, <2>3
<1>7. /\ row' \in Seq(RowSet) /\ Len(row') = last - 1
      /\ \A j \in 1 .. last - 1 : row'[j] = w[j]
  <2>1. \A j \in 1 .. last - 1 : w[j] \in RowSet
    BY <1>1, <1>3, ElementOfSeq
  <2>2. 1 \in Int /\ last - 1 \in Int
    BY <1>1
  <2> HIDE DEF last
  <2>3. /\ SubSeq(w, 1, last - 1) \in Seq(RowSet)
        /\ Len(SubSeq(w, 1, last - 1)) = IF 1 <= last - 1 THEN (last - 1) - 1 + 1 ELSE 0
        /\ \A j \in 1 .. (last - 1) - 1 + 1 : SubSeq(w, 1, last - 1)[j] = w[1 + j - 1]
    BY <2>1, <2>2, SubSeqProperties
  <2>4. QED
    BY <1>1, <1>4, <2>3
<1>8. slot' \in [Requests -> Nat]
  BY <1>1, <1>5 DEF SlotsInv, NoSlot
<1>9. DOMAIN active' = 1 .. last - 1
  BY <1>1, <1>6, LenProperties
<1>10. ASSUME NEW j \in 1 .. last - 1
       PROVE  /\ active'[j] = active[IF j = i THEN last ELSE j]
              /\ row'[j] = row[IF j = i THEN last ELSE j]
              /\ active'[j] # r
  <2>1. j \in 1 .. last /\ j # last
    BY <1>1
  <2>2. /\ active'[j] = active[IF j = i THEN last ELSE j]
        /\ row'[j] = row[IF j = i THEN last ELSE j]
    BY <1>2, <1>3, <1>6, <1>7, <2>1
  <2>3. \A m, n \in 1 .. last : active[m] = active[n] => m = n
    BY <1>1, SlotsFacts DEF Distinct
  <2>4. QED
    BY <1>1, <2>1, <2>2, <2>3
<1>11. \A j \in 1 .. last - 1 : /\ slot'[active'[j]] = j
                                /\ row'[j].owner = active'[j]
  <2> SUFFICES ASSUME NEW j \in 1 .. last - 1
               PROVE  slot'[active'[j]] = j /\ row'[j].owner = active'[j]
    OBVIOUS
  <2> DEFINE m == IF j = i THEN last ELSE j
  <2>0. m \in 1 .. last /\ j # last
    BY <1>1
  <2>1. /\ m \in 1 .. last /\ slot[active[m]] = m /\ row[m].owner = active[m]
        /\ active[m] \in Requests /\ slot[active[last]] = last /\ j # last
    <3> HIDE DEF m
    <3>1. QED
      BY <1>1, <2>0, SlotsFacts
  <2>2. slot'[active[m]] = j
    <3>1. active[m] # r
      BY <1>10
    <3>2. CASE j = i
      BY <1>1, <1>5, <2>1, <3>1, <3>2 DEF SlotsInv
    <3>3. CASE j # i
      <4>1. active[m] # active[last]
        BY <2>1, <3>3
      <4>2. QED
        BY <1>1, <1>5, <2>1, <3>1, <3>3, <4>1 DEF SlotsInv
    <3>4. QED
      BY <3>2, <3>3
  <2>3. QED
    BY <1>10, <2>1, <2>2
<1>12. Members(active') = Members(active) \ {r}
  <2>1. ASSUME NEW s \in Members(active) \ {r} PROVE s \in Members(active')
    <3>1. PICK n \in 1 .. last : active[n] = s
      BY <1>1 DEF Members
    <3>2. n # i
      BY <1>1, <3>1
    <3>3. CASE n = last
      <4>1. i \in 1 .. last - 1
        BY <1>1, <3>2, <3>3
      <4>2. active'[i] = active[last]
        BY <1>10, <4>1
      <4>3. QED
        BY <1>9, <3>1, <3>3, <4>1, <4>2 DEF Members
    <3>4. CASE n # last
      <4>1. n \in 1 .. last - 1
        BY <1>1, <3>1, <3>4
      <4>2. QED
        BY <1>9, <1>10, <3>1, <3>2, <4>1 DEF Members
    <3>5. QED
      BY <3>3, <3>4
  <2>2. ASSUME NEW j \in 1 .. last - 1 PROVE active'[j] \in Members(active) \ {r}
    <3>1. (IF j = i THEN last ELSE j) \in 1 .. last
      BY <1>1
    <3>2. QED
      BY <1>1, <1>10, <3>1 DEF Members
  <2>3. QED
    BY <1>9, <2>1, <2>2 DEF Members
<1>13. \A s \in Requests \ Members(active) : slot'[s] = slot[s]
  <2>1. active[last] \in Members(active)
    BY <1>1 DEF Members
  <2>2. slot \in [Requests -> Nat] /\ active[last] \in Requests
    BY <1>1 DEF SlotsInv
  <2> SUFFICES ASSUME NEW s \in Requests \ Members(active) PROVE slot'[s] = slot[s]
    OBVIOUS
  <2>3. s # r /\ s # active[last]
    BY <2>1
  <2> HIDE DEF last, i
  <2>4. QED
    BY <1>5, <2>2, <2>3
<1>14. slot'[r] = NoSlot
  BY <1>1, <1>5 DEF SlotsInv
<1>15. {<<active'[j], row'[j]>> : j \in DOMAIN active'} \subseteq Pairs
  <2> SUFFICES ASSUME NEW j \in 1 .. last - 1
               PROVE  <<active'[j], row'[j]>> \in Pairs
    BY <1>9
  <2>1. (IF j = i THEN last ELSE j) \in 1 .. last
    BY <1>1
  <2>2. QED
    BY <1>1, <1>10, <2>1 DEF Pairs
<1>16. QED
  BY <1>6, <1>7, <1>8, <1>11, <1>12, <1>13, <1>14, <1>15

\* What admission takes is waiting and fits into the free slots.
LEMMA BatchFacts ==
  ASSUME SlotsInv
  PROVE  /\ Batch \in Seq(Requests) /\ Distinct(Batch)
         /\ Members(Batch) \subseteq Members(waiting)
         /\ Len(active) + Len(Batch) <= MaxActive
<1> DEFINE limit == Smaller(MaxActive - Len(active), PrefillMax)
<1>1. Len(active) \in Nat /\ limit \in Nat /\ Len(active) + limit <= MaxActive
  BY SlotsFacts, EngineAssumption DEF SlotsInv, Smaller
<1>2. Batch = Take(waiting, Urgency, limit)
  BY DEF Batch
<1> HIDE DEF limit
<1>3. /\ waiting \in Seq(Requests) /\ Distinct(waiting) /\ Urgency \in [Requests -> Nat]
  BY EngineAssumption DEF SlotsInv
<1>4. /\ Batch \in Seq(Requests) /\ Distinct(Batch)
      /\ Members(Batch) \subseteq Members(waiting) /\ Len(Batch) <= limit
  BY <1>1, <1>2, <1>3, TakeFacts
<1>5. Len(Batch) \in Nat
  BY <1>4, LenProperties
<1>6. QED
  BY <1>1, <1>4, <1>5, EngineAssumption

\* The queue without the chosen: the others, each still once.
LEMMA WithoutFacts ==
  ASSUME NEW X, NEW q \in Seq(X), Distinct(q), NEW C
  PROVE  /\ Without(q, C) \in Seq(X) /\ Distinct(Without(q, C))
         /\ Members(Without(q, C)) = Members(q) \ C
BY KeepFacts DEF Without

(* Admission fills the slots after those in use and leaves the others alone. *)
LEMMA PlaceFacts ==
  ASSUME SlotsInv, NEW fresh, \A r \in Members(Batch) : fresh[r] \in RowSet /\ fresh[r].owner = r,
         Place(Batch, fresh)
  PROVE  /\ active' \in Seq(Requests) /\ Len(active') <= MaxActive
         /\ row' \in Seq(RowSet) /\ Len(row') = Len(active')
         /\ slot' \in [Requests -> Nat]
         /\ Members(active') = Members(active) \cup Members(Batch)
         /\ \A j \in 1 .. Len(active') : /\ slot'[active'[j]] = j
                                         /\ row'[j].owner = active'[j]
         /\ \A s \in Requests \ Members(active') : slot'[s] = slot[s]
         /\ {<<active'[j], row'[j]>> : j \in DOMAIN active'}
              \subseteq Pairs \cup {<<r, fresh[r]>> : r \in Members(Batch)}
         /\ waiting' \in Seq(Requests) /\ Distinct(waiting')
         /\ Members(waiting') = Members(waiting) \ Members(Batch)
<1> DEFINE base == Len(active)
           n == Len(Batch)
           w == [k \in DOMAIN Batch |-> fresh[Batch[k]]]
<1>1. /\ base \in Nat /\ n \in Nat /\ base + n <= MaxActive
      /\ active \in Seq(Requests) /\ row \in Seq(RowSet) /\ Len(row) = base
      /\ Batch \in Seq(Requests) /\ DOMAIN Batch = 1 .. n /\ Distinct(Batch)
      /\ DOMAIN active = 1 .. base
      /\ waiting \in Seq(Requests) /\ Distinct(waiting)
  BY SlotsFacts, BatchFacts, LenProperties DEF SlotsInv
<1>2. \A k \in 1 .. n : Batch[k] \in Members(Batch) /\ Batch[k] \in Requests
  BY <1>1, ElementOfSeq DEF Members
<1>3. \A r \in Members(Batch) : r \notin Members(active) /\ r \in Requests
  BY BatchFacts, MembersFacts, <1>1 DEF SlotsInv
<1>4. w \in Seq(RowSet) /\ Len(w) = n /\ \A k \in 1 .. n : w[k] = fresh[Batch[k]]
  BY <1>1, <1>2
<1>5. active' = active \o Batch /\ row' = row \o w
  BY DEF Place
<1>6. slot' = [r \in Requests |-> IF r \in Members(Batch)
                                  THEN base + Position(Batch, r) ELSE slot[r]]
  BY DEF Place
<1>7. waiting' = Without(waiting, Members(Batch))
  BY DEF Place
<1> HIDE DEF w
<1>8. /\ active' \in Seq(Requests) /\ Len(active') = base + n
      /\ \A j \in 1 .. base + n : active'[j] = IF j <= base THEN active[j] ELSE Batch[j - base]
  BY <1>1, <1>5, ConcatProperties
<1>9. /\ row' \in Seq(RowSet) /\ Len(row') = base + n
      /\ \A j \in 1 .. base + n : row'[j] = IF j <= base THEN row[j] ELSE w[j - base]
  <2> HIDE DEF base, n
  <2>1. /\ row \o w \in Seq(RowSet) /\ Len(row \o w) = Len(row) + Len(w)
        /\ \A j \in 1 .. Len(row) + Len(w) :
             (row \o w)[j] = IF j <= Len(row) THEN row[j] ELSE w[j - Len(row)]
    BY <1>1, <1>4, ConcatProperties
  <2>2. QED
    BY <1>1, <1>4, <1>5, <2>1
<1>10. DOMAIN active' = 1 .. base + n
  BY <1>8, LenProperties
<1> HIDE DEF base, n
<1>11. \A r \in Members(Batch) : Position(Batch, r) \in 1 .. n
  BY <1>1, MembersFacts
<1>12. slot' \in [Requests -> Nat]
  BY <1>1, <1>6, <1>11 DEF SlotsInv
<1>13. \A j \in 1 .. base + n :
         \/ j \in 1 .. base /\ active'[j] = active[j] /\ row'[j] = row[j]
         \/ /\ j - base \in 1 .. n /\ active'[j] = Batch[j - base]
            /\ row'[j] = fresh[Batch[j - base]]
  BY <1>1, <1>4, <1>8, <1>9
<1>14. Members(active') = Members(active) \cup Members(Batch)
  <2>1. ASSUME NEW r \in Members(active) PROVE r \in Members(active')
    <3>1. PICK j \in 1 .. base : active[j] = r
      BY <1>1 DEF Members
    <3>2. j \in 1 .. base + n /\ active'[j] = r
      BY <1>1, <1>8, <3>1
    <3>3. QED
      BY <1>10, <3>2 DEF Members
  <2>2. ASSUME NEW r \in Members(Batch) PROVE r \in Members(active')
    <3>1. PICK k \in 1 .. n : Batch[k] = r
      BY <1>1 DEF Members
    <3>2. base + k \in 1 .. base + n /\ ~ (base + k <= base) /\ (base + k) - base = k
      BY <1>1
    <3>3. active'[base + k] = r
      BY <1>8, <3>1, <3>2
    <3>4. QED
      BY <1>10, <3>2, <3>3 DEF Members
  <2>3. \A j \in 1 .. base + n : active'[j] \in Members(active) \cup Members(Batch)
    BY <1>1, <1>2, <1>13 DEF Members
  <2>4. QED
    BY <1>10, <2>1, <2>2, <2>3 DEF Members
<1>15. \A j \in 1 .. base + n : /\ slot'[active'[j]] = j
                                /\ row'[j].owner = active'[j]
  <2> SUFFICES ASSUME NEW j \in 1 .. base + n
               PROVE  slot'[active'[j]] = j /\ row'[j].owner = active'[j]
    OBVIOUS
  <2>1. CASE j \in 1 .. base /\ active'[j] = active[j] /\ row'[j] = row[j]
    <3>1. active[j] \in Members(active) /\ active[j] \in Requests
          /\ slot[active[j]] = j /\ row[j].owner = active[j]
      BY <1>1, <2>1, SlotsFacts DEF Members, base
    <3>2. active[j] \notin Members(Batch)
      BY <1>3, <3>1
    <3>3. QED
      BY <1>6, <2>1, <3>1, <3>2
  <2>2. CASE /\ j - base \in 1 .. n /\ active'[j] = Batch[j - base]
             /\ row'[j] = fresh[Batch[j - base]]
    <3> DEFINE k == j - base
    <3>1. Position(Batch, Batch[k]) = k
      BY <1>1, <2>2, PositionFacts
    <3>2. slot'[Batch[k]] = base + Position(Batch, Batch[k])
      BY <1>2, <1>6, <2>2
    <3>3. base + k = j
      BY <1>1
    <3>4. QED
      BY <1>2, <2>2, <3>1, <3>2, <3>3
  <2>3. QED
    BY <1>13, <2>1, <2>2
<1>16. \A s \in Requests \ Members(active') : slot'[s] = slot[s]
  BY <1>6, <1>14
<1>17. {<<active'[j], row'[j]>> : j \in DOMAIN active'}
         \subseteq Pairs \cup {<<r, fresh[r]>> : r \in Members(Batch)}
  <2> SUFFICES ASSUME NEW j \in 1 .. base + n
               PROVE  <<active'[j], row'[j]>>
                        \in Pairs \cup {<<r, fresh[r]>> : r \in Members(Batch)}
    BY <1>10
  <2>1. QED
    BY <1>1, <1>2, <1>13 DEF Pairs
<1>18. /\ waiting' \in Seq(Requests) /\ Distinct(waiting')
       /\ Members(waiting') = Members(waiting) \ Members(Batch)
  BY <1>1, <1>7, WithoutFacts
<1>19. QED
  BY <1>1, <1>8, <1>9, <1>12, <1>14, <1>15, <1>16, <1>17, <1>18

-----------------------------------------------------------------------------
(* What a step does to a row *)

FlashRows ==
  [owner : Requests, start : Nat, masked : Nat, k : Nat, commit : BOOLEAN,
   budget : Nat, cache : Nat]

\* A commit step moves the row on by a block and keeps its owner and budget
\* (_step's commit_rows).
LEMMA CommittedFacts ==
  ASSUME NEW w \in FlashRows
  PROVE  /\ Committed(w) \in FlashRows
         /\ Committed(w).owner = w.owner /\ Committed(w).budget = w.budget
         /\ Committed(w).start = Smaller(w.start + BlockSize, NMax - BlockSize)
         /\ Committed(w).cache = Smaller(w.cache + BlockSize, FlashL - BlockSize)
         /\ Committed(w).k = 0 /\ Committed(w).commit = FALSE
         /\ Committed(w).masked \in {w.masked, BlockSize}
<1> DEFINE start == Smaller(w.start + BlockSize, NMax - BlockSize)
           cache == Smaller(w.cache + BlockSize, FlashL - BlockSize)
           masked == IF start = w.start THEN w.masked ELSE BlockSize
<1>1. /\ w.owner \in Requests /\ w.start \in Nat /\ w.masked \in Nat /\ w.k \in Nat
      /\ w.commit \in BOOLEAN /\ w.budget \in Nat /\ w.cache \in Nat
  BY DEF FlashRows
<1>2. BlockSize \in Nat /\ NMax - BlockSize \in Nat /\ LongestPrefix \in Nat
  BY <1>1, LongestPrefixFacts, FlashAssumption
<1>3. start \in Nat /\ masked \in Nat
  BY <1>1, <1>2 DEF Smaller
<1>4. cache \in Nat
  <2>1. FlashL - BlockSize = LongestPrefix + NMax /\ NMax \in Nat
    BY <1>2, FlashAssumption DEF FlashL
  <2>2. FlashL - BlockSize \in Nat /\ w.cache + BlockSize \in Nat
    BY <1>1, <1>2, <2>1
  <2>3. QED
    BY <2>2 DEF Smaller
<1>5. Committed(w) = [w EXCEPT !.start = start, !.k = 0, !.commit = FALSE,
                               !.cache = cache, !.masked = masked]
  BY DEF Committed
<1> HIDE DEF start, cache, masked
<1>6. Committed(w) \in FlashRows
  <2> DEFINE v == [w EXCEPT !.start = start, !.k = 0, !.commit = FALSE]
  <2>1. v \in FlashRows
    BY <1>3 DEF FlashRows
  <2>2. Committed(w) = [v EXCEPT !.cache = cache, !.masked = masked]
    BY <1>5
  <2> HIDE DEF v
  <2>3. QED
    BY <1>3, <1>4, <2>1, <2>2 DEF FlashRows
<1>7. /\ Committed(w).owner = w.owner /\ Committed(w).budget = w.budget
      /\ Committed(w).start = start /\ Committed(w).cache = cache
      /\ Committed(w).k = 0 /\ Committed(w).commit = FALSE /\ Committed(w).masked = masked
  BY <1>5 DEF FlashRows
<1>8. QED
  BY <1>6, <1>7 DEF start, cache, masked

\* A denoise step unmasks n tokens and counts the step; it neither moves the
\* row nor writes to its cache.
LEMMA DenoisedFacts ==
  ASSUME NEW w \in FlashRows, NEW n \in Unmaskable(w), NEW eos \in BOOLEAN
  PROVE  /\ n \in 0 .. w.masked
         /\ Denoised(w, n, eos) \in FlashRows
         /\ Denoised(w, n, eos).owner = w.owner /\ Denoised(w, n, eos).budget = w.budget
         /\ Denoised(w, n, eos).start = w.start /\ Denoised(w, n, eos).cache = w.cache
         /\ Denoised(w, n, eos).masked = w.masked - n /\ Denoised(w, n, eos).k = w.k + 1
         /\ Denoised(w, n, eos).commit = (~eos /\ (n = w.masked \/ w.k + 1 >= NumSteps))
<1>1. /\ w.owner \in Requests /\ w.start \in Nat /\ w.masked \in Nat /\ w.k \in Nat
      /\ w.commit \in BOOLEAN /\ w.budget \in Nat /\ w.cache \in Nat
  BY DEF FlashRows
<1>2. n \in 0 .. w.masked
  <2>1. CASE w.k >= NumSteps - 1
    BY <1>1, <2>1 DEF Unmaskable
  <2>2. CASE ~ (w.k >= NumSteps - 1)
    <3>1. w.k + 1 \in 1 .. NumSteps
      BY <1>1, <2>2, FlashAssumption
    <3>2. Schedule[w.k + 1] \in Nat
      BY <3>1, FlashAssumption
    <3>3. n \in Smaller(Schedule[w.k + 1], w.masked) .. w.masked
      BY <2>2 DEF Unmaskable
    <3>4. QED
      BY <1>1, <3>2, <3>3 DEF Smaller
  <2>3. QED
    BY <2>1, <2>2
<1> DEFINE commit == ~eos /\ (n = w.masked \/ w.k + 1 >= NumSteps)
<1>3. commit \in BOOLEAN
  OBVIOUS
<1>4. Denoised(w, n, eos) = [w EXCEPT !.masked = w.masked - n, !.k = w.k + 1,
                                      !.commit = commit]
  BY DEF Denoised
<1> HIDE DEF commit
<1>5. w.masked - n \in Nat /\ w.k + 1 \in Nat
  BY <1>1, <1>2
<1>6. Denoised(w, n, eos) \in FlashRows
  BY <1>3, <1>4, <1>5 DEF FlashRows
<1>7. /\ Denoised(w, n, eos).owner = w.owner /\ Denoised(w, n, eos).budget = w.budget
      /\ Denoised(w, n, eos).start = w.start /\ Denoised(w, n, eos).cache = w.cache
      /\ Denoised(w, n, eos).masked = w.masked - n /\ Denoised(w, n, eos).k = w.k + 1
      /\ Denoised(w, n, eos).commit = commit
  BY <1>4 DEF FlashRows
<1>8. QED
  BY <1>2, <1>6, <1>7 DEF commit

\* An outcome either commits the block, or denoises it further, or finds the
\* stop token in it.
LEMMA OutcomeFacts ==
  ASSUME NEW w \in FlashRows, NEW o \in Outcomes(w)
  PROVE  /\ o.row \in FlashRows /\ o.row.owner = w.owner /\ o.row.budget = w.budget
         /\ o.push \in 0 .. BlockSize /\ o.pushes \in BOOLEAN /\ o.finish \in BOOLEAN
         /\ \/ /\ w.commit /\ o.row = Committed(w) /\ o.pushes
               /\ o.finish = (Committed(w).start >= w.budget)
            \/ /\ ~w.commit /\ ~o.pushes /\ ~o.finish
               /\ \E n \in Unmaskable(w) : o.row = Denoised(w, n, FALSE)
            \/ /\ ~w.commit /\ o.pushes /\ o.finish /\ o.push <= BlockSize - 1
               /\ \E n \in Unmaskable(w) : o.row = Denoised(w, n, TRUE)
<1>0. BlockSize \in Nat \ {0}
  BY FlashAssumption
<1>1. CASE w.commit
  <2>1. PICK p \in 0 .. BlockSize :
          o = [row |-> Committed(w), push |-> p, pushes |-> TRUE,
               finish |-> Committed(w).start >= w.budget]
    BY <1>1 DEF Outcomes
  <2>2. /\ o.row = Committed(w) /\ o.push = p /\ o.pushes = TRUE
        /\ o.finish = (Committed(w).start >= w.budget)
    BY <2>1
  <2>3. /\ Committed(w) \in FlashRows
        /\ Committed(w).owner = w.owner /\ Committed(w).budget = w.budget
    BY CommittedFacts
  <2>4. (Committed(w).start >= w.budget) \in BOOLEAN
    OBVIOUS
  <2>5. QED
    BY <1>1, <2>2, <2>3, <2>4
<1>2. CASE ~w.commit
  <2>1. CASE o \in {[row |-> Denoised(w, n, FALSE), push |-> 0, pushes |-> FALSE,
                     finish |-> FALSE] : n \in Unmaskable(w)}
    <3>1. PICK n \in Unmaskable(w) :
            o = [row |-> Denoised(w, n, FALSE), push |-> 0, pushes |-> FALSE,
                 finish |-> FALSE]
      BY <2>1
    <3>2. /\ o.row = Denoised(w, n, FALSE) /\ o.push = 0 /\ o.pushes = FALSE
          /\ o.finish = FALSE
      BY <3>1
    <3>3. /\ Denoised(w, n, FALSE) \in FlashRows
          /\ Denoised(w, n, FALSE).owner = w.owner /\ Denoised(w, n, FALSE).budget = w.budget
      BY DenoisedFacts
    <3>4. 0 \in 0 .. BlockSize
      BY <1>0
    <3>5. QED
      BY <1>2, <3>2, <3>3, <3>4
  <2>2. CASE \E n \in Unmaskable(w) \ {0} : \E p \in 0 .. BlockSize - (w.masked - n) - 1 :
               o = [row |-> Denoised(w, n, TRUE), push |-> p, pushes |-> TRUE,
                    finish |-> TRUE]
    <3>0. PICK n \in Unmaskable(w) \ {0} :
            \E p \in 0 .. BlockSize - (w.masked - n) - 1 :
              o = [row |-> Denoised(w, n, TRUE), push |-> p, pushes |-> TRUE,
                   finish |-> TRUE]
      BY <2>2
    <3>1. PICK p \in 0 .. BlockSize - (w.masked - n) - 1 :
            o = [row |-> Denoised(w, n, TRUE), push |-> p, pushes |-> TRUE,
                 finish |-> TRUE]
      BY <3>0
    <3>2. /\ o.row = Denoised(w, n, TRUE) /\ o.push = p /\ o.pushes = TRUE
          /\ o.finish = TRUE
      BY <3>1
    <3>3. n \in 0 .. w.masked /\ w.masked \in Nat
      BY DenoisedFacts DEF FlashRows
    <3>4. p \in 0 .. BlockSize /\ p <= BlockSize - 1
      BY <1>0, <3>1, <3>3
    <3>5. /\ Denoised(w, n, TRUE) \in FlashRows
          /\ Denoised(w, n, TRUE).owner = w.owner /\ Denoised(w, n, TRUE).budget = w.budget
      BY DenoisedFacts
    <3>6. QED
      BY <1>2, <3>2, <3>4, <3>5
  <2>3. QED
    BY <1>2, <2>1, <2>2 DEF Outcomes
<1>3. QED
  BY <1>1, <1>2 DEF FlashRows

-----------------------------------------------------------------------------
(* Each action keeps SlotsInv. The lemmas also give what later parts need of *)
(* the action, as facts about Pairs.                                         *)

PairsNext == {<<active'[j], row'[j]>> : j \in DOMAIN active'}

\* The slots are empty initially.
LEMMA InitSlots == Init => SlotsInv
<1> SUFFICES ASSUME Init PROVE SlotsInv
  OBVIOUS
<1>1. /\ waiting = <<>> /\ active = <<>> /\ row = <<>> /\ to_free = <<>>
      /\ submitted = {} /\ phase = "admit" /\ kind \in {"turbo", "flash"}
      /\ slot = [r \in Requests |-> NoSlot]
  BY DEF Init, BaseInit
<1>2. /\ \A X : <<>> \in Seq(X)
      /\ Len(<<>>) = 0 /\ Members(<<>>) = {} /\ Distinct(<<>>)
  BY EmptySeq DEF Members, Distinct
<1>3. SlotsMatch
  BY <1>1, <1>2 DEF SlotsMatch, NoSlot
<1>4. Len(active) <= MaxActive
  BY <1>1, <1>2, EngineAssumption
<1>5. slot \in [Requests -> Nat]
  BY <1>1 DEF NoSlot
<1>6. QED
  BY <1>1, <1>2, <1>3, <1>4, <1>5 DEF SlotsInv

\* A request that is submitted joins the queue and no slot.
LEMMA SubmitSlots ==
  ASSUME SlotsInv, NEW r \in Requests, Submit(r), UNCHANGED kind
  PROVE  SlotsInv'
<1>1. /\ r \notin Members(waiting) /\ r \notin Members(active)
      /\ waiting \in Seq(Requests) /\ Distinct(waiting)
  BY DEF Submit, SlotsInv
<1>2. /\ waiting' = Append(waiting, r) /\ submitted' = submitted \cup {r}
      /\ UNCHANGED <<active, slot, row, phase, to_free, kind>>
  BY DEF Submit, slotVars
<1>3. /\ waiting' \in Seq(Requests) /\ Len(waiting') = Len(waiting) + 1
      /\ \A i \in 1 .. Len(waiting) : waiting'[i] = waiting[i]
      /\ waiting'[Len(waiting) + 1] = r /\ Len(waiting) \in Nat
      /\ DOMAIN waiting = 1 .. Len(waiting) /\ DOMAIN waiting' = 1 .. Len(waiting) + 1
  BY <1>1, <1>2, LenProperties
<1>4. \A i \in DOMAIN waiting' : i \in DOMAIN waiting \/ i = Len(waiting) + 1
  BY <1>3
<1>5. Members(waiting') \subseteq Members(waiting) \cup {r}
  BY <1>3, <1>4 DEF Members
<1>6. Distinct(waiting')
  BY <1>1, <1>3, <1>4 DEF Members, Distinct
<1>7. SlotsMatch' /\ RowSet' = RowSet
  BY <1>2 DEF SlotsInv, SlotsMatch, RowSet
<1>8. QED
  BY <1>1, <1>2, <1>3, <1>5, <1>6, <1>7 DEF SlotsInv

\* Admission fills free slots with new rows of the requests it takes out of
\* the queue.
LEMMA AdmitSlots ==
  ASSUME SlotsInv, phase = "admit",
         NEW fresh, \A r \in Members(Batch) : fresh[r] \in RowSet /\ fresh[r].owner = r,
         Place(Batch, fresh), phase' = "step", UNCHANGED <<submitted, to_free, kind>>
  PROVE  SlotsInv'
<1>1. /\ active' \in Seq(Requests) /\ Len(active') <= MaxActive
      /\ row' \in Seq(RowSet) /\ Len(row') = Len(active')
      /\ slot' \in [Requests -> Nat]
      /\ Members(active') = Members(active) \cup Members(Batch)
      /\ \A j \in 1 .. Len(active') : /\ slot'[active'[j]] = j
                                      /\ row'[j].owner = active'[j]
      /\ \A s \in Requests \ Members(active') : slot'[s] = slot[s]
      /\ waiting' \in Seq(Requests) /\ Distinct(waiting')
      /\ Members(waiting') = Members(waiting) \ Members(Batch)
  BY PlaceFacts
<1>2. Members(Batch) \subseteq Members(waiting)
  BY BatchFacts
<1>3. \A s \in Requests \ Members(active') : slot'[s] = NoSlot
  BY <1>1 DEF SlotsInv, SlotsMatch
<1>4. DOMAIN active' = 1 .. Len(active')
  BY <1>1, LenProperties
<1>5. SlotsMatch'
  BY <1>1, <1>3, <1>4 DEF SlotsMatch
<1>6. RowSet' = RowSet
  BY DEF RowSet
<1>7. QED
  BY <1>1, <1>2, <1>5, <1>6 DEF SlotsInv

\* A step rewrites rows without moving them, and frees some of the active.
LEMMA StepSlots ==
  ASSUME SlotsInv, phase = "step", phase' = "free",
         row' \in Seq(RowSet), Len(row') = Len(row),
         \A i \in DOMAIN row : row'[i].owner = row[i].owner,
         NEW S, to_free' = Keep(active, S),
         UNCHANGED <<waiting, submitted, active, slot, kind>>
  PROVE  SlotsInv' /\ Members(to_free') = Members(active) \cap S
<1>1. /\ active \in Seq(Requests) /\ Distinct(active)
      /\ DOMAIN active = 1 .. Len(active) /\ DOMAIN row = 1 .. Len(active)
  BY SlotsFacts DEF SlotsInv
<1>2. /\ to_free' \in Seq(Requests) /\ Distinct(to_free')
      /\ Members(to_free') = Members(active) \cap S
  BY <1>1, KeepFacts
<1>3. SlotsMatch'
  BY <1>1 DEF SlotsInv, SlotsMatch
<1>4. RowSet' = RowSet
  BY DEF RowSet
<1>5. QED
  BY <1>2, <1>3, <1>4 DEF SlotsInv

\* One removal of _free: the slot is filled by the last one, whose row goes
\* along, and nobody else's changes.
LEMMA FreeOneSlots ==
  ASSUME SlotsInv, FreeOne, UNCHANGED kind
  PROVE  /\ SlotsInv'
         /\ Head(to_free) \in Members(to_free)
         /\ Members(active') = Members(active) \ {Head(to_free)}
         /\ Members(to_free') = Members(to_free) \ {Head(to_free)}
         /\ PairsNext \subseteq Pairs
<1> DEFINE r == Head(to_free)
           t == to_free
           n == Len(to_free)
<1>1. /\ phase = "free" /\ t # <<>> /\ FreeSlot(r) /\ to_free' = Tail(t)
      /\ UNCHANGED <<waiting, submitted, phase, kind>>
  BY DEF FreeOne
<1>2. /\ t \in Seq(Requests) /\ n \in Nat \ {0} /\ DOMAIN t = 1 .. n /\ Distinct(t)
      /\ r = t[1]
      /\ Tail(t) \in Seq(Requests) /\ Len(Tail(t)) = n - 1
      /\ \A i \in 1 .. n - 1 : Tail(t)[i] = t[i + 1]
  BY <1>1, EmptySeq, LenProperties, HeadTailProperties DEF SlotsInv
<1>3. DOMAIN Tail(t) = 1 .. n - 1
  BY <1>2, LenProperties
<1> HIDE DEF r, n
<1>4. r \in Members(t)
  BY <1>2 DEF Members
<1>5. Members(Tail(t)) = Members(t) \ {r}
  <2>1. ASSUME NEW i \in 1 .. n - 1 PROVE Tail(t)[i] \in Members(t) \ {r}
    <3>1. i + 1 \in 1 .. n /\ 1 \in 1 .. n /\ i + 1 # 1
      BY <1>2
    <3>2. QED
      BY <1>2, <3>1 DEF Members, Distinct
  <2>2. ASSUME NEW i \in 1 .. n, t[i] # r PROVE t[i] \in Members(Tail(t))
    <3>1. i - 1 \in 1 .. n - 1 /\ (i - 1) + 1 = i
      BY <1>2, <2>2
    <3>2. QED
      BY <1>2, <1>3, <3>1 DEF Members
  <2>3. QED
    BY <1>2, <1>3, <2>1, <2>2 DEF Members
<1>6. Distinct(Tail(t))
  <2>1. ASSUME NEW i \in 1 .. n - 1, NEW j \in 1 .. n - 1, Tail(t)[i] = Tail(t)[j]
        PROVE  i = j
    <3>1. i + 1 \in 1 .. n /\ j + 1 \in 1 .. n
      BY <1>2
    <3>2. i + 1 = j + 1
      BY <1>2, <2>1, <3>1 DEF Distinct
    <3>3. QED
      BY <3>2
  <2>2. QED
    BY <1>3, <2>1 DEF Distinct
<1>7. r \in Members(active)
  BY <1>4 DEF SlotsInv
<1>8. /\ active' \in Seq(Requests) /\ Len(active') = Len(active) - 1
      /\ row' \in Seq(RowSet) /\ Len(row') = Len(active')
      /\ slot' \in [Requests -> Nat]
      /\ Members(active') = Members(active) \ {r}
      /\ \A j \in 1 .. Len(active') : /\ slot'[active'[j]] = j
                                      /\ row'[j].owner = active'[j]
      /\ slot'[r] = NoSlot
      /\ \A s \in Requests \ Members(active) : slot'[s] = slot[s]
      /\ PairsNext \subseteq Pairs
  BY <1>1, <1>7, FreeSlotFacts DEF PairsNext
<1>9. DOMAIN active' = 1 .. Len(active')
  BY <1>8, LenProperties
<1>10. Len(active') <= MaxActive
  BY <1>8, SlotsFacts, EngineAssumption DEF SlotsInv
<1>11. \A s \in Requests : s \notin Members(active') => slot'[s] = NoSlot
  BY <1>8 DEF SlotsInv, SlotsMatch
<1>12. SlotsMatch'
  BY <1>8, <1>9, <1>11 DEF SlotsMatch
<1>13. RowSet' = RowSet
  BY <1>1 DEF RowSet
<1>14. Members(to_free') \subseteq Members(active')
  BY <1>1, <1>5, <1>8 DEF SlotsInv
<1>15. SlotsInv'
  BY <1>1, <1>2, <1>6, <1>8, <1>10, <1>12, <1>13, <1>14 DEF SlotsInv
<1>16. QED
  BY <1>1, <1>4, <1>5, <1>8, <1>15 DEF r

\* The end of a tick leaves the slots alone.
LEMMA TickEndSlots ==
  ASSUME SlotsInv, TickEnd, UNCHANGED kind
  PROVE  SlotsInv'
<1>1. UNCHANGED <<waiting, submitted, active, slot, row, to_free, kind>>
      /\ phase' = "admit" /\ to_free = <<>>
  BY DEF TickEnd, slotVars
<1>2. SlotsMatch' /\ RowSet' = RowSet
  BY <1>1 DEF SlotsInv, SlotsMatch, RowSet
<1>3. QED
  BY <1>1, <1>2 DEF SlotsInv

\* A tick that raises empties all the slots.
LEMMA EmptySlotsSlots ==
  ASSUME SlotsInv, NEW held, EmptySlots(held), UNCHANGED kind,
         waiting' \in Seq(Requests), Distinct(waiting'),
         Members(waiting') \subseteq Members(waiting)
  PROVE  SlotsInv'
<1>1. /\ active' = <<>> /\ row' = <<>> /\ to_free' = <<>> /\ submitted' = submitted
      /\ phase' = "admit"
      /\ slot' = [r \in Requests |-> IF r \in Members(active) THEN NoSlot ELSE slot[r]]
  BY DEF EmptySlots
<1>2. \A r \in Requests : slot'[r] = NoSlot
  BY <1>1 DEF SlotsInv, SlotsMatch
<1>3. /\ \A X : <<>> \in Seq(X)
      /\ Len(<<>>) = 0 /\ Members(<<>>) = {} /\ Distinct(<<>>)
  BY EmptySeq DEF Members, Distinct
<1>4. SlotsMatch'
  BY <1>1, <1>2, <1>3 DEF SlotsMatch
<1>5. slot' \in [Requests -> Nat]
  BY <1>1, <1>2 DEF NoSlot
<1>6. QED
  BY <1>1, <1>3, <1>4, <1>5, EngineAssumption DEF SlotsInv

\* What Hand does to one request.
Handed(r, st) ==
  /\ committed'[r] = st.n /\ emitted'[r] = st.e /\ t3_done'[r] = st.done
  /\ chunks'[r] = chunks[r] \o st.sent
LeftAlone(r) ==
  /\ committed'[r] = committed[r] /\ emitted'[r] = emitted[r]
  /\ t3_done'[r] = t3_done[r] /\ chunks'[r] = chunks[r]

\* Hand changes the streams of the requests it is given, each as it says, and
\* no other.
LEMMA HandFacts ==
  ASSUME NEW S, S \subseteq Requests, NEW new, DOMAIN new = S, Hand(new)
  PROVE  /\ \A r \in S : Handed(r, new[r])
         /\ \A r \in Requests \ S : LeftAlone(r)
         /\ DOMAIN committed' = Requests /\ DOMAIN emitted' = Requests
         /\ DOMAIN t3_done' = Requests /\ DOMAIN chunks' = Requests
         /\ committed' = [r \in Requests |-> committed'[r]]
         /\ emitted' = [r \in Requests |-> emitted'[r]]
         /\ t3_done' = [r \in Requests |-> t3_done'[r]]
         /\ chunks' = [r \in Requests |-> chunks'[r]]
BY DEF Hand, Handed, LeftAlone

\* Flash admits the batch: each request has a fresh row.
LEMMA FlashAdmitFacts ==
  ASSUME SlotsInv, kind = "flash", FlashAdmit, UNCHANGED kind
  PROVE  /\ SlotsInv'
         /\ Members(active') = Members(active) \cup Members(Batch)
         /\ Members(waiting') = Members(waiting) \ Members(Batch)
         /\ PairsNext \subseteq Pairs \cup {<<r, Fresh(r)>> : r \in Members(Batch)}
<1> DEFINE fresh == [r \in Members(Batch) |-> Fresh(r)]
<1>1. /\ phase = "admit" /\ phase' = "step" /\ Place(Batch, fresh)
      /\ UNCHANGED <<submitted, to_free, kind>>
  BY DEF FlashAdmit
<1>2. ASSUME NEW r \in Members(Batch) PROVE fresh[r] \in RowSet /\ fresh[r].owner = r
  <2>1. r \in Requests
    BY BatchFacts, MembersFacts
  <2>2. Prefix[r] \in Nat /\ Budget[r] \in Nat /\ BlockSize \in Nat
    BY <2>1, EngineAssumption, FlashAssumption
  <2>3. QED
    BY <2>1, <2>2 DEF RowSet, Fresh
<1>3. \A r \in Members(Batch) : fresh[r] = Fresh(r)
  OBVIOUS
<1> HIDE DEF fresh
<1>4. SlotsInv'
  BY <1>1, <1>2, AdmitSlots
<1>5. /\ Members(active') = Members(active) \cup Members(Batch)
      /\ Members(waiting') = Members(waiting) \ Members(Batch)
      /\ PairsNext \subseteq Pairs \cup {<<r, fresh[r]>> : r \in Members(Batch)}
  BY <1>1, <1>2, PlaceFacts DEF PairsNext
<1>6. {<<r, fresh[r]>> : r \in Members(Batch)} = {<<r, Fresh(r)>> : r \in Members(Batch)}
  BY <1>3
<1>7. QED
  BY <1>4, <1>5, <1>6

TurboFresh(r) == [owner |-> r, cache |-> Prefix[r]]

\* Turbo admits the batch: each request has the row of its prefill.
LEMMA TurboAdmitFacts ==
  ASSUME SlotsInv, kind = "turbo", TurboAdmit, UNCHANGED kind
  PROVE  /\ SlotsInv'
         /\ Members(active') = Members(active) \cup Members(Batch)
         /\ Members(waiting') = Members(waiting) \ Members(Batch)
         /\ PairsNext \subseteq Pairs \cup {<<r, TurboFresh(r)>> : r \in Members(Batch)}
<1> DEFINE fresh == [r \in Members(Batch) |-> TurboFresh(r)]
<1>1. /\ phase = "admit" /\ phase' = "step" /\ Place(Batch, fresh)
      /\ UNCHANGED <<submitted, to_free, kind>>
  BY DEF TurboAdmit, TurboFresh
<1>2. ASSUME NEW r \in Members(Batch) PROVE fresh[r] \in RowSet /\ fresh[r].owner = r
  <2>1. r \in Requests
    BY BatchFacts, MembersFacts
  <2>2. Prefix[r] \in Nat
    BY <2>1, EngineAssumption
  <2>3. QED
    BY <2>1, <2>2 DEF RowSet, TurboFresh
<1>3. \A r \in Members(Batch) : fresh[r] = TurboFresh(r)
  OBVIOUS
<1> HIDE DEF fresh
<1>4. SlotsInv'
  BY <1>1, <1>2, AdmitSlots
<1>5. /\ Members(active') = Members(active) \cup Members(Batch)
      /\ Members(waiting') = Members(waiting) \ Members(Batch)
      /\ PairsNext \subseteq Pairs \cup {<<r, fresh[r]>> : r \in Members(Batch)}
  BY <1>1, <1>2, PlaceFacts DEF PairsNext
<1>6. {<<r, fresh[r]>> : r \in Members(Batch)} = {<<r, TurboFresh(r)>> : r \in Members(Batch)}
  BY <1>3
<1>7. QED
  BY <1>4, <1>5, <1>6

\* One step of the batch: each active request moves by an outcome of its row.
FlashMoves(o) ==
  /\ \A i \in 1 .. Len(active) :
       /\ o[i] \in Outcomes(row[i]) /\ row'[i] = o[i].row
       /\ active[i] \in Members(to_free') <=> o[i].finish
       /\ cpu_len'[active[i]] = IF row[i].commit THEN Prefix[active[i]] + o[i].row.start
                                ELSE cpu_len[active[i]]
       /\ Handed(active[i], HandedOver(active[i], o[i]))
  /\ \A r \in Requests \ Members(active) : LeftAlone(r) /\ cpu_len'[r] = cpu_len[r]
  /\ Members(to_free') \subseteq Members(active)

\* A step of Flash as a change of each row and its length.
LEMMA FlashStepFacts ==
  ASSUME SlotsInv, kind = "flash", FlashStep, UNCHANGED kind
  PROVE  /\ SlotsInv'
         /\ Len(row') = Len(row)
         /\ DOMAIN cpu_len' = Requests /\ cpu_len' = [r \in Requests |-> cpu_len'[r]]
         /\ \E o : FlashMoves(o)
<1>1. PICK o \in {f \in [DOMAIN row -> UNION {Outcomes(row[i]) : i \in DOMAIN row}] :
                   \A i \in DOMAIN row : f[i] \in Outcomes(row[i])} :
        /\ row' = [i \in DOMAIN row |-> o[i].row]
        /\ cpu_len' = [r \in Requests |->
                         IF r \in Members(active) /\ row[slot[r]].commit
                         THEN Prefix[r] + o[slot[r]].row.start ELSE cpu_len[r]]
        /\ Hand([r \in Members(active) |-> HandedOver(r, o[slot[r]])])
        /\ to_free' = Keep(active, {r \in Members(active) : o[slot[r]].finish})
  BY DEF FlashStep
<1>2. /\ phase = "step" /\ phase' = "free"
      /\ UNCHANGED <<waiting, submitted, active, slot, kind>>
  BY DEF FlashStep
<1> DEFINE n == Len(active)
           fin == {r \in Members(active) : o[slot[r]].finish}
           new == [r \in Members(active) |-> HandedOver(r, o[slot[r]])]
<1>3. /\ n \in Nat /\ DOMAIN active = 1 .. n /\ DOMAIN row = 1 .. n /\ Len(row) = n
      /\ \A i \in 1 .. n : /\ active[i] \in Requests /\ row[i] \in RowSet
                           /\ slot[active[i]] = i
      /\ Members(active) \subseteq Requests
  BY SlotsFacts
<1>4. \A i \in 1 .. n : active[i] \in Members(active)
  BY <1>3 DEF Members
<1>5. \A i \in 1 .. n : o[i] \in Outcomes(row[i]) /\ row'[i] = o[i].row
  BY <1>1, <1>3
<1>6. RowSet = FlashRows
  BY DEF RowSet, FlashRows
<1>7. \A i \in 1 .. n : row'[i] \in RowSet /\ row'[i].owner = row[i].owner
  <2> TAKE i \in 1 .. n
  <2>1. row[i] \in FlashRows /\ o[i] \in Outcomes(row[i])
    BY <1>3, <1>5, <1>6
  <2>2. o[i].row \in FlashRows /\ o[i].row.owner = row[i].owner
    BY <2>1, OutcomeFacts
  <2>3. QED
    BY <1>5, <1>6, <2>2
<1>8. row' \in Seq(RowSet) /\ Len(row') = n
  <2>1. row' = [i \in 1 .. n |-> o[i].row]
    BY <1>1, <1>3
  <2>2. row' \in [1 .. n -> RowSet]
    BY <1>5, <1>7, <2>1
  <2> HIDE DEF n
  <2>3. QED
    BY <1>3, <2>1, <2>2
<1>9. to_free' = Keep(active, fin)
  BY <1>1
<1>10. Hand(new) /\ DOMAIN new = Members(active)
  BY <1>1
<1> HIDE DEF fin, new, n
<1>11. SlotsInv' /\ Members(to_free') = Members(active) \cap fin
  BY <1>2, <1>3, <1>7, <1>8, <1>9, StepSlots
<1>12. /\ \A r \in Members(active) : Handed(r, new[r])
       /\ \A r \in Requests \ Members(active) : LeftAlone(r)
  BY <1>3, <1>10, HandFacts
<1>13. ASSUME NEW i \in 1 .. n
       PROVE  /\ active[i] \in Members(to_free') <=> o[i].finish
              /\ cpu_len'[active[i]] = IF row[i].commit THEN Prefix[active[i]] + o[i].row.start
                                       ELSE cpu_len[active[i]]
              /\ Handed(active[i], HandedOver(active[i], o[i]))
  <2>1. /\ active[i] \in Members(active) /\ active[i] \in Requests /\ slot[active[i]] = i
    BY <1>3, <1>4
  <2>2. active[i] \in fin <=> o[i].finish
    BY <2>1 DEF fin
  <2>3. new[active[i]] = HandedOver(active[i], o[i])
    BY <2>1 DEF new
  <2>4. cpu_len'[active[i]] = IF row[i].commit THEN Prefix[active[i]] + o[i].row.start
                              ELSE cpu_len[active[i]]
    BY <1>1, <2>1
  <2>5. QED
    BY <1>11, <1>12, <2>1, <2>2, <2>3, <2>4
<1>14. \A r \in Requests \ Members(active) : cpu_len'[r] = cpu_len[r]
  BY <1>1
<1>15. FlashMoves(o)
  BY <1>5, <1>11, <1>12, <1>13, <1>14 DEF FlashMoves, n
<1>16. DOMAIN cpu_len' = Requests /\ cpu_len' = [r \in Requests |-> cpu_len'[r]]
  BY <1>1
<1>17. QED
  BY <1>3, <1>8, <1>11, <1>15, <1>16

TurboMoves(token) ==
  /\ \A i \in 1 .. Len(active) :
       LET r == active[i] IN
       /\ row'[i] = [row[i] EXCEPT !.cache = @ + 1]
       /\ token[r] \in Tokens
       /\ r \in Members(to_free') <=> Finishes(r, cpu_len'[r], token[r])
       /\ cpu_len'[r] = cpu_len[r] + 1
       /\ Handed(r, Consume(r, cpu_len'[r], token[r]))
  /\ \A r \in Requests \ Members(active) : LeftAlone(r) /\ cpu_len'[r] = cpu_len[r]
  /\ Members(to_free') \subseteq Members(active)

\* A step of Turbo as a change of each row and its length.
LEMMA TurboStepFacts ==
  ASSUME SlotsInv, kind = "turbo", TurboStep, UNCHANGED kind
  PROVE  /\ SlotsInv'
         /\ Len(row') = Len(row)
         /\ DOMAIN cpu_len' = Requests /\ cpu_len' = [r \in Requests |-> cpu_len'[r]]
         /\ \E token : TurboMoves(token)
<1>1. PICK token \in [Members(active) -> Tokens] :
        /\ Hand([r \in Members(active) |-> Consume(r, cpu_len'[r], token[r])])
        /\ to_free' = Keep(active, {r \in Members(active) :
                                      Finishes(r, cpu_len'[r], token[r])})
  BY DEF TurboStep
<1>2. /\ phase = "step" /\ phase' = "free"
      /\ UNCHANGED <<waiting, submitted, active, slot, kind>>
      /\ row' = [i \in DOMAIN row |-> [row[i] EXCEPT !.cache = @ + 1]]
      /\ cpu_len' = [r \in Requests |->
                       IF r \in Members(active) THEN cpu_len[r] + 1 ELSE cpu_len[r]]
  BY DEF TurboStep
<1> DEFINE n == Len(active)
           fin == {r \in Members(active) : Finishes(r, cpu_len'[r], token[r])}
           new == [r \in Members(active) |-> Consume(r, cpu_len'[r], token[r])]
<1>3. /\ n \in Nat /\ DOMAIN active = 1 .. n /\ DOMAIN row = 1 .. n /\ Len(row) = n
      /\ \A i \in 1 .. n : active[i] \in Requests /\ row[i] \in RowSet
      /\ Members(active) \subseteq Requests
  BY SlotsFacts
<1>4. \A i \in 1 .. n : active[i] \in Members(active)
  BY <1>3 DEF Members
<1>5. \A i \in 1 .. n : /\ row'[i] = [row[i] EXCEPT !.cache = @ + 1]
                        /\ row'[i] \in RowSet /\ row'[i].owner = row[i].owner
  BY <1>2, <1>3 DEF RowSet
<1>6. row' \in Seq(RowSet) /\ Len(row') = n
  <2>1. row' = [i \in 1 .. n |-> [row[i] EXCEPT !.cache = @ + 1]]
    BY <1>2, <1>3
  <2>2. row' \in [1 .. n -> RowSet]
    BY <1>5, <2>1
  <2> HIDE DEF n
  <2>3. QED
    BY <1>3, <2>1, <2>2
<1>7. to_free' = Keep(active, fin)
  BY <1>1
<1>8. Hand(new) /\ DOMAIN new = Members(active)
  BY <1>1
<1> HIDE DEF fin, new, n
<1>9. SlotsInv' /\ Members(to_free') = Members(active) \cap fin
  BY <1>2, <1>3, <1>5, <1>6, <1>7, StepSlots
<1>10. /\ \A r \in Members(active) : Handed(r, new[r])
       /\ \A r \in Requests \ Members(active) : LeftAlone(r)
  BY <1>3, <1>8, HandFacts
<1>11. ASSUME NEW r \in Members(active)
       PROVE  /\ r \in Members(to_free') <=> Finishes(r, cpu_len'[r], token[r])
              /\ cpu_len'[r] = cpu_len[r] + 1 /\ token[r] \in Tokens
              /\ Handed(r, Consume(r, cpu_len'[r], token[r]))
  <2>1. r \in fin <=> Finishes(r, cpu_len'[r], token[r])
    BY DEF fin
  <2>2. new[r] = Consume(r, cpu_len'[r], token[r])
    BY DEF new
  <2>3. cpu_len'[r] = cpu_len[r] + 1
    BY <1>2, <1>3
  <2>4. QED
    BY <1>1, <1>9, <1>10, <2>1, <2>2, <2>3
<1>12. \A r \in Requests \ Members(active) : cpu_len'[r] = cpu_len[r]
  BY <1>2
<1>13. TurboMoves(token)
  BY <1>4, <1>5, <1>9, <1>10, <1>11, <1>12 DEF TurboMoves, n
<1>14. DOMAIN cpu_len' = Requests /\ cpu_len' = [r \in Requests |-> cpu_len'[r]]
  BY <1>2
<1>15. QED
  BY <1>3, <1>6, <1>9, <1>13, <1>14

(* The two parts of a sequence. *)
LEMMA PartsFacts ==
  ASSUME NEW X, NEW q \in Seq(X), NEW n \in 0 .. Len(q)
  PROVE  LET p == SubSeq(q, 1, n)
             t == SubSeq(q, n + 1, Len(q))
         IN  /\ p \in Seq(X) /\ t \in Seq(X)
             /\ Members(p) = {q[i] : i \in 1 .. n}
             /\ Members(p) \cup Members(t) = Members(q)
             /\ Distinct(q) => Members(p) \cap Members(t) = {}
<1> DEFINE p == SubSeq(q, 1, n)
           m == Len(q)
           t == SubSeq(q, n + 1, m)
<1>1. m \in Nat /\ DOMAIN q = 1 .. m /\ n \in Nat /\ n <= m /\ \A i \in 1 .. m : q[i] \in X
  BY LenProperties, ElementOfSeq
<1> HIDE DEF m
<1>2. p \in Seq(X) /\ Len(p) = n /\ \A i \in 1 .. n : p[i] = q[i]
  BY <1>1
<1>3. /\ t \in Seq(X) /\ Len(t) = m - n
      /\ \A i \in 1 .. m - n : t[i] = q[n + i]
  BY <1>1
<1> HIDE DEF p, t
<1>4. DOMAIN p = 1 .. n /\ DOMAIN t = 1 .. m - n
  BY <1>2, <1>3, LenProperties
<1>5. Members(p) = {q[i] : i \in 1 .. n}
  BY <1>2, <1>4 DEF Members
<1>6. Members(t) = {q[i] : i \in n + 1 .. m}
  <2>1. \A i \in n + 1 .. m : i - n \in 1 .. m - n /\ t[i - n] = q[i]
    <3> TAKE i \in n + 1 .. m
    <3>1. i - n \in 1 .. m - n /\ n + (i - n) = i
      BY <1>1
    <3>2. QED
      BY <1>3, <3>1
  <2>2. \A i \in 1 .. m - n : n + i \in n + 1 .. m
    BY <1>1
  <2>3. Members(t) = {t[i] : i \in 1 .. m - n}
    BY <1>4 DEF Members
  <2>4. \A i \in 1 .. m - n : t[i] = q[n + i] /\ n + i \in n + 1 .. m
    BY <1>3, <2>2
  <2>5. {t[i] : i \in 1 .. m - n} \subseteq {q[i] : i \in n + 1 .. m}
    BY <2>4
  <2>6. {q[i] : i \in n + 1 .. m} \subseteq {t[i] : i \in 1 .. m - n}
    BY <2>1
  <2>7. QED
    BY <2>3, <2>5, <2>6
<1>7. Members(q) = {q[i] : i \in 1 .. m}
  BY <1>1 DEF Members
<1>8. 1 .. m = (1 .. n) \cup (n + 1 .. m) /\ (1 .. n) \cap (n + 1 .. m) = {}
  BY <1>1
<1>9. Members(p) \cup Members(t) = Members(q)
  BY <1>5, <1>6, <1>7, <1>8
<1>10. Distinct(q) => Members(p) \cap Members(t) = {}
  BY <1>1, <1>5, <1>6, <1>8 DEF Distinct
<1>11. QED
  BY <1>2, <1>3, <1>5, <1>9, <1>10 DEF p, t, m

\* What the handoff of r becomes in a tick that raises in it or behind it.
Reached(r, st) ==
  \/ /\ kind = "turbo"
     /\ \E len, token :
          st = Consume(r, len, token) \/ st \in ConsumeCut(r, len, token)
  \/ /\ kind = "flash" /\ phase = "step" /\ r \in Members(active)
     /\ \E o \in Outcomes(row[slot[r]]) :
          st = HandedOver(r, o) \/ st \in HandedOverCut(r, o)

\* Those in S are handed something, and nobody else.
ReachesOnly(S) ==
  /\ \A r \in S : \E st : Handed(r, st) /\ Reached(r, st)
  /\ \A r \in Requests \ S : LeftAlone(r)
  /\ committed' = [r \in Requests |-> committed'[r]]
  /\ emitted' = [r \in Requests |-> emitted'[r]]
  /\ t3_done' = [r \in Requests |-> t3_done'[r]]
  /\ chunks' = [r \in Requests |-> chunks'[r]]

\* A tick that raises aborts the active and those in E, which have come out of
\* the queue, and loses those in L.
RaiseMoves(E, L, S) ==
  /\ E \cap L = {} /\ E \cup L \subseteq Members(waiting)
  /\ Members(waiting') = Members(waiting) \ (E \cup L)
  /\ aborted' = aborted \cup Members(active) \cup E
  /\ lost' = lost \cup L
  /\ active' = <<>> /\ to_free' = <<>> /\ UNCHANGED <<submitted, kind>>
  /\ S \subseteq E \/ (phase = "step" /\ S \subseteq Members(active))
  /\ UNCHANGED handoffVars \/ ReachesOnly(S)

\* Hand, for those a raise has reached.
LEMMA HandReaches ==
  ASSUME NEW S, S \subseteq Requests, NEW new, DOMAIN new = S, Hand(new),
         \A r \in S : Reached(r, new[r])
  PROVE  ReachesOnly(S)
BY HandFacts DEF ReachesOnly

\* Admission raises when n of the batch are in their slots.
LEMMA AdmitRaisesFacts ==
  ASSUME SlotsInv, NEW n \in 0 .. Len(Batch), AdmitRaises(n), UNCHANGED kind,
         NEW S, S \subseteq Members(SubSeq(Batch, 1, n)),
         UNCHANGED handoffVars \/ ReachesOnly(S)
  PROVE  SlotsInv' /\ \E E, L, T : RaiseMoves(E, L, T)
<1> DEFINE E == Members(SubSeq(Batch, 1, n))
           L == Members(SubSeq(Batch, n + 1, Len(Batch)))
           entered == SubSeq(Batch, 1, n)
<1>1. /\ phase = "admit" /\ waiting' = Without(waiting, Members(Batch))
      /\ lost' = lost \cup L /\ EmptySlots(active \o entered)
  BY DEF AdmitRaises
<1>2. /\ Batch \in Seq(Requests) /\ Distinct(Batch)
      /\ Members(Batch) \subseteq Members(waiting)
  BY BatchFacts
<1>3. /\ entered \in Seq(Requests) /\ E \cup L = Members(Batch) /\ E \cap L = {}
  BY <1>2, PartsFacts
<1> HIDE DEF entered
<1>4. Members(active \o entered) = Members(active) \cup E
  <2>1. active \in Seq(Requests) /\ E = Members(entered)
    BY DEF SlotsInv, entered
  <2> HIDE DEF E
  <2>2. QED
    BY <1>3, <2>1, JoinedFacts
<1>5. /\ waiting' \in Seq(Requests) /\ Distinct(waiting')
      /\ Members(waiting') = Members(waiting) \ Members(Batch)
  BY <1>1, WithoutFacts DEF SlotsInv
<1>6. SlotsInv'
  BY <1>1, <1>5, EmptySlotsSlots
<1>7. /\ aborted' = aborted \cup Members(active \o entered)
      /\ active' = <<>> /\ to_free' = <<>> /\ UNCHANGED submitted
  BY <1>1 DEF EmptySlots
<1> HIDE DEF E, L
<1>8. RaiseMoves(E, L, S)
  BY <1>1, <1>2, <1>3, <1>4, <1>5, <1>7 DEF RaiseMoves, E
<1>9. QED
  BY <1>6, <1>8

\* The step or the release raises.
LEMMA StepRaisesFacts ==
  ASSUME SlotsInv, EmptySlots(active), UNCHANGED <<waiting, lost, kind>>,
         NEW S, S = {} \/ (phase = "step" /\ S \subseteq Members(active)),
         UNCHANGED handoffVars \/ ReachesOnly(S)
  PROVE  SlotsInv' /\ \E E, L, T : RaiseMoves(E, L, T)
<1>1. waiting' \in Seq(Requests) /\ Distinct(waiting')
  BY DEF SlotsInv
<1>2. SlotsInv'
  BY <1>1, EmptySlotsSlots
<1>3. RaiseMoves({}, {}, S)
  BY DEF RaiseMoves, EmptySlots
<1>4. QED
  BY <1>2, <1>3

\* Turbo, in the handoff of a first token.
LEMMA TurboAdmitRaisesFacts ==
  ASSUME SlotsInv, kind = "turbo", TurboAdmitRaises, UNCHANGED kind
  PROVE  SlotsInv' /\ \E E, L, S : RaiseMoves(E, L, S)
<1>1. /\ Batch \in Seq(Requests) /\ Len(Batch) \in Nat /\ DOMAIN Batch = 1 .. Len(Batch)
  BY BatchFacts, LenProperties
<1>2. CASE AdmitRaises(0) /\ UNCHANGED <<cpu_len, handoffVars>>
  <2>1. UNCHANGED handoffVars /\ 0 \in 0 .. Len(Batch)
    BY <1>1, <1>2
  <2>2. {} \subseteq Members(SubSeq(Batch, 1, 0))
    OBVIOUS
  <2>3. QED
    BY <1>2, <2>1, <2>2, AdmitRaisesFacts
<1>3. ASSUME NEW n \in DOMAIN Batch, AdmitRaises(n),
             NEW token, NEW cut,
             cut \in ConsumeCut(Batch[n], Prefix[Batch[n]] + 1, token[Batch[n]]),
             Hand([r \in Members(SubSeq(Batch, 1, n)) |->
                     IF r = Batch[n] THEN cut ELSE Consume(r, Prefix[r] + 1, token[r])])
      PROVE  SlotsInv' /\ \E E, L, S : RaiseMoves(E, L, S)
  <2> DEFINE S == Members(SubSeq(Batch, 1, n))
             new == [r \in S |-> IF r = Batch[n] THEN cut
                                 ELSE Consume(r, Prefix[r] + 1, token[r])]
  <2>1. n \in 0 .. Len(Batch)
    BY <1>1
  <2>2. S \subseteq Requests
    BY <1>1, <2>1, PartsFacts, MembersFacts
  <2>3. Hand(new) /\ DOMAIN new = S
    BY <1>3
  <2>4. \A r \in S : new[r] = IF r = Batch[n] THEN cut ELSE Consume(r, Prefix[r] + 1, token[r])
    OBVIOUS
  <2> HIDE DEF new
  <2>5. \A r \in S : Reached(r, new[r])
    BY <1>3, <2>4 DEF Reached
  <2>6. ReachesOnly(S)
    BY <2>2, <2>3, <2>5, HandReaches
  <2>7. QED
    BY <1>3, <2>1, <2>6, AdmitRaisesFacts
<1>4. QED
  BY <1>2, <1>3 DEF TurboAdmitRaises

\* Turbo, in the handoff of a token of the step.
LEMMA TurboStepRaisesFacts ==
  ASSUME SlotsInv, kind = "turbo", TurboStepRaises, UNCHANGED kind
  PROVE  SlotsInv' /\ \E E, L, S : RaiseMoves(E, L, S)
<1>1. /\ active \in Seq(Requests) /\ Len(active) \in Nat
      /\ DOMAIN active = 1 .. Len(active)
  BY SlotsFacts DEF SlotsInv
<1>2. phase = "step" /\ EmptySlots(active) /\ UNCHANGED <<waiting, lost>>
  BY DEF TurboStepRaises
<1>3. PICK n \in DOMAIN active :
        \E token : \E cut \in ConsumeCut(active[n], cpu_len'[active[n]], token[active[n]]) :
          Hand([r \in Members(SubSeq(active, 1, n)) |->
                  IF r = active[n] THEN cut ELSE Consume(r, cpu_len'[r], token[r])])
  BY DEF TurboStepRaises
<1>4. PICK token, cut :
        /\ cut \in ConsumeCut(active[n], cpu_len'[active[n]], token[active[n]])
        /\ Hand([r \in Members(SubSeq(active, 1, n)) |->
                   IF r = active[n] THEN cut ELSE Consume(r, cpu_len'[r], token[r])])
  BY <1>3
<1> DEFINE S == Members(SubSeq(active, 1, n))
           new == [r \in S |-> IF r = active[n] THEN cut
                               ELSE Consume(r, cpu_len'[r], token[r])]
<1>5. S \subseteq Members(active) /\ S \subseteq Requests
  <2>1. n \in 0 .. Len(active)
    BY <1>1
  <2>2. QED
    BY <1>1, <2>1, PartsFacts, MembersFacts
<1>6. Hand(new) /\ DOMAIN new = S
  BY <1>4
<1>7. \A r \in S : new[r] = IF r = active[n] THEN cut ELSE Consume(r, cpu_len'[r], token[r])
  OBVIOUS
<1> HIDE DEF new, S
<1>8. \A r \in S : Reached(r, new[r])
  BY <1>4, <1>7 DEF Reached
<1>9. ReachesOnly(S)
  BY <1>5, <1>6, <1>8, HandReaches
<1>10. QED
  BY <1>2, <1>5, <1>9, StepRaisesFacts

\* Flash, in the handoff of a block.
LEMMA FlashStepRaisesFacts ==
  ASSUME SlotsInv, kind = "flash", FlashStepRaises, UNCHANGED kind
  PROVE  SlotsInv' /\ \E E, L, S : RaiseMoves(E, L, S)
<1>1. /\ active \in Seq(Requests) /\ Len(active) \in Nat
      /\ DOMAIN active = 1 .. Len(active)
      /\ \A i \in 1 .. Len(active) : slot[active[i]] = i
  BY SlotsFacts DEF SlotsInv
<1>2. phase = "step" /\ EmptySlots(active) /\ UNCHANGED <<waiting, lost>>
  BY DEF FlashStepRaises
<1>3. PICK n \in DOMAIN active :
        \E o : /\ \A i \in 1 .. n : o[i] \in Outcomes(row[i])
               /\ \E cut \in HandedOverCut(active[n], o[n]) :
                    Hand([r \in Members(SubSeq(active, 1, n)) |->
                            IF r = active[n] THEN cut ELSE HandedOver(r, o[slot[r]])])
  BY DEF FlashStepRaises
<1>4. PICK o, cut :
        /\ \A i \in 1 .. n : o[i] \in Outcomes(row[i])
        /\ cut \in HandedOverCut(active[n], o[n])
        /\ Hand([r \in Members(SubSeq(active, 1, n)) |->
                   IF r = active[n] THEN cut ELSE HandedOver(r, o[slot[r]])])
  BY <1>3
<1> DEFINE S == Members(SubSeq(active, 1, n))
           new == [r \in S |-> IF r = active[n] THEN cut ELSE HandedOver(r, o[slot[r]])]
<1>5. /\ S \subseteq Members(active) /\ S \subseteq Requests
      /\ S = {active[i] : i \in 1 .. n}
  <2>1. n \in 0 .. Len(active)
    BY <1>1
  <2>2. QED
    BY <1>1, <2>1, PartsFacts, MembersFacts
<1>6. Hand(new) /\ DOMAIN new = S
  BY <1>4
<1>7. \A r \in S : new[r] = IF r = active[n] THEN cut ELSE HandedOver(r, o[slot[r]])
  OBVIOUS
<1> HIDE DEF new, S
<1>8. ASSUME NEW r \in S PROVE Reached(r, new[r])
  <2>1. PICK i \in 1 .. n : r = active[i]
    BY <1>5
  <2>2. slot[r] = i /\ o[i] \in Outcomes(row[i]) /\ n \in 1 .. Len(active)
    BY <1>1, <1>4, <2>1
  <2>3. slot[active[n]] = n
    BY <1>1
  <2>4. r = active[n] => i = n
    BY <2>2, <2>3
  <2>5. new[r] = HandedOver(r, o[i]) \/ new[r] \in HandedOverCut(r, o[i])
    BY <1>4, <1>7, <2>2, <2>4
  <2>6. QED
    BY <1>2, <1>5, <2>2, <2>5 DEF Reached
<1>9. ReachesOnly(S)
  BY <1>5, <1>6, <1>8, HandReaches
<1>10. QED
  BY <1>2, <1>5, <1>9, StepRaisesFacts

\* A tick that raises, wherever it does.
LEMMA RaiseFacts ==
  ASSUME SlotsInv, TickRaises
  PROVE  SlotsInv' /\ \E E, L, S : RaiseMoves(E, L, S)
<1>1. UNCHANGED kind
  BY DEF TickRaises
<1>2. CASE StepRaises \/ FreeRaises
  <2>1. EmptySlots(active) /\ UNCHANGED <<waiting, lost, handoffVars>>
    BY <1>2 DEF StepRaises, FreeRaises
  <2>2. QED
    BY <1>1, <2>1, StepRaisesFacts
<1>3. CASE kind = "turbo" /\ TurboRaises
  BY <1>1, <1>3, TurboAdmitRaisesFacts, TurboStepRaisesFacts DEF TurboRaises
<1>4. CASE kind = "flash" /\ FlashStepRaises
  BY <1>1, <1>4, FlashStepRaisesFacts
<1>5. CASE kind = "flash" /\ FlashAdmitRaises
  <2>1. PICK n \in 0 .. Len(Batch) - 1 : AdmitRaises(n) /\ UNCHANGED handoffVars
    BY <1>5 DEF FlashAdmitRaises
  <2>2. Len(Batch) \in Nat
    BY BatchFacts, LenProperties
  <2>3. n \in 0 .. Len(Batch)
    BY <2>2
  <2>4. {} \subseteq Members(SubSeq(Batch, 1, n))
    OBVIOUS
  <2>5. QED
    BY <1>1, <2>1, <2>3, <2>4, AdmitRaisesFacts
<1>6. QED
  BY <1>2, <1>3, <1>4, <1>5 DEF TickRaises, FlashRaises

\* A stuttering step keeps who is where.
LEMMA StutterSlots ==
  ASSUME SlotsInv, UNCHANGED vars
  PROVE  SlotsInv'
<1>1. UNCHANGED <<waiting, submitted, active, slot, row, phase, to_free, kind>>
  BY DEF vars, baseVars, slotVars
<1>2. SlotsMatch' /\ RowSet' = RowSet
  BY <1>1 DEF SlotsInv, SlotsMatch, RowSet
<1>3. QED
  BY <1>1, <1>2 DEF SlotsInv

\* SlotsInv is inductive.
LEMMA NextSlots == SlotsInv /\ [Next]_vars => SlotsInv'
<1> SUFFICES ASSUME SlotsInv, [Next]_vars PROVE SlotsInv'
  OBVIOUS
<1>1. ASSUME NEW r \in Requests, Submit(r), UNCHANGED kind PROVE SlotsInv'
  BY <1>1, SubmitSlots
<1>2. CASE Tick
  <2>1. UNCHANGED kind
    BY <1>2 DEF Tick
  <2>2. CASE kind = "turbo" /\ TurboTick
    BY <2>1, <2>2, TurboAdmitFacts, TurboStepFacts, FreeOneSlots, TickEndSlots DEF TurboTick
  <2>3. CASE kind = "flash" /\ FlashTick
    BY <2>1, <2>3, FlashAdmitFacts, FlashStepFacts, FreeOneSlots, TickEndSlots DEF FlashTick
  <2>4. QED
    BY <1>2, <2>2, <2>3 DEF Tick
<1>3. CASE TickRaises
  BY <1>3, RaiseFacts
<1>4. CASE Idle /\ UNCHANGED kind
  BY <1>4, StutterSlots DEF Idle, vars
<1>5. CASE UNCHANGED vars
  BY <1>5, StutterSlots
<1>6. QED
  BY <1>1, <1>2, <1>3, <1>4, <1>5 DEF Next

\* Who is in which slot is always consistent.
LEMMA SlotsAlways == Spec => []SlotsInv
<1>1. QED
  BY InitSlots, NextSlots, PTL DEF Spec

(* However many requests leave in one tick, and whenever a tick raises, every
   active request knows its slot, that slot's row is its own, and a request
   that has left has no slot: the swaps of _free_slot never mix up rows. *)
THEOREM SlotsStayMatched == Spec => []SlotsMatch
<1>1. SlotsInv => SlotsMatch
  BY DEF SlotsInv
<1>2. QED
  BY <1>1, SlotsAlways, PTL

-----------------------------------------------------------------------------
(* The handoff of a step, as records *)

St(n, e, done, sent) == [n |-> n, e |-> e, done |-> done, sent |-> sent]

\* What maybe_vocode sends is the handoff of the tokens so far.
LEMMA MaybeVocodeFacts ==
  ASSUME NEW n, NEW e, NEW done, NEW sent
  PROVE  MaybeVocode(St(n, e, done, sent))
           = St(n, SentUpTo(Handoff(n, e, done), e), done, sent \o Handoff(n, e, done))
<1> DEFINE s == Handoff(n, e, done)
           st == St(n, e, done, sent)
<1>1. st.n = n /\ st.e = e /\ st.done = done /\ st.sent = sent
  BY DEF St
<1>2. MaybeVocode(st) = [st EXCEPT !.sent = sent \o s, !.e = SentUpTo(s, e)]
  BY <1>1 DEF MaybeVocode, Sent
<1> HIDE DEF s
<1>3. QED
  BY <1>2 DEF St, s

\* The end of the tokens that have been handed over after Handoff.
Upto(n, e, done) == SentUpTo(Handoff(n, e, done), e)

\* push_committed counts the new tokens and sends what they complete.
LEMMA PushFacts ==
  ASSUME NEW n, NEW e, NEW done, NEW sent, NEW k
  PROVE  PushCommitted(St(n, e, done, sent), k)
           = St(n + k, Upto(n + k, e, done), done, sent \o Handoff(n + k, e, done))
<1>1. [St(n, e, done, sent) EXCEPT !.n = @ + k] = St(n + k, e, done, sent)
  BY DEF St
<1>2. QED
  BY <1>1, MaybeVocodeFacts DEF PushCommitted, Upto

\* finish_t3 sends the rest.
LEMMA FinishFacts ==
  ASSUME NEW n, NEW e, NEW done, NEW sent
  PROVE  FinishT3(St(n, e, done, sent))
           = St(n, Upto(n, e, TRUE), TRUE, sent \o Handoff(n, e, TRUE))
<1>1. PICK d : d = TRUE
  OBVIOUS
<1>2. [St(n, e, done, sent) EXCEPT !.done = d] = St(n, e, d, sent)
  BY DEF St
<1>3. MaybeVocode(St(n, e, d, sent)) = St(n, Upto(n, e, d), d, sent \o Handoff(n, e, d))
  BY MaybeVocodeFacts DEF Upto
<1>4. QED
  BY <1>1, <1>2, <1>3, Zenon DEF FinishT3

\* A handoff that raises has sent the first of its chunks.
LEMMA CutFacts ==
  ASSUME NEW n, NEW e, NEW done, NEW sent, NEW c \in Cut(St(n, e, done, sent))
  PROVE  LET all == Handoff(n, e, done)
         IN  \E k \in 0 .. Len(all) :
               c = St(n, SentUpTo(SubSeq(all, 1, k), e), done, sent \o SubSeq(all, 1, k))
<1> DEFINE all == Handoff(n, e, done)
           st == St(n, e, done, sent)
<1>1. st.n = n /\ st.e = e /\ st.done = done /\ st.sent = sent
  BY DEF St
<1>2. c \in Cut(st)
  OBVIOUS
<1> HIDE DEF st
<1>3. PICK k \in 0 .. Len(Handoff(st.n, st.e, st.done)) :
        c = Sent(st, SubSeq(Handoff(st.n, st.e, st.done), 1, k))
  BY <1>2 DEF Cut
<1> DEFINE part == SubSeq(all, 1, k)
<1> HIDE DEF all, part
<1>4. Sent(st, part) = St(n, SentUpTo(part, e), done, sent \o part)
  <2>1. Sent(st, part) = [st EXCEPT !.sent = sent \o part, !.e = SentUpTo(part, e)]
    BY <1>1 DEF Sent
  <2>2. QED
    BY <2>1 DEF St, st
<1>5. QED
  BY <1>1, <1>3, <1>4 DEF all, part

\* What _push_committed of k tokens hands over, and up to where.
EndAfter(r, k) == Upto(committed[r] + k, emitted[r], t3_done[r])
SentFor(r, k) == <<>> \o Handoff(committed[r] + k, emitted[r], t3_done[r])

\* The handoff of a request after a push, and after the end.
LEMMA HandoffStateFacts ==
  ASSUME NEW r, NEW k
  PROVE  /\ HandoffState(r) = St(committed[r], emitted[r], t3_done[r], <<>>)
         /\ PushCommitted(HandoffState(r), k)
              = St(committed[r] + k, EndAfter(r, k), t3_done[r], SentFor(r, k))
         /\ FinishT3(PushCommitted(HandoffState(r), k))
              = St(committed[r] + k, Upto(committed[r] + k, EndAfter(r, k), TRUE), TRUE,
                   SentFor(r, k) \o Handoff(committed[r] + k, EndAfter(r, k), TRUE))
<1>1. HandoffState(r) = St(committed[r], emitted[r], t3_done[r], <<>>)
  BY DEF HandoffState, St
<1>2. PushCommitted(St(committed[r], emitted[r], t3_done[r], <<>>), k)
        = St(committed[r] + k, EndAfter(r, k), t3_done[r], SentFor(r, k))
  <2> DEFINE n == committed[r]
             e == emitted[r]
             done == t3_done[r]
             none == <<>>
  <2> HIDE DEF n, e, done, none
  <2>1. PushCommitted(St(n, e, done, none), k)
          = St(n + k, Upto(n + k, e, done), done, none \o Handoff(n + k, e, done))
    BY PushFacts
  <2>2. QED
    BY <2>1 DEF EndAfter, SentFor, n, e, done, none
<1>3. FinishT3(St(committed[r] + k, EndAfter(r, k), t3_done[r], SentFor(r, k)))
        = St(committed[r] + k, Upto(committed[r] + k, EndAfter(r, k), TRUE), TRUE,
             SentFor(r, k) \o Handoff(committed[r] + k, EndAfter(r, k), TRUE))
  BY FinishFacts
<1>4. QED
  BY <1>1, <1>2, <1>3, Zenon

\* The fields of a handoff record.
LEMMA StFields ==
  ASSUME NEW n, NEW e, NEW done, NEW sent
  PROVE  /\ St(n, e, done, sent).n = n /\ St(n, e, done, sent).e = e
         /\ St(n, e, done, sent).done = done /\ St(n, e, done, sent).sent = sent
BY DEF St

\* The fields of the handoff of a request after a push, and after the end.
LEMMA HandoffFields ==
  ASSUME NEW r, NEW k
  PROVE  LET p == PushCommitted(HandoffState(r), k)
             f == FinishT3(p)
         IN  /\ HandoffState(r).n = committed[r] /\ HandoffState(r).e = emitted[r]
             /\ HandoffState(r).done = t3_done[r] /\ HandoffState(r).sent = <<>>
             /\ p.n = committed[r] + k /\ p.e = EndAfter(r, k)
             /\ p.done = t3_done[r] /\ p.sent = SentFor(r, k)
             /\ f.n = committed[r] + k /\ f.e = Upto(committed[r] + k, EndAfter(r, k), TRUE)
             /\ f.done = TRUE
             /\ f.sent = SentFor(r, k) \o Handoff(committed[r] + k, EndAfter(r, k), TRUE)
<1> DEFINE n == committed[r] + k
           e == EndAfter(r, k)
           e2 == Upto(committed[r] + k, EndAfter(r, k), TRUE)
           sent == SentFor(r, k)
           sent2 == SentFor(r, k) \o Handoff(committed[r] + k, EndAfter(r, k), TRUE)
           p == PushCommitted(HandoffState(r), k)
           f == FinishT3(p)
<1>1. p = St(n, e, t3_done[r], sent) /\ f = St(n, e2, TRUE, sent2)
  BY HandoffStateFacts
<1> HIDE DEF n, e, e2, sent, sent2, p, f
<1>2. p.n = n /\ p.e = e /\ p.done = t3_done[r] /\ p.sent = sent
  BY <1>1, StFields
<1>3. f.n = n /\ f.e = e2 /\ f.done = TRUE /\ f.sent = sent2
  BY <1>1 DEF St
<1>4. /\ HandoffState(r).n = committed[r] /\ HandoffState(r).e = emitted[r]
      /\ HandoffState(r).done = t3_done[r] /\ HandoffState(r).sent = <<>>
  BY DEF HandoffState
<1>5. QED
  BY <1>2, <1>3, <1>4 DEF n, e, e2, sent, sent2, p, f

\* An outcome of Flash pushes and finishes, only pushes, or does neither.
LEMMA HandedOverCases ==
  ASSUME NEW r, NEW o
  PROVE  /\ o.pushes /\ o.finish =>
              HandedOver(r, o) = FinishT3(PushCommitted(HandoffState(r), o.push))
         /\ o.pushes /\ ~o.finish =>
              HandedOver(r, o) = PushCommitted(HandoffState(r), o.push)
         /\ ~o.pushes /\ ~o.finish => HandedOver(r, o) = HandoffState(r)
BY DEF HandedOver

\* What one outcome of a step does to the count and the end of a request.
LEMMA HandedOverCounts ==
  ASSUME NEW r, NEW o, o.finish => o.pushes
  PROVE  /\ o.pushes => HandedOver(r, o).n = committed[r] + o.push
         /\ ~o.pushes => HandedOver(r, o).n = committed[r]
         /\ o.finish => HandedOver(r, o).done = TRUE
         /\ ~o.finish => HandedOver(r, o).done = t3_done[r]
<1> DEFINE k == o.push
           p == PushCommitted(HandoffState(r), k)
           f == FinishT3(p)
<1>1. /\ HandoffState(r).n = committed[r] /\ HandoffState(r).done = t3_done[r]
      /\ p.n = committed[r] + k /\ p.done = t3_done[r]
      /\ f.n = committed[r] + k /\ f.done = TRUE
  <2> HIDE DEF k
  <2>1. QED
    BY HandoffFields, ZenonT(60)
<1>2. /\ o.pushes /\ o.finish => HandedOver(r, o) = f
      /\ o.pushes /\ ~o.finish => HandedOver(r, o) = p
      /\ ~o.pushes /\ ~o.finish => HandedOver(r, o) = HandoffState(r)
  BY HandedOverCases
<1> HIDE DEF p, f
<1>3. QED
  BY <1>1, <1>2

(* The silence that ends a request of Turbo, and the end of its decoding. *)
LEMMA LateFacts ==
  ASSUME NEW r
  PROVE  FinishT3([HandoffState(r) EXCEPT !.n = @ + Silence])
           = St(committed[r] + Silence, Upto(committed[r] + Silence, emitted[r], TRUE), TRUE,
                <<>> \o Handoff(committed[r] + Silence, emitted[r], TRUE))
<1> DEFINE n == committed[r] + Silence
           e == emitted[r]
           sent == <<>>
           late == [HandoffState(r) EXCEPT !.n = @ + Silence]
<1>1. late = St(n, e, t3_done[r], sent)
  BY DEF HandoffState, St
<1>2. FinishT3(St(n, e, t3_done[r], sent))
        = St(n, Upto(n, e, TRUE), TRUE, sent \o Handoff(n, e, TRUE))
  <2> HIDE DEF n, e, sent
  <2>1. QED
    BY FinishFacts
<1>3. QED
  BY <1>1, <1>2, Zenon

\* A request is done after consume exactly when it finishes with the token.
LEMMA ConsumeDone ==
  ASSUME NEW r, NEW len, NEW token
  PROVE  /\ Finishes(r, len, token) => Consume(r, len, token).done = TRUE
         /\ ~Finishes(r, len, token) => Consume(r, len, token).done = t3_done[r]
<1> DEFINE k == IF token = "speech" THEN 1 ELSE 0
           n == committed[r] + Silence
           upto == Upto(n, emitted[r], TRUE)
           all == <<>> \o Handoff(n, emitted[r], TRUE)
           late == [HandoffState(r) EXCEPT !.n = @ + Silence]
<1>1. FinishT3(late) = St(n, upto, TRUE, all)
  BY LateFacts
<1>2. FinishT3(late).done = TRUE
  <2> HIDE DEF n, upto, all, late
  <2>1. QED
    BY <1>1 DEF St
<1>3. PushCommitted(HandoffState(r), k).done = t3_done[r]
  <2> HIDE DEF k
  <2>1. QED
    BY HandoffFields
<1>4. /\ Finishes(r, len, token) => Consume(r, len, token) = FinishT3(late)
      /\ ~Finishes(r, len, token) => Consume(r, len, token) = PushCommitted(HandoffState(r), k)
  BY DEF Consume
<1> HIDE DEF late, k
<1>5. QED
  BY <1>2, <1>3, <1>4

\* The three places in which a handoff can raise.
LEMMA CutForms ==
  ASSUME NEW r, NEW k
  PROVE  /\ PushCut(HandoffState(r), k)
              = Cut(St(committed[r] + k, emitted[r], t3_done[r], <<>>))
         /\ FinishCut([HandoffState(r) EXCEPT !.n = @ + k])
              = Cut(St(committed[r] + k, emitted[r], TRUE, <<>>))
         /\ FinishCut(PushCommitted(HandoffState(r), k))
              = Cut(St(committed[r] + k, EndAfter(r, k), TRUE, SentFor(r, k)))
<1>1. [HandoffState(r) EXCEPT !.n = @ + k]
        = St(committed[r] + k, emitted[r], t3_done[r], <<>>)
  BY DEF HandoffState, St
<1>2. PushCommitted(HandoffState(r), k)
        = St(committed[r] + k, EndAfter(r, k), t3_done[r], SentFor(r, k))
  BY HandoffStateFacts
<1>3. ASSUME NEW n, NEW e, NEW d, NEW s PROVE FinishCut(St(n, e, d, s)) = Cut(St(n, e, TRUE, s))
  <2>1. PICK z : z = TRUE
    OBVIOUS
  <2>2. [St(n, e, d, s) EXCEPT !.done = z] = St(n, e, z, s)
    BY DEF St
  <2>3. QED
    BY <2>1, <2>2, Zenon DEF FinishCut
<1>4. PushCut(HandoffState(r), k) = Cut([HandoffState(r) EXCEPT !.n = @ + k])
  BY DEF PushCut
<1>5. PushCut(HandoffState(r), k) = Cut(St(committed[r] + k, emitted[r], t3_done[r], <<>>))
  BY <1>1, <1>4, Zenon
<1>6. FinishCut([HandoffState(r) EXCEPT !.n = @ + k])
        = Cut(St(committed[r] + k, emitted[r], TRUE, <<>>))
  <2> DEFINE none == <<>>
             n == committed[r] + k
             e == emitted[r]
             d == t3_done[r]
  <2>1. [HandoffState(r) EXCEPT !.n = @ + k] = St(n, e, d, none)
    BY <1>1
  <2> HIDE DEF none, n, e, d
  <2>2. FinishCut(St(n, e, d, none)) = Cut(St(n, e, TRUE, none))
    BY <1>3
  <2>3. QED
    BY <2>1, <2>2, Zenon DEF none, n, e
<1>7. FinishCut(PushCommitted(HandoffState(r), k))
        = Cut(St(committed[r] + k, EndAfter(r, k), TRUE, SentFor(r, k)))
  BY <1>2, <1>3, Zenon
<1>8. QED
  BY <1>5, <1>6, <1>7, Zenon

\* A raise leaves a request with its whole handoff, or with one that was cut
\* in one of these places.
LEMMA ReachedCases ==
  ASSUME SlotsInv, NEW r, NEW st, Reached(r, st)
  PROVE  \/ kind = "turbo" /\ \E len, token : st = Consume(r, len, token)
         \/ /\ kind = "flash" /\ r \in Members(active)
            /\ \E o \in Outcomes(row[slot[r]]) : st = HandedOver(r, o)
         \/ \E k \in Nat :
              /\ \/ kind = "turbo"
                 \/ kind = "flash" /\ \E o \in Outcomes(row[slot[r]]) : k = o.push
              /\ \/ st \in Cut(St(committed[r] + k, emitted[r], t3_done[r], <<>>))
                 \/ st \in Cut(St(committed[r] + k, emitted[r], TRUE, <<>>))
                 \/ st \in Cut(St(committed[r] + k, EndAfter(r, k), TRUE, SentFor(r, k)))
<1>1. ASSUME kind = "turbo", NEW len, NEW token, st \in ConsumeCut(r, len, token)
      PROVE  \E k \in Nat :
               \/ st \in Cut(St(committed[r] + k, emitted[r], t3_done[r], <<>>))
               \/ st \in Cut(St(committed[r] + k, emitted[r], TRUE, <<>>))
  <2>1. CASE Finishes(r, len, token)
    <3>1. st \in FinishCut([HandoffState(r) EXCEPT !.n = @ + Silence])
      BY <1>1, <2>1 DEF ConsumeCut
    <3>2. Silence \in Nat
      BY DEF Silence
    <3>3. st \in Cut(St(committed[r] + Silence, emitted[r], TRUE, <<>>))
      BY <3>1, CutForms, Zenon
    <3>4. QED
      BY <3>2, <3>3, Zenon
  <2>2. CASE ~Finishes(r, len, token)
    <3> DEFINE k == IF token = "speech" THEN 1 ELSE 0
    <3>1. st \in PushCut(HandoffState(r), k)
      BY <1>1, <2>2 DEF ConsumeCut
    <3>2. k \in Nat
      OBVIOUS
    <3> HIDE DEF k
    <3>3. st \in Cut(St(committed[r] + k, emitted[r], t3_done[r], <<>>))
      BY <3>1, CutForms, Zenon
    <3>4. QED
      BY <3>2, <3>3, Zenon
  <2>3. QED
    BY <2>1, <2>2
<1>2. ASSUME kind = "flash", r \in Members(active),
             NEW o \in Outcomes(row[slot[r]]), st \in HandedOverCut(r, o)
      PROVE  \E k \in Nat :
               /\ k = o.push
               /\ \/ st \in Cut(St(committed[r] + k, emitted[r], t3_done[r], <<>>))
                  \/ st \in Cut(St(committed[r] + k, EndAfter(r, k), TRUE, SentFor(r, k)))
  <2>1. row[slot[r]] \in FlashRows
    BY <1>2, SlotsFacts DEF RowSet, FlashRows
  <2>2. o.push \in 0 .. BlockSize /\ BlockSize \in Nat
    BY <2>1, OutcomeFacts, FlashAssumption
  <2> DEFINE k == o.push
  <2>3. k \in Nat
    BY <2>2
  <2>4. st \in PushCut(HandoffState(r), k) \/ st \in FinishCut(PushCommitted(HandoffState(r), k))
    BY <1>2 DEF HandedOverCut
  <2>5. k = o.push
    OBVIOUS
  <2> HIDE DEF k
  <2>6. \/ st \in Cut(St(committed[r] + k, emitted[r], t3_done[r], <<>>))
        \/ st \in Cut(St(committed[r] + k, EndAfter(r, k), TRUE, SentFor(r, k)))
    BY <2>4, CutForms, Zenon
  <2>7. QED
    BY <2>3, <2>5, <2>6, Zenon
<1>3. CASE kind = "turbo"
  BY <1>1, <1>3 DEF Reached
<1>4. CASE kind = "flash"
  BY <1>2, <1>4 DEF Reached
<1>5. QED
  BY <1>3, <1>4 DEF Reached

\* What a raise leaves of the count and the end of a request.
LEMMA ReachedCounts ==
  ASSUME SlotsInv, NEW r, NEW st, Reached(r, st)
  PROVE  /\ st.done = TRUE \/ st.done = t3_done[r]
         /\ kind = "flash" =>
              \E o \in Outcomes(row[slot[r]]) :
                st.n = committed[r] + o.push \/ st.n = committed[r]
<1>1. CASE kind = "turbo" /\ \E len, token : st = Consume(r, len, token)
  BY <1>1, ConsumeDone
<1>2. CASE /\ kind = "flash" /\ r \in Members(active)
           /\ \E o \in Outcomes(row[slot[r]]) : st = HandedOver(r, o)
  <2>1. PICK o \in Outcomes(row[slot[r]]) : st = HandedOver(r, o)
    BY <1>2
  <2>2. row[slot[r]] \in FlashRows
    BY <1>2, SlotsFacts DEF RowSet, FlashRows
  <2>3. o.finish => o.pushes
    BY <2>2, OutcomeFacts
  <2>4. QED
    BY <2>1, <2>3, HandedOverCounts
<1>3. ASSUME NEW k, NEW e, NEW d, NEW s, st \in Cut(St(committed[r] + k, e, d, s))
      PROVE  st.n = committed[r] + k /\ st.done = d
  <2> DEFINE n == committed[r] + k
  <2>1. \E e2, s2 : st = St(n, e2, d, s2)
    <3>1. st \in Cut(St(n, e, d, s))
      BY <1>3
    <3> DEFINE all == Handoff(n, e, d)
    <3> HIDE DEF n
    <3>2. PICK i \in 0 .. Len(all) :
            st = St(n, SentUpTo(SubSeq(all, 1, i), e), d, s \o SubSeq(all, 1, i))
      BY <3>1, CutFacts
    <3>3. QED
      BY <3>2, Zenon
  <2> HIDE DEF n
  <2>2. PICK e2, s2 : st = St(n, e2, d, s2)
    BY <2>1
  <2>3. QED
    BY <2>2 DEF St, n
<1>4. ASSUME NEW k \in Nat,
             \/ st \in Cut(St(committed[r] + k, emitted[r], t3_done[r], <<>>))
             \/ st \in Cut(St(committed[r] + k, emitted[r], TRUE, <<>>))
             \/ st \in Cut(St(committed[r] + k, EndAfter(r, k), TRUE, SentFor(r, k)))
      PROVE  st.n = committed[r] + k /\ (st.done = TRUE \/ st.done = t3_done[r])
  <2> DEFINE z == TRUE
             none == <<>>
  <2>1. \/ st \in Cut(St(committed[r] + k, emitted[r], t3_done[r], none))
        \/ st \in Cut(St(committed[r] + k, emitted[r], z, none))
        \/ st \in Cut(St(committed[r] + k, EndAfter(r, k), z, SentFor(r, k)))
    BY <1>4
  <2>2. z = TRUE
    OBVIOUS
  <2> HIDE DEF z, none
  <2>3. QED
    BY <1>3, <2>1, <2>2
<1>5. QED
  BY <1>1, <1>2, <1>4, ReachedCases, Zenon

-----------------------------------------------------------------------------
(* Flash: what the rows and the host's mirror hold *)

\* The budgets of the service: whole blocks, and one block less than what the
\* row has room for (see FlashBudget for what happens otherwise).
BudgetsInBlocks ==
  \A r \in Requests :
    /\ Budget[r] > 0 /\ Budget[r] + BlockSize <= NMax
    /\ \E j \in Nat : Budget[r] = j * BlockSize

\* Request r in row w, with len its cpu_len, com its committed tokens, and leaves
\* whether it is about to leave its slot.
FlashPair(r, w, len, com, leaves) ==
  /\ w.budget = Budget[r]
  /\ \E j \in Nat : w.start = j * BlockSize
  /\ w.start <= Budget[r]
  /\ w.cache = Prefix[r] + w.start
  /\ len = w.cache
  /\ ~leaves => w.start < Budget[r] /\ com <= w.start

FlashInv ==
  /\ cpu_len \in [Requests -> Nat]
  /\ committed \in [Requests -> Nat]
  /\ \A i \in 1 .. Len(active) :
       FlashPair(active[i], row[i], cpu_len[active[i]], committed[active[i]],
                 active[i] \in Members(to_free))
  /\ BudgetRespected
  /\ \A r \in Requests : r \notin submitted \/ r \in Members(waiting) => committed[r] = 0

\* A larger number is the smaller one and something more.
LEMMA Difference ==
  ASSUME NEW a \in Nat, NEW b \in Nat, a >= b
  PROVE  \E d \in Nat : a = b + d
<1>1. a - b \in Nat /\ a = b + (a - b)
  OBVIOUS
<1>2. QED
  BY <1>1

\* Between two multiples of b lies b at least.
LEMMA MultiplesStep ==
  ASSUME NEW b \in Nat \ {0}, NEW j \in Nat, NEW m \in Nat, j * b < m * b
  PROVE  j * b + b <= m * b
<1>1. j < m
  <2>1. SUFFICES ASSUME ~ (j < m) PROVE FALSE
    OBVIOUS
  <2>2. PICK d \in Nat : j = m + d
    <3>1. j >= m
      BY <2>1
    <3>2. QED
      BY <3>1, Difference
  <2>3. j * b = m * b + d * b
    BY <2>2
  <2>4. d * b \in Nat /\ m * b \in Nat
    OBVIOUS
  <2>5. QED
    BY <2>3, <2>4
<1>2. PICK d \in Nat : m = j + 1 + d
  <2>1. m >= j + 1 /\ j + 1 \in Nat
    BY <1>1
  <2>2. QED
    BY <2>1, Difference
<1>3. m * b = j * b + b + d * b
  BY <1>2
<1>4. d * b \in Nat /\ j * b \in Nat
  OBVIOUS
<1>5. QED
  BY <1>3, <1>4

\* The next block of a request that has not reached its budget is within it.
LEMMA NextBlockFits ==
  ASSUME BudgetsInBlocks, NEW r \in Requests, NEW start \in Nat,
         NEW j \in Nat, start = j * BlockSize, start < Budget[r]
  PROVE  /\ start + BlockSize <= Budget[r]
         /\ start + BlockSize = (j + 1) * BlockSize
<1>1. BlockSize \in Nat \ {0}
  BY FlashAssumption
<1>2. PICK m \in Nat : Budget[r] = m * BlockSize
  BY DEF BudgetsInBlocks
<1>3. j * BlockSize + BlockSize <= m * BlockSize
  BY <1>1, <1>2, MultiplesStep
<1>4. (j + 1) * BlockSize = j * BlockSize + BlockSize
  BY <1>1
<1>5. QED
  BY <1>2, <1>3, <1>4

\* A slot of the next state holds what one of this state held, or a new row.
LEMMA PairOrigin ==
  ASSUME SlotsInv', NEW New, PairsNext \subseteq Pairs \cup New, NEW j \in 1 .. Len(active')
  PROVE  \/ \E i \in DOMAIN active : active'[j] = active[i] /\ row'[j] = row[i]
         \/ <<active'[j], row'[j]>> \in New
<1>1. DOMAIN active' = 1 .. Len(active')
  BY LenProperties DEF SlotsInv
<1>2. <<active'[j], row'[j]>> \in Pairs \cup New
  BY <1>1 DEF PairsNext
<1>3. QED
  BY <1>2 DEF Pairs

\* No row is there initially.
LEMMA InitFlash == Init => FlashInv
<1> SUFFICES ASSUME Init PROVE FlashInv
  OBVIOUS
<1>1. /\ active = <<>> /\ committed = [r \in Requests |-> 0]
      /\ cpu_len = [r \in Requests |-> 0] /\ Len(<<>>) = 0
  BY DEF Init, BaseInit
<1>2. BudgetRespected
  BY <1>1, FlashAssumption DEF BudgetRespected
<1>3. QED
  BY <1>1, <1>2 DEF FlashInv

\* Submitting touches no row.
LEMMA SubmitFlash ==
  ASSUME SlotsInv, FlashInv, NEW r \in Requests, Submit(r), UNCHANGED kind
  PROVE  FlashInv'
<1>1. /\ waiting' = Append(waiting, r) /\ submitted' = submitted \cup {r}
      /\ r \notin submitted /\ waiting \in Seq(Requests)
      /\ UNCHANGED <<active, slot, row, phase, to_free, cpu_len, committed, kind>>
  BY DEF Submit, slotVars, handoffVars, SlotsInv
<1>2. Members(waiting') \subseteq Members(waiting) \cup {r}
  BY <1>1, LenProperties DEF Members
<1>3. ASSUME NEW s \in Requests, s \notin submitted' \/ s \in Members(waiting')
      PROVE  committed'[s] = 0
  BY <1>1, <1>2, <1>3 DEF FlashInv
<1>4. QED
  BY <1>1, <1>3 DEF FlashInv, FlashPair, BudgetRespected

\* A row starts with its prefix in the cache and no token committed, and the
\* host knows it.
LEMMA AdmitFlash ==
  ASSUME SlotsInv, FlashInv, BudgetsInBlocks, kind = "flash", FlashAdmit, UNCHANGED kind
  PROVE  FlashInv'
<1>1. /\ SlotsInv'
      /\ Members(active') = Members(active) \cup Members(Batch)
      /\ Members(waiting') = Members(waiting) \ Members(Batch)
      /\ PairsNext \subseteq Pairs \cup {<<r, Fresh(r)>> : r \in Members(Batch)}
  BY FlashAdmitFacts
<1>2. /\ UNCHANGED <<submitted, to_free, committed, kind>>
      /\ cpu_len' = [r \in Requests |->
                       IF r \in Members(Batch) THEN Prefix[r] ELSE cpu_len[r]]
  BY DEF FlashAdmit, handoffVars
<1>3. /\ Members(Batch) \subseteq Members(waiting) /\ Members(Batch) \subseteq Requests
      /\ Members(waiting) \cap Members(active) = {}
  BY BatchFacts, MembersFacts DEF SlotsInv
<1>4. cpu_len' \in [Requests -> Nat]
  BY <1>2, EngineAssumption DEF FlashInv
<1>5. ASSUME NEW j \in 1 .. Len(active')
      PROVE  FlashPair(active'[j], row'[j], cpu_len'[active'[j]], committed'[active'[j]],
                       active'[j] \in Members(to_free'))
  <2>1. CASE \E i \in DOMAIN active : active'[j] = active[i] /\ row'[j] = row[i]
    <3>1. PICK i \in DOMAIN active : active'[j] = active[i] /\ row'[j] = row[i]
      BY <2>1
    <3>2. /\ FlashPair(active[i], row[i], cpu_len[active[i]], committed[active[i]],
                       active[i] \in Members(to_free))
          /\ active[i] \in Members(active) /\ active[i] \in Requests
      BY SlotsFacts DEF FlashInv, Members
    <3>3. cpu_len'[active[i]] = cpu_len[active[i]]
      BY <1>2, <1>3, <3>2
    <3>4. QED
      BY <1>2, <3>1, <3>2, <3>3
  <2>2. CASE <<active'[j], row'[j]>> \in {<<r, Fresh(r)>> : r \in Members(Batch)}
    <3>1. PICK r \in Members(Batch) : active'[j] = r /\ row'[j] = Fresh(r)
      BY <2>2
    <3>2. /\ Fresh(r).budget = Budget[r] /\ Fresh(r).start = 0
          /\ Fresh(r).cache = Prefix[r]
      BY DEF Fresh
    <3>3. /\ r \in Requests /\ r \in Members(waiting) /\ cpu_len'[r] = Prefix[r]
      BY <1>2, <1>3
    <3>4. committed[r] = 0 /\ Prefix[r] \in Nat /\ Budget[r] \in Nat /\ Budget[r] > 0
      BY <3>3, EngineAssumption, FlashAssumption DEF FlashInv, BudgetsInBlocks
    <3>5. 0 = 0 * BlockSize
      BY FlashAssumption
    <3>6. QED
      BY <1>2, <3>1, <3>2, <3>3, <3>4, <3>5 DEF FlashPair
  <2>3. QED
    BY <1>1, <2>1, <2>2, PairOrigin
<1>6. \A r \in Requests : r \notin submitted' \/ r \in Members(waiting') => committed'[r] = 0
  BY <1>1, <1>2 DEF FlashInv
<1>7. QED
  BY <1>2, <1>4, <1>5, <1>6 DEF FlashInv, BudgetRespected

\* A commit adds a block on both sides, and the row that reaches its budget
\* leaves with this step.
LEMMA StepFlash ==
  ASSUME SlotsInv, FlashInv, BudgetsInBlocks, kind = "flash", FlashStep, UNCHANGED kind
  PROVE  FlashInv'
<1>1. /\ SlotsInv' /\ Len(row') = Len(row)
      /\ DOMAIN cpu_len' = Requests /\ cpu_len' = [r \in Requests |-> cpu_len'[r]]
  BY FlashStepFacts
<1>2. PICK o : FlashMoves(o)
  BY FlashStepFacts
<1>3. /\ phase = "step" /\ UNCHANGED <<waiting, submitted, active, slot, kind>>
      /\ to_free = <<>>
  BY DEF FlashStep, SlotsInv
<1> DEFINE n == Len(active)
<1>4. /\ n \in Nat /\ DOMAIN active = 1 .. n
      /\ \A i \in 1 .. n : active[i] \in Requests /\ row[i] \in RowSet
      /\ Members(active) \subseteq Requests
  BY SlotsFacts
<1>5. RowSet = FlashRows /\ Members(to_free) = {}
  BY <1>3 DEF RowSet, FlashRows, Members
<1>6. ASSUME NEW i \in 1 .. n
      PROVE  /\ FlashPair(active[i], row'[i], cpu_len'[active[i]], committed'[active[i]],
                          active[i] \in Members(to_free'))
             /\ cpu_len'[active[i]] \in Nat /\ committed'[active[i]] \in Nat
             /\ committed'[active[i]] <= Budget[active[i]]
  <2> DEFINE r == active[i]
             w == row[i]
             p == o[i]
  <2>1. /\ r \in Requests /\ w \in FlashRows /\ p \in Outcomes(w) /\ row'[i] = p.row
        /\ r \in Members(to_free') <=> p.finish
        /\ cpu_len'[r] = IF w.commit THEN Prefix[r] + p.row.start ELSE cpu_len[r]
        /\ Handed(r, HandedOver(r, p))
        /\ r \notin Members(to_free)
    BY <1>2, <1>4, <1>5 DEF FlashMoves
  <2>2. /\ w.budget = Budget[r] /\ w.start < Budget[r] /\ committed[r] <= w.start
        /\ w.cache = Prefix[r] + w.start /\ cpu_len[r] = w.cache
        /\ \E j \in Nat : w.start = j * BlockSize
    BY <2>1 DEF FlashInv, FlashPair
  <2> HIDE DEF r, w, p
  <2>3. /\ w.start \in Nat /\ w.cache \in Nat /\ w.commit \in BOOLEAN
        /\ Budget[r] \in Nat /\ Prefix[r] \in Nat /\ committed[r] \in Nat
        /\ BlockSize \in Nat \ {0} /\ NMax \in Nat
        /\ LongestPrefix \in Nat /\ Prefix[r] <= LongestPrefix
        /\ Budget[r] + BlockSize <= NMax
    BY <2>1, EngineAssumption, FlashAssumption, LongestPrefixFacts
       DEF FlashRows, FlashInv, BudgetsInBlocks
  <2>4. PICK j \in Nat : w.start = j * BlockSize
    BY <2>2
  <2>5. /\ w.start + BlockSize <= Budget[r]
        /\ w.start + BlockSize = (j + 1) * BlockSize
    BY <2>1, <2>2, <2>3, <2>4, NextBlockFits
  <2>6. /\ p.row \in FlashRows /\ p.row.budget = w.budget
        /\ p.push \in 0 .. BlockSize /\ p.pushes \in BOOLEAN /\ p.finish \in BOOLEAN
    BY <2>1, OutcomeFacts
  <2>7. (p.finish => p.pushes) /\ (w.commit => p.pushes)
    BY <2>1, OutcomeFacts
  <2>8. committed'[r] = IF p.pushes THEN committed[r] + p.push ELSE committed[r]
    <3>1. committed'[r] = HandedOver(r, p).n
      BY <2>1 DEF Handed
    <3>2. QED
      BY <2>6, <2>7, <3>1, HandedOverCounts
  <2>9. committed'[r] \in Nat /\ committed'[r] <= w.start + BlockSize
    BY <2>2, <2>3, <2>6, <2>8
  <2>10. CASE w.commit
    <3>1. /\ p.row = Committed(w) /\ p.finish = (Committed(w).start >= w.budget)
      BY <2>1, <2>10, OutcomeFacts
    <3>2. /\ Committed(w).start = Smaller(w.start + BlockSize, NMax - BlockSize)
          /\ Committed(w).cache = Smaller(w.cache + BlockSize, FlashL - BlockSize)
      BY <2>1, CommittedFacts
    <3>3. Committed(w).start = w.start + BlockSize
      BY <2>3, <2>5, <3>2, SMTT(30) DEF Smaller
    <3>4. FlashL - BlockSize = LongestPrefix + NMax
      BY <2>3 DEF FlashL
    <3>5. Committed(w).cache = w.cache + BlockSize
      BY <2>2, <2>3, <2>5, <3>2, <3>4 DEF Smaller
    <3>6. /\ p.row.start = w.start + BlockSize /\ p.row.cache = w.cache + BlockSize
          /\ p.finish = (w.start + BlockSize >= Budget[r])
          /\ cpu_len'[r] = Prefix[r] + w.start + BlockSize
      BY <2>1, <2>2, <2>3, <2>10, <3>1, <3>3, <3>5
    <3>7. p.row.start <= Budget[r] /\ p.row.cache = Prefix[r] + p.row.start
          /\ cpu_len'[r] = p.row.cache /\ cpu_len'[r] \in Nat
          /\ (~p.finish => p.row.start < Budget[r] /\ committed'[r] <= p.row.start)
      <4>1. p.row.start <= Budget[r] /\ p.row.start \in Nat
        BY <2>3, <2>5, <3>6
      <4>2. p.row.cache = Prefix[r] + p.row.start
        BY <2>2, <2>3, <3>6
      <4>3. cpu_len'[r] = p.row.cache /\ cpu_len'[r] \in Nat
        BY <2>3, <3>6, <4>2
      <4>4. ~p.finish => ~ (w.start + BlockSize >= Budget[r])
        BY <3>6
      <4>5. ~p.finish => p.row.start < Budget[r]
        BY <2>3, <3>6, <4>4
      <4>6. committed'[r] <= p.row.start
        BY <2>9, <3>6
      <4>7. QED
        BY <4>1, <4>2, <4>3, <4>5, <4>6
    <3>8. FlashPair(r, p.row, cpu_len'[r], committed'[r], r \in Members(to_free'))
      <4>1. j + 1 \in Nat /\ p.row.start = (j + 1) * BlockSize
        BY <2>4, <2>5, <3>6
      <4>2. QED
        BY <2>1, <2>2, <2>6, <3>7, <4>1 DEF FlashPair
    <3>9. committed'[r] <= Budget[r]
      BY <2>3, <2>5, <2>9
    <3>10. QED
      BY <2>1, <2>9, <3>7, <3>8, <3>9 DEF r
  <2>11. CASE ~w.commit
    <3>1. p.row.start = w.start /\ p.row.cache = w.cache
      <4>1. \E q \in Unmaskable(w), eos \in BOOLEAN : p.row = Denoised(w, q, eos)
        BY <2>1, <2>11, OutcomeFacts
      <4>2. PICK q \in Unmaskable(w), eos \in BOOLEAN : p.row = Denoised(w, q, eos)
        BY <4>1
      <4>3. Denoised(w, q, eos).start = w.start /\ Denoised(w, q, eos).cache = w.cache
        BY <2>1, DenoisedFacts
      <4>4. QED
        BY <4>2, <4>3
    <3>2. ~p.finish => ~p.pushes
      BY <2>1, <2>11, OutcomeFacts
    <3>3. cpu_len'[r] = cpu_len[r]
      BY <2>1, <2>11
    <3>4. ~p.finish => committed'[r] = committed[r]
      BY <2>8, <3>2
    <3>5. FlashPair(r, p.row, cpu_len'[r], committed'[r], r \in Members(to_free'))
      <4>1. w.start <= Budget[r]
        BY <2>2, <2>3
      <4>2. p.row.start <= Budget[r] /\ p.row.cache = Prefix[r] + p.row.start
        BY <2>2, <3>1, <4>1
      <4>3. cpu_len'[r] = p.row.cache /\ p.row.budget = Budget[r]
        BY <2>2, <2>6, <3>1, <3>3
      <4>4. ~p.finish => p.row.start < Budget[r] /\ committed'[r] <= p.row.start
        BY <2>2, <3>1, <3>4
      <4>5. \E m \in Nat : p.row.start = m * BlockSize
        BY <2>4, <3>1
      <4>6. QED
        BY <2>1, <4>2, <4>3, <4>4, <4>5 DEF FlashPair
    <3>6. committed'[r] <= Budget[r] /\ cpu_len'[r] \in Nat
      BY <2>2, <2>3, <2>5, <2>9, <3>3
    <3>7. QED
      BY <2>1, <2>9, <3>5, <3>6 DEF r
  <2>12. QED
    BY <2>3, <2>10, <2>11
<1>7. ASSUME NEW r \in Requests, r \notin Members(active)
      PROVE  cpu_len'[r] = cpu_len[r] /\ committed'[r] = committed[r]
  BY <1>2, <1>7 DEF FlashMoves, LeftAlone
<1>8. \A r \in Requests : /\ cpu_len'[r] \in Nat /\ committed'[r] \in Nat
                          /\ committed'[r] <= Budget[r]
  <2> TAKE r \in Requests
  <2>1. CASE r \in Members(active)
    <3>1. PICK i \in 1 .. n : active[i] = r
      BY <1>4, <2>1 DEF Members
    <3>2. QED
      BY <1>6, <3>1
  <2>2. CASE r \notin Members(active)
    <3>1. committed[r] <= Budget[r] /\ committed[r] \in Nat /\ cpu_len[r] \in Nat
      BY DEF FlashInv, BudgetRespected
    <3>2. QED
      BY <1>7, <2>2, <3>1
  <2>3. QED
    BY <2>1, <2>2
<1>9. committed' = [r \in Requests |-> committed'[r]]
  BY DEF FlashStep, Hand
<1>10. ASSUME NEW r \in Requests, r \notin submitted' \/ r \in Members(waiting')
       PROVE  committed'[r] = 0
  <2>1. r \notin Members(active) /\ committed[r] = 0
    BY <1>3, <1>10 DEF SlotsInv, FlashInv
  <2>2. QED
    BY <1>7, <2>1
<1>11. cpu_len' \in [Requests -> Nat] /\ committed' \in [Requests -> Nat]
  BY <1>1, <1>8, <1>9
<1>12. BudgetRespected'
  BY <1>8 DEF BudgetRespected
<1>13. \A i \in 1 .. Len(active') :
          FlashPair(active'[i], row'[i], cpu_len'[active'[i]], committed'[active'[i]],
                    active'[i] \in Members(to_free'))
  BY <1>3, <1>6 DEF n
<1>14. QED
  BY <1>10, <1>11, <1>12, <1>13 DEF FlashInv

\* Removal moves rows and does not change one.
LEMMA FreeOneFlash ==
  ASSUME SlotsInv, FlashInv, FreeOne, UNCHANGED kind
  PROVE  FlashInv'
<1>1. /\ SlotsInv'
      /\ Members(active') = Members(active) \ {Head(to_free)}
      /\ Members(to_free') = Members(to_free) \ {Head(to_free)}
      /\ PairsNext \subseteq Pairs
  BY FreeOneSlots
<1>2. UNCHANGED <<waiting, submitted, cpu_len, committed, kind>>
  BY DEF FreeOne, handoffVars
<1>3. ASSUME NEW j \in 1 .. Len(active')
      PROVE  FlashPair(active'[j], row'[j], cpu_len'[active'[j]], committed'[active'[j]],
                       active'[j] \in Members(to_free'))
  <2>1. PairsNext \subseteq Pairs \cup {}
    BY <1>1
  <2>2. PICK i \in DOMAIN active : active'[j] = active[i] /\ row'[j] = row[i]
    BY <1>1, <2>1, PairOrigin
  <2>3. FlashPair(active[i], row[i], cpu_len[active[i]], committed[active[i]],
                  active[i] \in Members(to_free))
    BY SlotsFacts DEF FlashInv
  <2>4. active'[j] \in Members(active')
    BY <1>1, LenProperties DEF SlotsInv, Members
  <2>5. active'[j] \notin Members(to_free') => active[i] \notin Members(to_free)
    BY <1>1, <2>2, <2>4
  <2>6. QED
    BY <1>2, <2>2, <2>3, <2>5 DEF FlashPair
<1>4. QED
  BY <1>2, <1>3 DEF FlashInv, BudgetRespected

\* The host's lengths stay numbers when a tick raises.
LEMMA RaiseLengths ==
  ASSUME SlotsInv, TickRaises, cpu_len \in [Requests -> Nat]
  PROVE  cpu_len' \in [Requests -> Nat]
<1>1. CASE UNCHANGED cpu_len
  BY <1>1
<1>2. ASSUME NEW S, NEW n, n \in {0, 1},
             cpu_len' = [r \in Requests |-> IF r \in S THEN Prefix[r] + n ELSE cpu_len[r]]
      PROVE  cpu_len' \in [Requests -> Nat]
  BY <1>2, EngineAssumption
<1>3. CASE TurboAdmitRaises
  BY <1>1, <1>2, <1>3 DEF TurboAdmitRaises
<1>4. CASE TurboStepRaises
  <2>1. PICK n \in DOMAIN active :
          cpu_len' = [r \in Requests |-> IF r \in Members(SubSeq(active, 1, n))
                                         THEN cpu_len[r] + 1 ELSE cpu_len[r]]
    BY <1>4 DEF TurboStepRaises
  <2>2. QED
    BY <2>1
<1>5. CASE FlashAdmitRaises
  <2>1. PICK n \in 0 .. Len(Batch) - 1 :
          cpu_len' = [r \in Requests |-> IF r \in Members(SubSeq(Batch, 1, n))
                                         THEN Prefix[r] ELSE cpu_len[r]]
    BY <1>5 DEF FlashAdmitRaises
  <2>2. QED
    BY <2>1, EngineAssumption
<1>6. CASE kind = "flash" /\ FlashStepRaises
  <2>1. /\ active \in Seq(Requests) /\ Len(active) \in Nat /\ DOMAIN active = 1 .. Len(active)
        /\ \A i \in 1 .. Len(active) : slot[active[i]] = i /\ row[i] \in FlashRows
    BY <1>6, SlotsFacts DEF SlotsInv, RowSet, FlashRows
  <2>2. PICK n \in DOMAIN active :
          \E o : /\ \A i \in 1 .. n : o[i] \in Outcomes(row[i])
                 /\ cpu_len' = [r \in Requests |->
                                  IF r \in Members(SubSeq(active, 1, n)) /\ row[slot[r]].commit
                                  THEN Prefix[r] + o[slot[r]].row.start ELSE cpu_len[r]]
    BY <1>6 DEF FlashStepRaises
  <2>3. PICK o :
          /\ \A i \in 1 .. n : o[i] \in Outcomes(row[i])
          /\ cpu_len' = [r \in Requests |->
                           IF r \in Members(SubSeq(active, 1, n)) /\ row[slot[r]].commit
                           THEN Prefix[r] + o[slot[r]].row.start ELSE cpu_len[r]]
    BY <2>2
  <2>4. n \in 0 .. Len(active) /\ n \in 1 .. Len(active)
    BY <2>1
  <2>5. Members(SubSeq(active, 1, n)) = {active[i] : i \in 1 .. n}
    BY <2>1, <2>4, PartsFacts
  <2>6. ASSUME NEW r \in Members(SubSeq(active, 1, n)) PROVE o[slot[r]].row.start \in Nat
    <3>1. PICK i \in 1 .. n : r = active[i]
      BY <2>5
    <3>2. i \in 1 .. Len(active)
      BY <2>1, <2>4
    <3>3. slot[r] = i /\ o[i] \in Outcomes(row[i]) /\ row[i] \in FlashRows
      BY <2>1, <2>3, <3>1, <3>2
    <3>4. o[i].row \in FlashRows
      BY <3>3, OutcomeFacts
    <3>5. QED
      BY <3>3, <3>4 DEF FlashRows
  <2>7. ASSUME NEW r \in Requests PROVE cpu_len'[r] \in Nat
    <3>1. Prefix[r] \in Nat /\ cpu_len[r] \in Nat
      BY EngineAssumption
    <3>2. QED
      BY <2>3, <2>6, <3>1
  <2>8. QED
    BY <2>3, <2>7
<1>7. CASE StepRaises \/ FreeRaises
  BY <1>1, <1>7 DEF StepRaises, FreeRaises
<1>8. QED
  BY <1>3, <1>4, <1>5, <1>6, <1>7 DEF TickRaises, TurboRaises, FlashRaises

\* What a step of a row hands over still fits into the budget.
LEMMA PushFits ==
  ASSUME SlotsInv, FlashInv, BudgetsInBlocks, kind = "flash", phase = "step",
         NEW r \in Members(active), NEW o \in Outcomes(row[slot[r]])
  PROVE  /\ committed[r] + o.push \in Nat /\ committed[r] + o.push <= Budget[r]
         /\ committed[r] \in Nat /\ committed[r] <= Budget[r]
<1> DEFINE w == row[slot[r]]
<1>1. /\ slot[r] \in 1 .. Len(active) /\ active[slot[r]] = r /\ r \in Requests
      /\ w \in FlashRows
  BY SlotsFacts DEF RowSet, FlashRows
<1>2. Members(to_free) = {}
  BY EmptyFacts DEF SlotsInv
<1>3. /\ w.start < Budget[r] /\ committed[r] <= w.start
      /\ \E j \in Nat : w.start = j * BlockSize
  BY <1>1, <1>2 DEF FlashInv, FlashPair
<1> HIDE DEF w
<1>4. /\ w.start \in Nat /\ Budget[r] \in Nat /\ committed[r] \in Nat
      /\ BlockSize \in Nat \ {0}
  BY <1>1, FlashAssumption DEF FlashRows, FlashInv
<1>5. w.start + BlockSize <= Budget[r]
  <2>1. PICK j \in Nat : w.start = j * BlockSize
    BY <1>3
  <2>2. QED
    BY <1>1, <1>3, <1>4, <2>1, NextBlockFits
<1>6. o.push \in 0 .. BlockSize
  BY <1>1, OutcomeFacts DEF w
<1>7. QED
  BY <1>3, <1>4, <1>5, <1>6

\* A tick that raises has handed over no more than a step does.
LEMMA RaiseFlash ==
  ASSUME SlotsInv, FlashInv, BudgetsInBlocks, kind = "flash", TickRaises
  PROVE  FlashInv'
<1>1. PICK E, L, S : RaiseMoves(E, L, S)
  BY RaiseFacts
<1>2. /\ active' = <<>> /\ Len(<<>>) = 0 /\ submitted' = submitted /\ kind' = kind
      /\ Members(waiting') \subseteq Members(waiting)
  BY <1>1, EmptyFacts DEF RaiseMoves
<1>3. cpu_len' \in [Requests -> Nat]
  BY RaiseLengths DEF FlashInv
<1>4. CASE UNCHANGED handoffVars
  <2>1. UNCHANGED committed
    BY <1>4 DEF handoffVars
  <2>2. QED
    BY <1>2, <1>3, <2>1 DEF FlashInv, BudgetRespected
<1>5. CASE ReachesOnly(S)
  <2>1. ASSUME NEW r \in S
        PROVE  /\ r \in Members(active)
               /\ committed'[r] \in Nat /\ committed'[r] <= Budget[r]
    <3>1. PICK st : Handed(r, st) /\ Reached(r, st)
      BY <1>5 DEF ReachesOnly
    <3>2. phase = "step" /\ r \in Members(active)
      BY <3>1 DEF Reached
    <3>3. PICK o \in Outcomes(row[slot[r]]) :
            st.n = committed[r] + o.push \/ st.n = committed[r]
      BY <3>1, ReachedCounts
    <3>4. committed'[r] = committed[r] + o.push \/ committed'[r] = committed[r]
      BY <3>1, <3>3 DEF Handed
    <3>5. QED
      BY <3>2, <3>4, PushFits
  <2>2. \A r \in Requests \ S : committed'[r] = committed[r]
    BY <1>5 DEF ReachesOnly, LeftAlone
  <2>3. \A r \in Requests : committed'[r] \in Nat /\ committed'[r] <= Budget[r]
    BY <2>1, <2>2 DEF FlashInv, BudgetRespected
  <2>4. committed' \in [Requests -> Nat]
    BY <1>5, <2>3 DEF ReachesOnly
  <2>5. ASSUME NEW r \in Requests, r \notin submitted' \/ r \in Members(waiting')
        PROVE  committed'[r] = 0
    <3>1. r \notin Members(active) /\ committed[r] = 0
      BY <1>2, <2>5 DEF SlotsInv, FlashInv
    <3>2. QED
      BY <2>1, <2>2, <3>1
  <2>6. QED
    BY <1>2, <1>3, <2>3, <2>4, <2>5 DEF FlashInv, BudgetRespected
<1>6. QED
  BY <1>1, <1>4, <1>5 DEF RaiseMoves

\* FlashInv is inductive, given SlotsInv.
LEMMA NextFlash ==
  ASSUME BudgetsInBlocks, SlotsInv, kind = "flash" => FlashInv, [Next]_vars
  PROVE  kind' = "flash" => FlashInv'
<1> SUFFICES ASSUME kind' = "flash" PROVE FlashInv'
  OBVIOUS
<1>0. kind = "flash" /\ FlashInv /\ UNCHANGED kind
  BY DEF Next, Tick, TickRaises, vars
<1>1. ASSUME NEW r \in Requests, Submit(r), UNCHANGED kind PROVE FlashInv'
  BY <1>0, <1>1, SubmitFlash
<1>2. CASE Tick
  <2>1. FlashTick
    BY <1>0, <1>2 DEF Tick
  <2>2. ASSUME TickEnd PROVE FlashInv'
    <3>1. UNCHANGED <<waiting, submitted, active, slot, row, cpu_len, to_free, committed, kind>>
      BY <1>0, <2>2 DEF TickEnd, slotVars, handoffVars
    <3>2. QED
      BY <1>0, <3>1 DEF FlashInv, FlashPair, BudgetRespected
  <2>3. QED
    BY <1>0, <2>1, <2>2, AdmitFlash, StepFlash, FreeOneFlash DEF FlashTick
<1>3. CASE TickRaises
  BY <1>0, <1>3, RaiseFlash
<1>4. CASE UNCHANGED vars
  <2>1. UNCHANGED <<waiting, submitted, active, slot, row, cpu_len, to_free, committed, kind>>
    BY <1>4 DEF vars, baseVars, slotVars, handoffVars
  <2>2. QED
    BY <1>0, <2>1 DEF FlashInv, FlashPair, BudgetRespected
<1>5. QED
  BY <1>1, <1>2, <1>3, <1>4 DEF Next, Idle, vars

\* The rows of Flash and the host's lengths always agree.
LEMMA FlashAlways ==
  ASSUME BudgetsInBlocks
  PROVE  Spec => [](SlotsInv /\ (kind = "flash" => FlashInv))
<1> DEFINE Inv == SlotsInv /\ (kind = "flash" => FlashInv)
<1>1. Init => Inv
  BY InitSlots, InitFlash
<1>2. Inv /\ [Next]_vars => Inv'
  <2> SUFFICES ASSUME Inv, [Next]_vars PROVE Inv'
    OBVIOUS
  <2>1. SlotsInv'
    BY NextSlots
  <2>2. kind' = "flash" => FlashInv'
    BY NextFlash
  <2>3. QED
    BY <2>1, <2>2
<1>3. QED
  BY <1>1, <1>2, PTL DEF Spec

(* Both lengths of a Flash row, the one the GPU counts and the one the host
   computes from blk_start, are the same between any two ticks. *)
THEOREM MirrorsStayEqual ==
  ASSUME BudgetsInBlocks
  PROVE  Spec => []MirrorsAgree
<1>1. SlotsInv /\ (kind = "flash" => FlashInv) => MirrorsAgree
  <2> SUFFICES ASSUME SlotsInv, kind = "flash", FlashInv, NEW i \in DOMAIN row
               PROVE  row[i].cache = cpu_len[active[i]]
    BY DEF MirrorsAgree
  <2>1. i \in 1 .. Len(active)
    BY SlotsFacts
  <2>2. QED
    BY <2>1 DEF FlashInv, FlashPair
<1>2. QED
  BY <1>1, FlashAlways, PTL

(* A Flash request commits no more tokens than its budget, when budgets are
   whole blocks: the last block it commits ends at the budget. *)
THEOREM BudgetKept ==
  ASSUME BudgetsInBlocks
  PROVE  Spec => []BudgetRespected
<1>1. (kind = "flash" => FlashInv) => BudgetRespected
  BY DEF FlashInv, BudgetRespected
<1>2. QED
  BY <1>1, FlashAlways, PTL

-----------------------------------------------------------------------------
(* Turbo: a request has one column more than its row, the token to come *)

TurboPair(r, w, len, leaves) ==
  /\ len = w.cache + 1
  /\ Prefix[r] <= w.cache
  /\ len <= Prefix[r] + MaxSpeech + (IF leaves THEN 1 ELSE 0)

TurboInv ==
  /\ cpu_len \in [Requests -> Nat]
  /\ \A i \in 1 .. Len(active) :
       TurboPair(active[i], row[i], cpu_len[active[i]], active[i] \in Members(to_free))

\* No row is there initially.
LEMMA InitTurbo == Init => TurboInv
<1> SUFFICES ASSUME Init PROVE TurboInv
  OBVIOUS
<1>1. active = <<>> /\ cpu_len = [r \in Requests |-> 0] /\ Len(<<>>) = 0
  BY DEF Init, BaseInit
<1>2. QED
  BY <1>1 DEF TurboInv

\* What touches no row keeps TurboInv.
LEMMA SameTurbo ==
  ASSUME TurboInv, UNCHANGED <<active, row, cpu_len, to_free>>
  PROVE  TurboInv'
BY DEF TurboInv, TurboPair

\* A Turbo row starts with its prefix, and one token that is not in it yet.
LEMMA AdmitTurbo ==
  ASSUME SlotsInv, TurboInv, kind = "turbo", TurboAdmit, UNCHANGED kind
  PROVE  TurboInv'
<1>1. SlotsInv' /\ PairsNext \subseteq Pairs \cup {<<r, TurboFresh(r)>> : r \in Members(Batch)}
  BY TurboAdmitFacts
<1>2. /\ UNCHANGED to_free
      /\ cpu_len' = [r \in Requests |->
                       IF r \in Members(Batch) THEN Prefix[r] + 1 ELSE cpu_len[r]]
      /\ phase = "admit"
  BY DEF TurboAdmit
<1>3. /\ Members(Batch) \subseteq Members(waiting) /\ Members(Batch) \subseteq Requests
      /\ Members(waiting) \cap Members(active) = {}
  BY BatchFacts, MembersFacts DEF SlotsInv
<1>4. cpu_len' \in [Requests -> Nat]
  BY <1>2, EngineAssumption DEF TurboInv
<1>5. ASSUME NEW j \in 1 .. Len(active')
      PROVE  TurboPair(active'[j], row'[j], cpu_len'[active'[j]],
                       active'[j] \in Members(to_free'))
  <2>1. CASE \E i \in DOMAIN active : active'[j] = active[i] /\ row'[j] = row[i]
    <3>1. PICK i \in DOMAIN active : active'[j] = active[i] /\ row'[j] = row[i]
      BY <2>1
    <3>2. /\ TurboPair(active[i], row[i], cpu_len[active[i]], active[i] \in Members(to_free))
          /\ active[i] \in Members(active) /\ active[i] \in Requests
      BY SlotsFacts DEF TurboInv, Members
    <3>3. cpu_len'[active[i]] = cpu_len[active[i]]
      BY <1>2, <1>3, <3>2
    <3>4. QED
      BY <1>2, <3>1, <3>2, <3>3
  <2>2. CASE <<active'[j], row'[j]>> \in {<<r, TurboFresh(r)>> : r \in Members(Batch)}
    <3>1. PICK r \in Members(Batch) : active'[j] = r /\ row'[j] = TurboFresh(r)
      BY <2>2
    <3>2. TurboFresh(r).cache = Prefix[r] /\ r \in Requests /\ cpu_len'[r] = Prefix[r] + 1
      BY <1>2, <1>3 DEF TurboFresh
    <3>3. Prefix[r] \in Nat /\ MaxSpeech \in Nat \ {0}
      BY <3>2, EngineAssumption, TurboAssumption
    <3>4. QED
      BY <3>1, <3>2, <3>3 DEF TurboPair
  <2>3. QED
    BY <1>1, <2>1, <2>2, PairOrigin
<1>6. QED
  BY <1>4, <1>5 DEF TurboInv

\* A decode step adds the token before to the row, and one to the host's
\* length.
LEMMA StepTurbo ==
  ASSUME SlotsInv, TurboInv, kind = "turbo", TurboStep, UNCHANGED kind
  PROVE  TurboInv'
<1>1. /\ SlotsInv' /\ Len(row') = Len(row)
      /\ DOMAIN cpu_len' = Requests /\ cpu_len' = [r \in Requests |-> cpu_len'[r]]
  BY TurboStepFacts
<1>2. PICK token : TurboMoves(token)
  BY TurboStepFacts
<1>3. UNCHANGED active /\ Members(to_free) = {}
  <2>1. phase = "step" /\ UNCHANGED active
    BY DEF TurboStep
  <2>2. to_free = <<>>
    BY <2>1 DEF SlotsInv
  <2>3. QED
    BY <2>1, <2>2 DEF Members
<1> DEFINE n == Len(active)
<1>4. /\ n \in Nat /\ DOMAIN active = 1 .. n
      /\ \A i \in 1 .. n : active[i] \in Requests /\ row[i] \in [owner : Requests, cache : Nat]
  BY SlotsFacts DEF RowSet
<1>5. ASSUME NEW i \in 1 .. n
      PROVE  TurboPair(active[i], row'[i], cpu_len'[active[i]], active[i] \in Members(to_free'))
  <2> DEFINE r == active[i]
             w == row[i]
  <2>1. /\ row'[i] = [w EXCEPT !.cache = @ + 1] /\ cpu_len'[r] = cpu_len[r] + 1
        /\ r \in Members(to_free') <=> Finishes(r, cpu_len'[r], token[r])
        /\ r \in Requests /\ w \in [owner : Requests, cache : Nat]
    BY <1>2, <1>4 DEF TurboMoves
  <2>2. /\ cpu_len[r] = w.cache + 1 /\ Prefix[r] <= w.cache
        /\ cpu_len[r] <= Prefix[r] + MaxSpeech + 0
    BY <1>3 DEF TurboInv, TurboPair
  <2> HIDE DEF r, w
  <2>3. row'[i].cache = w.cache + 1 /\ w.cache \in Nat /\ Prefix[r] \in Nat
    BY <2>1, EngineAssumption
  <2>4. r \notin Members(to_free') => ~ (cpu_len'[r] - Prefix[r] >= MaxSpeech)
    BY <2>1 DEF Finishes
  <2>5. /\ cpu_len'[r] = row'[i].cache + 1 /\ Prefix[r] <= row'[i].cache
        /\ r \notin Members(to_free') => cpu_len'[r] <= Prefix[r] + MaxSpeech
        /\ cpu_len'[r] <= Prefix[r] + MaxSpeech + 1
        /\ Prefix[r] + MaxSpeech + 0 = Prefix[r] + MaxSpeech
    BY <2>1, <2>2, <2>3, <2>4, TurboAssumption
  <2>6. QED
    BY <2>5 DEF TurboPair, r
<1>6. \A r \in Requests : cpu_len'[r] \in Nat
  <2> TAKE r \in Requests
  <2>1. cpu_len[r] \in Nat
    BY DEF TurboInv
  <2>2. CASE r \in Members(active)
    <3>1. PICK i \in 1 .. n : active[i] = r
      BY <1>4, <2>2 DEF Members
    <3>2. cpu_len'[r] = cpu_len[r] + 1
      BY <1>2, <3>1 DEF TurboMoves
    <3>3. QED
      BY <2>1, <3>2
  <2>3. CASE r \notin Members(active)
    BY <1>2, <2>1, <2>3 DEF TurboMoves
  <2>4. QED
    BY <2>2, <2>3
<1>7. cpu_len' \in [Requests -> Nat]
  BY <1>1, <1>6
<1>8. QED
  BY <1>3, <1>5, <1>7 DEF TurboInv, n

\* Removal moves rows and does not change one.
LEMMA FreeOneTurbo ==
  ASSUME SlotsInv, TurboInv, FreeOne, UNCHANGED kind
  PROVE  TurboInv'
<1>1. /\ SlotsInv'
      /\ Members(active') = Members(active) \ {Head(to_free)}
      /\ Members(to_free') = Members(to_free) \ {Head(to_free)}
      /\ PairsNext \subseteq Pairs
  BY FreeOneSlots
<1>2. UNCHANGED cpu_len
  BY DEF FreeOne
<1>3. ASSUME NEW j \in 1 .. Len(active')
      PROVE  TurboPair(active'[j], row'[j], cpu_len'[active'[j]],
                       active'[j] \in Members(to_free'))
  <2>1. PairsNext \subseteq Pairs \cup {}
    BY <1>1
  <2>2. PICK i \in DOMAIN active : active'[j] = active[i] /\ row'[j] = row[i]
    BY <1>1, <2>1, PairOrigin
  <2>3. TurboPair(active[i], row[i], cpu_len[active[i]], active[i] \in Members(to_free))
    BY SlotsFacts DEF TurboInv
  <2>4. active'[j] \in Members(active')
    BY <1>1, LenProperties DEF SlotsInv, Members
  <2>5. active'[j] \in Members(to_free') <=> active[i] \in Members(to_free)
    BY <1>1, <2>2, <2>4
  <2>6. QED
    BY <1>2, <2>2, <2>3, <2>5 DEF TurboPair
<1>4. QED
  BY <1>2, <1>3 DEF TurboInv

\* TurboInv is inductive, given SlotsInv.
LEMMA NextTurbo ==
  ASSUME SlotsInv, kind = "turbo" => TurboInv, [Next]_vars
  PROVE  kind' = "turbo" => TurboInv'
<1> SUFFICES ASSUME kind' = "turbo" PROVE TurboInv'
  OBVIOUS
<1>0. kind = "turbo" /\ TurboInv /\ UNCHANGED kind
  BY DEF Next, Tick, TickRaises, vars
<1>1. ASSUME NEW r \in Requests, Submit(r) PROVE TurboInv'
  <2>1. UNCHANGED <<active, row, cpu_len, to_free>>
    BY <1>1 DEF Submit, slotVars
  <2>2. QED
    BY <1>0, <2>1, SameTurbo
<1>2. CASE Tick
  <2>1. TurboTick
    BY <1>0, <1>2 DEF Tick
  <2>2. ASSUME TickEnd PROVE TurboInv'
    <3>1. UNCHANGED <<active, row, cpu_len, to_free>>
      BY <2>2 DEF TickEnd, slotVars
    <3>2. QED
      BY <1>0, <3>1, SameTurbo
  <2>3. QED
    BY <1>0, <2>1, <2>2, AdmitTurbo, StepTurbo, FreeOneTurbo DEF TurboTick
<1>3. CASE TickRaises
  <2>1. active' = <<>> /\ Len(<<>>) = 0
    BY <1>3, RaiseFacts, EmptyFacts DEF RaiseMoves
  <2>2. cpu_len' \in [Requests -> Nat]
    BY <1>0, <1>3, RaiseLengths DEF TurboInv
  <2>3. QED
    BY <2>1, <2>2 DEF TurboInv
<1>4. CASE UNCHANGED vars
  <2>1. UNCHANGED <<active, row, cpu_len, to_free>>
    BY <1>4 DEF vars, baseVars, slotVars
  <2>2. QED
    BY <1>0, <2>1, SameTurbo
<1>5. QED
  BY <1>1, <1>2, <1>3, <1>4 DEF Next, Idle, vars

LengthsInv ==
  /\ SlotsInv
  /\ kind = "flash" => FlashInv
  /\ kind = "turbo" => TurboInv

\* The lengths of both engines always agree with their rows.
LEMMA LengthsAlways ==
  ASSUME BudgetsInBlocks
  PROVE  Spec => []LengthsInv
<1>1. Init => LengthsInv
  BY InitSlots, InitFlash, InitTurbo DEF LengthsInv
<1>2. LengthsInv /\ [Next]_vars => LengthsInv'
  <2> SUFFICES ASSUME LengthsInv, [Next]_vars PROVE LengthsInv'
    OBVIOUS
  <2>1. SlotsInv'
    BY NextSlots DEF LengthsInv
  <2>2. kind' = "flash" => FlashInv'
    BY NextFlash DEF LengthsInv
  <2>3. kind' = "turbo" => TurboInv'
    BY NextTurbo DEF LengthsInv
  <2>4. QED
    BY <2>1, <2>2, <2>3 DEF LengthsInv
<1>3. QED
  BY <1>1, <1>2, PTL DEF Spec

(* The window of columns that the batched forward attends to is wide enough
   for every row and within the row: no request ever decodes from a context
   that is cut off, and none writes past the end of its row. *)
THEOREM WindowAlwaysCovers ==
  ASSUME BudgetsInBlocks
  PROVE  Spec => []WindowCoversRows
<1>1. LengthsInv => WindowCoversRows
  <2> SUFFICES ASSUME LengthsInv, phase = "step" PROVE WindowCoversRows
    BY DEF WindowCoversRows
  <2>0. SlotsInv
    BY DEF LengthsInv
  <2>1. SlotsInv /\ to_free = <<>> /\ Members(to_free) = {}
    <3>1. to_free = <<>>
      BY <2>0 DEF SlotsInv
    <3>2. QED
      BY <2>0, <3>1 DEF Members
  <2>2. DOMAIN row = 1 .. Len(active)
    BY <2>1, SlotsFacts
  <2>3. CASE kind = "turbo"
    <3>1. ASSUME NEW i \in DOMAIN row
          PROVE  row[i].cache + 1 <= Smaller(TurboL, LongestCpuLen + 1)
      <4> DEFINE r == active[i]
      <4>1. /\ r \in Requests /\ r \in Members(active) /\ row[i] \in RowSet
            /\ cpu_len \in [Requests -> Nat]
            /\ TurboPair(r, row[i], cpu_len[r], r \in Members(to_free))
        BY <2>1, <2>2, <2>3, SlotsFacts DEF LengthsInv, TurboInv, Members
      <4> HIDE DEF r
      <4>2. row[i].cache \in Nat /\ cpu_len[r] = row[i].cache + 1
            /\ cpu_len[r] <= Prefix[r] + MaxSpeech
        <5>1. row[i].cache \in Nat
          BY <2>3, <4>1 DEF RowSet
        <5>2. cpu_len[r] = row[i].cache + 1 /\ cpu_len[r] <= Prefix[r] + MaxSpeech + 0
          BY <2>1, <4>1 DEF TurboPair
        <5>3. Prefix[r] + MaxSpeech + 0 = Prefix[r] + MaxSpeech
          BY <4>1, EngineAssumption, TurboAssumption
        <5>4. QED
          BY <5>1, <5>2, <5>3
      <4>3. LongestCpuLen \in Nat /\ cpu_len[r] <= LongestCpuLen
        BY <2>1, <4>1, LongestCpuLenFacts DEF SlotsInv
      <4>4. LongestPrefix \in Nat /\ Prefix[r] \in Nat /\ Prefix[r] <= LongestPrefix
        BY <4>1, LongestPrefixFacts
      <4>5. TurboL \in Nat /\ row[i].cache + 1 <= TurboL
        BY <4>2, <4>4, TurboAssumption DEF TurboL
      <4>6. row[i].cache + 1 <= LongestCpuLen + 1
        BY <4>2, <4>3
      <4>7. QED
        BY <4>5, <4>6 DEF Smaller
    <3>2. QED
      BY <2>3, <3>1 DEF WindowCoversRows
  <2>4. CASE kind = "flash"
    <3>1. ASSUME NEW i \in DOMAIN row
          PROVE  row[i].cache + BlockSize <= Smaller(FlashL, LongestCpuLen + BlockSize)
      <4> DEFINE r == active[i]
      <4>1. /\ r \in Requests /\ r \in Members(active) /\ row[i] \in RowSet
            /\ cpu_len \in [Requests -> Nat]
            /\ FlashPair(r, row[i], cpu_len[r], committed[r], r \in Members(to_free))
        BY <2>1, <2>2, <2>4, SlotsFacts DEF LengthsInv, FlashInv, Members
      <4> HIDE DEF r
      <4>2. row[i].cache \in Nat /\ row[i].start \in Nat /\ cpu_len[r] = row[i].cache
            /\ row[i].cache = Prefix[r] + row[i].start /\ row[i].start <= Budget[r]
        BY <2>1, <2>4, <4>1 DEF RowSet, FlashPair
      <4>3. LongestCpuLen \in Nat /\ cpu_len[r] <= LongestCpuLen
        BY <2>1, <4>1, LongestCpuLenFacts DEF SlotsInv
      <4>4. LongestPrefix \in Nat /\ Prefix[r] \in Nat /\ Prefix[r] <= LongestPrefix
        BY <4>1, LongestPrefixFacts
      <4>5. /\ BlockSize \in Nat /\ NMax \in Nat /\ Budget[r] \in Nat
            /\ Budget[r] + BlockSize <= NMax
        BY <4>1, FlashAssumption DEF BudgetsInBlocks
      <4>6. FlashL \in Nat /\ row[i].cache + BlockSize <= FlashL
        BY <4>2, <4>4, <4>5 DEF FlashL
      <4>7. row[i].cache + BlockSize <= LongestCpuLen + BlockSize
        BY <4>2, <4>3, <4>5
      <4>8. QED
        BY <4>5, <4>6, <4>7 DEF Smaller
    <3>2. QED
      BY <2>4, <3>1 DEF WindowCoversRows
  <2>5. QED
    BY <2>1, <2>3, <2>4 DEF SlotsInv
<1>2. QED
  BY <1>1, LengthsAlways, PTL

-----------------------------------------------------------------------------
(* Where a request is *)

\* Without this, a request of Turbo would be done with its first token.
MoreThanOneToken == MaxSpeech > 1

PlacesInv ==
  /\ t3_done \in [Requests -> BOOLEAN]
  /\ aborted \cup lost \subseteq submitted
  /\ aborted \cap lost = {}
  /\ (Members(waiting) \cup Members(active)) \cap (aborted \cup lost) = {}
  /\ \A r \in Members(to_free) : t3_done[r]
  /\ \A r \in Requests \ Overlooked :
       t3_done[r] => /\ r \in submitted \ (Members(waiting) \cup lost)
                     /\ r \in Members(active) => r \in Members(to_free)
  /\ \A r \in submitted \ Overlooked :
       r \in Members(waiting) \cup Members(active) \cup aborted \cup lost \/ t3_done[r]

\* Nothing has been submitted initially.
LEMMA InitPlaces == Init => PlacesInv
<1> SUFFICES ASSUME Init PROVE PlacesInv
  OBVIOUS
<1>1. /\ t3_done = [r \in Requests |-> FALSE] /\ aborted = {} /\ lost = {} /\ submitted = {}
      /\ to_free = <<>> /\ active = <<>> /\ waiting = <<>>
  BY DEF Init, BaseInit
<1>2. Members(<<>>) = {}
  BY DEF Members
<1>3. QED
  BY <1>1, <1>2 DEF PlacesInv

\* A request that is submitted is in the queue and nowhere else.
LEMMA SubmitPlaces ==
  ASSUME SlotsInv, PlacesInv, NEW r \in Requests, Submit(r), UNCHANGED kind
  PROVE  PlacesInv'
<1>1. /\ waiting' = Append(waiting, r) /\ submitted' = submitted \cup {r}
      /\ r \notin submitted /\ waiting \in Seq(Requests)
      /\ UNCHANGED <<active, to_free, t3_done, aborted, lost, kind>>
  BY DEF Submit, slotVars, handoffVars, endVars, SlotsInv
<1>2. Members(waiting') = Members(waiting) \cup {r}
  <2>1. /\ Len(waiting') = Len(waiting) + 1 /\ DOMAIN waiting' = 1 .. Len(waiting) + 1
        /\ DOMAIN waiting = 1 .. Len(waiting) /\ Len(waiting) \in Nat
        /\ \A i \in 1 .. Len(waiting) : waiting'[i] = waiting[i]
        /\ waiting'[Len(waiting) + 1] = r
    BY <1>1, LenProperties
  <2>2. QED
    BY <2>1 DEF Members
<1>3. /\ Members(active') = Members(active) /\ Members(to_free') = Members(to_free)
      /\ Overlooked' = Overlooked
  BY <1>1 DEF Overlooked
<1>4. r \notin aborted /\ r \notin lost /\ r \notin Members(active)
  BY <1>1 DEF PlacesInv, SlotsInv
<1>5. r \in Overlooked \/ ~t3_done[r]
  BY <1>1 DEF PlacesInv
<1>6. QED
  BY <1>1, <1>2, <1>3, <1>4, <1>5 DEF PlacesInv

\* Admission moves the batch from the queue to the slots, if none of it is
\* done.
LEMMA AdmitPlaces ==
  ASSUME SlotsInv, SlotsInv', PlacesInv,
         Members(active') = Members(active) \cup Members(Batch),
         Members(waiting') = Members(waiting) \ Members(Batch),
         UNCHANGED <<submitted, to_free, aborted, lost, kind>>,
         t3_done' \in [Requests -> BOOLEAN],
         \A r \in Requests \ Overlooked : t3_done'[r] = t3_done[r],
         \A r \in Requests \ Members(Batch) : t3_done'[r] = t3_done[r]
  PROVE  PlacesInv'
<1>1. Members(Batch) \subseteq Members(waiting) /\ Members(waiting) \cap Members(active) = {}
  BY BatchFacts DEF SlotsInv
<1>2. Members(to_free') = Members(to_free) /\ Overlooked' = Overlooked
  BY DEF Overlooked
<1>3. Members(to_free) \subseteq Members(active) /\ Members(active) \subseteq Requests
  BY SlotsFacts DEF SlotsInv
<1>4. \A r \in Members(to_free') : t3_done'[r]
  BY <1>1, <1>2, <1>3 DEF PlacesInv
<1>5. ASSUME NEW r \in Requests \ Overlooked', t3_done'[r]
      PROVE  /\ r \in submitted' \ (Members(waiting') \cup lost')
             /\ r \in Members(active') => r \in Members(to_free')
  BY <1>1, <1>2, <1>5 DEF PlacesInv
<1>6. submitted \subseteq Requests
  BY DEF SlotsInv
<1>7. \A r \in submitted' \ Overlooked' :
        r \in Members(waiting') \cup Members(active') \cup aborted' \cup lost' \/ t3_done'[r]
  BY <1>2, <1>6 DEF PlacesInv
<1>8. /\ aborted' \cup lost' \subseteq submitted' /\ aborted' \cap lost' = {}
      /\ (Members(waiting') \cup Members(active')) \cap (aborted' \cup lost') = {}
  BY <1>1 DEF PlacesInv
<1>9. QED
  BY <1>4, <1>5, <1>7, <1>8 DEF PlacesInv

\* A request is done in the same step in which it is listed to be freed.
LEMMA StepPlaces ==
  ASSUME SlotsInv, PlacesInv, phase = "step",
         UNCHANGED <<waiting, submitted, active, aborted, lost, kind>>,
         DOMAIN t3_done' = Requests, t3_done' = [r \in Requests |-> t3_done'[r]],
         Members(to_free') \subseteq Members(active),
         \A r \in Members(to_free') : t3_done'[r] = TRUE,
         \A r \in Requests \ Members(to_free') : t3_done'[r] = t3_done[r]
  PROVE  PlacesInv'
<1>1. to_free = <<>> /\ submitted \subseteq Requests
  BY DEF SlotsInv
<1>2. Members(to_free) = {}
  BY <1>1 DEF Members
<1>3. /\ Members(active') = Members(active) /\ Members(waiting') = Members(waiting)
      /\ Overlooked' = Overlooked
  BY DEF Overlooked
<1>4. Members(active) \subseteq Requests
  BY SlotsFacts
<1>5. t3_done' \in [Requests -> BOOLEAN]
  <2>1. \A r \in Requests : t3_done'[r] \in BOOLEAN
    BY DEF PlacesInv
  <2>2. QED
    BY <2>1
<1>6. ASSUME NEW r \in Requests \ Overlooked', t3_done'[r]
      PROVE  /\ r \in submitted' \ (Members(waiting') \cup lost')
             /\ r \in Members(active') => r \in Members(to_free')
  <2>1. CASE r \in Members(to_free')
    BY <1>3, <2>1 DEF PlacesInv, SlotsInv
  <2>2. CASE r \notin Members(to_free')
    BY <1>2, <1>3, <1>6, <2>2 DEF PlacesInv
  <2>3. QED
    BY <2>1, <2>2
<1>7. \A r \in submitted' \ Overlooked' :
        r \in Members(waiting') \cup Members(active') \cup aborted' \cup lost' \/ t3_done'[r]
  BY <1>1, <1>3 DEF PlacesInv
<1>8. /\ aborted' \cup lost' \subseteq submitted' /\ aborted' \cap lost' = {}
      /\ (Members(waiting') \cup Members(active')) \cap (aborted' \cup lost') = {}
  BY <1>3 DEF PlacesInv
<1>9. QED
  BY <1>5, <1>6, <1>7, <1>8 DEF PlacesInv

\* Admission of Flash, which decodes nothing yet.
LEMMA FlashAdmitPlaces ==
  ASSUME SlotsInv, PlacesInv, kind = "flash", FlashAdmit, UNCHANGED kind
  PROVE  PlacesInv'
<1>1. /\ SlotsInv'
      /\ Members(active') = Members(active) \cup Members(Batch)
      /\ Members(waiting') = Members(waiting) \ Members(Batch)
  BY FlashAdmitFacts
<1>2. UNCHANGED <<submitted, to_free, t3_done, aborted, lost>>
  BY DEF FlashAdmit, handoffVars, endVars
<1>3. t3_done \in [Requests -> BOOLEAN]
  BY DEF PlacesInv
<1>4. QED
  BY <1>1, <1>2, <1>3, AdmitPlaces

\* Admission of Turbo: no request is done with its first token, when more
\* than one may be spoken.
LEMMA TurboAdmitPlaces ==
  ASSUME MoreThanOneToken, SlotsInv, PlacesInv, kind = "turbo", TurboAdmit, UNCHANGED kind
  PROVE  PlacesInv'
<1>1. /\ SlotsInv'
      /\ Members(active') = Members(active) \cup Members(Batch)
      /\ Members(waiting') = Members(waiting) \ Members(Batch)
  BY TurboAdmitFacts
<1>2. UNCHANGED <<submitted, to_free, aborted, lost>>
  BY DEF TurboAdmit, endVars
<1>3. PICK token \in FirstTokens(Members(Batch)) :
        Hand([r \in Members(Batch) |-> Consume(r, Prefix[r] + 1, token[r])])
  BY DEF TurboAdmit
<1>4. Members(Batch) \subseteq Requests
  BY BatchFacts, MembersFacts
<1> DEFINE new == [r \in Members(Batch) |-> Consume(r, Prefix[r] + 1, token[r])]
<1>5. Hand(new) /\ DOMAIN new = Members(Batch)
  BY <1>3
<1>6. \A r \in Members(Batch) : new[r] = Consume(r, Prefix[r] + 1, token[r])
  OBVIOUS
<1> HIDE DEF new
<1>7. /\ \A r \in Members(Batch) : Handed(r, new[r])
      /\ \A r \in Requests \ Members(Batch) : LeftAlone(r)
      /\ t3_done' = [r \in Requests |-> t3_done'[r]]
  BY <1>4, <1>5, HandFacts
<1>8. ASSUME NEW r \in Members(Batch)
      PROVE  /\ t3_done'[r] = TRUE \/ t3_done'[r] = t3_done[r]
             /\ r \notin Overlooked => t3_done'[r] = t3_done[r]
  <2>1. t3_done'[r] = Consume(r, Prefix[r] + 1, token[r]).done
    BY <1>6, <1>7 DEF Handed
  <2>2. CASE Finishes(r, Prefix[r] + 1, token[r])
    <3>1. t3_done'[r] = TRUE
      BY <2>1, <2>2, ConsumeDone
    <3>2. r \in Overlooked
      <4>1. Prefix[r] \in Nat /\ MaxSpeech \in Nat
        BY <1>4, EngineAssumption, TurboAssumption
      <4>2. token[r] = "stop"
        BY <2>2, <4>1 DEF Finishes, MoreThanOneToken
      <4>3. QED
        BY <4>2 DEF FirstTokens, Overlooked
    <3>3. QED
      BY <3>1, <3>2
  <2>3. CASE ~Finishes(r, Prefix[r] + 1, token[r])
    BY <2>1, <2>3, ConsumeDone
  <2>4. QED
    BY <2>2, <2>3
<1>9. \A r \in Requests \ Members(Batch) : t3_done'[r] = t3_done[r]
  BY <1>7 DEF LeftAlone
<1>10. \A r \in Requests \ Overlooked : t3_done'[r] = t3_done[r]
  BY <1>8, <1>9
<1>11. t3_done' \in [Requests -> BOOLEAN]
  <2>1. \A r \in Requests : t3_done'[r] \in BOOLEAN
    BY <1>8, <1>9 DEF PlacesInv
  <2>2. QED
    BY <1>7, <2>1
<1>12. QED
  BY <1>1, <1>2, <1>9, <1>10, <1>11, AdmitPlaces

\* A step of Flash frees those that finish.
LEMMA FlashStepPlaces ==
  ASSUME SlotsInv, PlacesInv, kind = "flash", FlashStep, UNCHANGED kind
  PROVE  PlacesInv'
<1>1. PICK o : FlashMoves(o)
  BY FlashStepFacts
<1>2. /\ phase = "step" /\ UNCHANGED <<waiting, submitted, active, aborted, lost>>
      /\ t3_done' = [r \in Requests |-> t3_done'[r]] /\ DOMAIN t3_done' = Requests
  BY DEF FlashStep, endVars, Hand
<1>3. /\ DOMAIN active = 1 .. Len(active) /\ Members(active) \subseteq Requests
      /\ \A i \in 1 .. Len(active) : row[i] \in FlashRows
  BY SlotsFacts DEF RowSet, FlashRows
<1>4. ASSUME NEW r \in Members(active)
      PROVE  /\ r \in Members(to_free') => t3_done'[r] = TRUE
             /\ r \notin Members(to_free') => t3_done'[r] = t3_done[r]
  <2>1. PICK i \in 1 .. Len(active) : r = active[i]
    BY <1>3 DEF Members
  <2>2. /\ o[i] \in Outcomes(row[i]) /\ (r \in Members(to_free') <=> o[i].finish)
        /\ Handed(r, HandedOver(r, o[i]))
    BY <1>1, <2>1 DEF FlashMoves
  <2>3. o[i].finish => o[i].pushes
    BY <1>3, <2>2, OutcomeFacts
  <2>4. /\ o[i].finish => HandedOver(r, o[i]).done = TRUE
        /\ ~o[i].finish => HandedOver(r, o[i]).done = t3_done[r]
    BY <2>3, HandedOverCounts
  <2>5. QED
    BY <2>2, <2>4 DEF Handed
<1>5. \A r \in Requests \ Members(active) : t3_done'[r] = t3_done[r]
  BY <1>1 DEF FlashMoves, LeftAlone
<1>6. Members(to_free') \subseteq Members(active)
  BY <1>1 DEF FlashMoves
<1>7. QED
  BY <1>2, <1>4, <1>5, <1>6, StepPlaces

\* A step of Turbo frees those that finish.
LEMMA TurboStepPlaces ==
  ASSUME SlotsInv, PlacesInv, kind = "turbo", TurboStep, UNCHANGED kind
  PROVE  PlacesInv'
<1>1. PICK token : TurboMoves(token)
  BY TurboStepFacts
<1>2. /\ phase = "step" /\ UNCHANGED <<waiting, submitted, active, aborted, lost>>
      /\ t3_done' = [r \in Requests |-> t3_done'[r]] /\ DOMAIN t3_done' = Requests
  BY DEF TurboStep, endVars, Hand
<1>3. DOMAIN active = 1 .. Len(active) /\ Members(active) \subseteq Requests
  BY SlotsFacts
<1>4. ASSUME NEW r \in Members(active)
      PROVE  /\ r \in Members(to_free') => t3_done'[r] = TRUE
             /\ r \notin Members(to_free') => t3_done'[r] = t3_done[r]
  <2>1. PICK i \in 1 .. Len(active) : r = active[i]
    BY <1>3 DEF Members
  <2>2. /\ r \in Members(to_free') <=> Finishes(r, cpu_len'[r], token[r])
        /\ Handed(r, Consume(r, cpu_len'[r], token[r]))
    BY <1>1, <2>1 DEF TurboMoves
  <2>3. t3_done'[r] = Consume(r, cpu_len'[r], token[r]).done
    BY <2>2 DEF Handed
  <2>4. QED
    BY <2>2, <2>3, ConsumeDone
<1>5. \A r \in Requests \ Members(active) : t3_done'[r] = t3_done[r]
  BY <1>1 DEF TurboMoves, LeftAlone
<1>6. Members(to_free') \subseteq Members(active)
  BY <1>1 DEF TurboMoves
<1>7. QED
  BY <1>2, <1>4, <1>5, <1>6, StepPlaces

\* A request that is freed is done, and leaves the slots.
LEMMA FreeOnePlaces ==
  ASSUME SlotsInv, PlacesInv, FreeOne, UNCHANGED kind
  PROVE  PlacesInv'
<1>1. /\ Head(to_free) \in Members(to_free)
      /\ Members(active') = Members(active) \ {Head(to_free)}
      /\ Members(to_free') = Members(to_free) \ {Head(to_free)}
  BY FreeOneSlots
<1>2. /\ UNCHANGED <<waiting, submitted, t3_done, aborted, lost, kind>>
      /\ Members(waiting') = Members(waiting) /\ Overlooked' = Overlooked
  BY DEF FreeOne, handoffVars, endVars, Overlooked
<1>3. t3_done[Head(to_free)]
  BY <1>1 DEF PlacesInv
<1>4. QED
  BY <1>1, <1>2, <1>3 DEF PlacesInv

\* A tick that raises moves the active to the aborted, and what it had taken
\* from the queue to the aborted or the lost.
LEMMA RaisePlaces ==
  ASSUME SlotsInv, PlacesInv, TickRaises
  PROVE  PlacesInv'
<1>1. PICK E, L, S : RaiseMoves(E, L, S)
  BY RaiseFacts
<1>2. /\ E \cap L = {} /\ E \cup L \subseteq Members(waiting)
      /\ Members(waiting') = Members(waiting) \ (E \cup L)
      /\ aborted' = aborted \cup Members(active) \cup E /\ lost' = lost \cup L
      /\ Members(active') = {} /\ Members(to_free') = {}
      /\ submitted' = submitted /\ Overlooked' = Overlooked
      /\ S \subseteq E \cup Members(active)
  BY <1>1, EmptyFacts DEF RaiseMoves, Overlooked
<1>3. /\ Members(waiting) \cap Members(active) = {}
      /\ Members(waiting) \cup Members(active) \subseteq submitted
      /\ submitted \subseteq Requests
  BY DEF SlotsInv
<1>4. ASSUME NEW r \in Requests
      PROVE  /\ t3_done'[r] \in BOOLEAN
             /\ t3_done[r] => t3_done'[r]
             /\ t3_done'[r] => t3_done[r] \/ r \in S
  <2>1. t3_done[r] \in BOOLEAN
    BY DEF PlacesInv
  <2>2. CASE UNCHANGED handoffVars \/ (ReachesOnly(S) /\ r \notin S)
    <3>1. t3_done'[r] = t3_done[r]
      BY <2>2 DEF handoffVars, ReachesOnly, LeftAlone
    <3>2. QED
      BY <2>1, <3>1
  <2>3. CASE ReachesOnly(S) /\ r \in S
    <3>1. PICK st : Handed(r, st) /\ Reached(r, st)
      BY <2>3 DEF ReachesOnly
    <3>2. st.done = TRUE \/ st.done = t3_done[r]
      BY <3>1, ReachedCounts
    <3>3. t3_done'[r] = TRUE \/ t3_done'[r] = t3_done[r]
      BY <3>1, <3>2 DEF Handed
    <3>4. QED
      BY <2>1, <2>3, <3>3
  <2>4. QED
    BY <1>1, <2>2, <2>3 DEF RaiseMoves
<1>5. t3_done' \in [Requests -> BOOLEAN]
  <2>1. t3_done' = [r \in Requests |-> t3_done'[r]]
    BY <1>1 DEF RaiseMoves, ReachesOnly, handoffVars, PlacesInv
  <2>2. QED
    BY <1>4, <2>1
<1>6. ASSUME NEW r \in Requests \ Overlooked', t3_done'[r]
      PROVE  r \in submitted' \ (Members(waiting') \cup lost')
  <2>1. CASE t3_done[r]
    BY <1>2, <2>1 DEF PlacesInv
  <2>2. CASE r \in S
    BY <1>2, <1>3, <2>2 DEF PlacesInv
  <2>3. QED
    BY <1>4, <1>6, <2>1, <2>2
<1>7. /\ aborted' \cup lost' \subseteq submitted' /\ aborted' \cap lost' = {}
      /\ (Members(waiting') \cup Members(active')) \cap (aborted' \cup lost') = {}
  BY <1>2, <1>3 DEF PlacesInv
<1>8. \A r \in submitted' \ Overlooked' :
        r \in Members(waiting') \cup Members(active') \cup aborted' \cup lost' \/ t3_done'[r]
  BY <1>2, <1>3, <1>4 DEF PlacesInv
<1>9. QED
  BY <1>2, <1>5, <1>6, <1>7, <1>8 DEF PlacesInv

\* What moves no request keeps PlacesInv.
LEMMA SamePlaces ==
  ASSUME PlacesInv,
         UNCHANGED <<waiting, submitted, active, to_free, t3_done, aborted, lost, kind>>
  PROVE  PlacesInv'
<1>1. /\ Members(active') = Members(active) /\ Members(waiting') = Members(waiting)
      /\ Members(to_free') = Members(to_free) /\ Overlooked' = Overlooked
  BY DEF Overlooked
<1>2. QED
  BY <1>1 DEF PlacesInv

\* PlacesInv is inductive, given SlotsInv.
LEMMA NextPlaces ==
  ASSUME MoreThanOneToken, SlotsInv, PlacesInv, [Next]_vars
  PROVE  PlacesInv'
<1>1. ASSUME NEW r \in Requests, Submit(r), UNCHANGED kind PROVE PlacesInv'
  BY <1>1, SubmitPlaces
<1>2. CASE Tick
  <2>1. UNCHANGED kind
    BY <1>2 DEF Tick
  <2>2. ASSUME TickEnd PROVE PlacesInv'
    <3>1. UNCHANGED <<waiting, submitted, active, to_free, t3_done, aborted, lost, kind>>
      BY <2>1, <2>2 DEF TickEnd, slotVars, handoffVars, endVars
    <3>2. QED
      BY <3>1, SamePlaces
  <2>3. CASE kind = "turbo" /\ TurboTick
    BY <2>1, <2>2, <2>3, TurboAdmitPlaces, TurboStepPlaces, FreeOnePlaces DEF TurboTick
  <2>4. CASE kind = "flash" /\ FlashTick
    BY <2>1, <2>2, <2>4, FlashAdmitPlaces, FlashStepPlaces, FreeOnePlaces DEF FlashTick
  <2>5. QED
    BY <1>2, <2>3, <2>4 DEF Tick
<1>3. CASE TickRaises
  BY <1>3, RaisePlaces
<1>4. CASE UNCHANGED vars
  <2>1. UNCHANGED <<waiting, submitted, active, to_free, t3_done, aborted, lost, kind>>
    BY <1>4 DEF vars, baseVars, slotVars, handoffVars, endVars
  <2>2. QED
    BY <2>1, SamePlaces
<1>5. QED
  BY <1>1, <1>2, <1>3, <1>4 DEF Next, Idle, vars

\* Where a request is, is always consistent.
LEMMA PlacesAlways ==
  ASSUME MoreThanOneToken
  PROVE  Spec => [](SlotsInv /\ PlacesInv)
<1>1. Init => SlotsInv /\ PlacesInv
  BY InitSlots, InitPlaces
<1>2. SlotsInv /\ PlacesInv /\ [Next]_vars => (SlotsInv /\ PlacesInv)'
  BY NextSlots, NextPlaces
<1>3. QED
  BY <1>1, <1>2, PTL DEF Spec

(* Between ticks no slot is held by a request that has finished decoding,
   other than one whose first token was the stop token. *)
THEOREM DoneAlwaysLeaves ==
  ASSUME MoreThanOneToken
  PROVE  Spec => []DoneLeaves
<1>1. SlotsInv /\ PlacesInv => DoneLeaves
  <2> SUFFICES ASSUME SlotsInv, PlacesInv, phase = "admit",
                      NEW r \in Members(active) \ Overlooked
               PROVE  ~t3_done[r]
    BY DEF DoneLeaves
  <2>1. to_free = <<>> /\ r \in Requests
    BY SlotsFacts DEF SlotsInv
  <2>2. r \notin Members(to_free)
    BY <2>1 DEF Members
  <2>3. QED
    BY <2>1, <2>2 DEF PlacesInv
<1>2. QED
  BY <1>1, PlacesAlways, PTL

\* A case that is one of four is one place of the four.
LEMMA OneOfFour ==
  ASSUME NEW a \in BOOLEAN, NEW b \in BOOLEAN, NEW c \in BOOLEAN, NEW d \in BOOLEAN,
         NEW k \in 1 .. 4, a <=> k = 1, b <=> k = 2, c <=> k = 3, d <=> k = 4
  PROVE  LET places == <<a, b, c, d>>
         IN  \E i \in DOMAIN places : \A j \in DOMAIN places : places[j] <=> j = i
<1> DEFINE places == <<a, b, c, d>>
<1>1. /\ DOMAIN places = 1 .. 4
      /\ places[1] = a /\ places[2] = b /\ places[3] = c /\ places[4] = d
  OBVIOUS
<1> HIDE DEF places
<1>2. \A j \in 1 .. 4 : places[j] <=> j = k
  BY <1>1
<1>3. QED
  BY <1>1, <1>2 DEF places

(* A request is at any time in exactly one place, waiting, active, over or
   lost, whatever submits fall between the phases of a tick and wherever a
   tick raises, in the handoff and the release of slots too. *)
THEOREM OnePlaceAlways ==
  ASSUME MoreThanOneToken
  PROVE  Spec => []OnePlace
<1>1. SlotsInv /\ PlacesInv => OnePlace
  <2> SUFFICES ASSUME SlotsInv, PlacesInv, NEW r \in submitted \ Overlooked
               PROVE  LET places == << r \in Members(waiting),
                                       r \in Members(active) \ Members(to_free),
                                       t3_done[r] \/ r \in aborted,
                                       r \in lost >>
                      IN  \E i \in DOMAIN places : \A j \in DOMAIN places : places[j] <=> j = i
    BY DEF OnePlace
  <2> DEFINE a == r \in Members(waiting)
             b == r \in Members(active) \ Members(to_free)
             c == t3_done[r] \/ r \in aborted
             d == r \in lost
  <2>1. a \in BOOLEAN /\ b \in BOOLEAN /\ c \in BOOLEAN /\ d \in BOOLEAN
    BY DEF PlacesInv, SlotsInv
  <2>2. r \in Requests /\ Members(waiting) \cap Members(active) = {}
        /\ Members(to_free) \subseteq Members(active)
    BY DEF SlotsInv
  <2>3. ~(a /\ b) /\ ~(a /\ c) /\ ~(a /\ d) /\ ~(b /\ c) /\ ~(b /\ d) /\ ~(c /\ d)
    BY <2>2 DEF PlacesInv
  <2>4. a \/ b \/ c \/ d
    BY <2>2 DEF PlacesInv
  <2> HIDE DEF a, b, c, d
  <2>5. PICK k \in 1 .. 4 : (a <=> k = 1) /\ (b <=> k = 2) /\ (c <=> k = 3) /\ (d <=> k = 4)
    <3>1. CASE a
      BY <2>3, <3>1
    <3>2. CASE b
      BY <2>3, <3>2
    <3>3. CASE c
      BY <2>3, <3>3
    <3>4. CASE d
      BY <2>3, <3>4
    <3>5. QED
      BY <2>4, <3>1, <3>2, <3>3, <3>4
  <2>6. LET places == <<a, b, c, d>>
        IN  \E i \in DOMAIN places : \A j \in DOMAIN places : places[j] <=> j = i
    BY <2>1, <2>5, OneOfFour
  <2>7. QED
    BY <2>6 DEF a, b, c, d
<1>2. QED
  BY <1>1, PlacesAlways, PTL

-----------------------------------------------------------------------------
(* What a handoff sends *)

\* s is a run of chunks from token a up to token b.
Chunked(s, a, b) ==
  /\ s \in Seq(ChunkRecord)
  /\ \A i \in 1 .. Len(s) :
       /\ s[i].from = (IF i = 1 THEN a ELSE s[i - 1].to)
       /\ s[i].from <= s[i].to
       /\ s[i].from = s[i].to => s[i].final
       /\ s[i].final => i = Len(s)
  /\ b = SentUpTo(s, a)

\* It has not ended yet; its last chunk has ended it.
Open(s) == \A i \in 1 .. Len(s) : ~s[i].final
Closed(s) == Len(s) > 0 /\ s[Len(s)].final

\* Nothing sent is an open run without tokens.
LEMMA NoChunks ==
  ASSUME NEW a
  PROVE  Chunked(<<>>, a, a) /\ Open(<<>>)
<1>1. <<>> \in Seq(ChunkRecord) /\ Len(<<>>) = 0
  BY EmptySeq
<1>2. QED
  BY <1>1 DEF Chunked, Open, SentUpTo

\* A final chunk is a closed run.
LEMMA FinalChunk ==
  ASSUME NEW a \in Nat, NEW b \in Nat, a <= b
  PROVE  /\ Chunked(<<ChunkOf(a, b, TRUE)>>, a, b)
         /\ Closed(<<ChunkOf(a, b, TRUE)>>)
<1> DEFINE c == ChunkOf(a, b, TRUE)
           s == <<c>>
<1>1. c \in ChunkRecord /\ c.from = a /\ c.to = b /\ c.final
  BY DEF ChunkOf, ChunkRecord
<1> HIDE DEF c
<1>2. s \in Seq(ChunkRecord) /\ Len(s) = 1 /\ s[1] = c /\ s # <<>>
  BY <1>1
<1> HIDE DEF s
<1>3. \A i \in 1 .. Len(s) : i = 1 /\ s[i] = c
  BY <1>2
<1>4. SentUpTo(s, a) = b
  BY <1>1, <1>2 DEF SentUpTo
<1>5. Chunked(s, a, b)
  BY <1>1, <1>2, <1>3, <1>4 DEF Chunked
<1>6. Closed(s)
  BY <1>1, <1>2, <1>3 DEF Closed
<1>7. QED
  BY <1>5, <1>6 DEF s, c

\* A chunk that is not final is an open run.
LEMMA OpenChunk ==
  ASSUME NEW a \in Nat, NEW b \in Nat, a < b
  PROVE  /\ Chunked(<<ChunkOf(a, b, FALSE)>>, a, b)
         /\ Open(<<ChunkOf(a, b, FALSE)>>)
<1> DEFINE c == ChunkOf(a, b, FALSE)
           s == <<c>>
<1>1. c \in ChunkRecord /\ c.from = a /\ c.to = b /\ ~c.final
  BY DEF ChunkOf, ChunkRecord
<1> HIDE DEF c
<1>2. s \in Seq(ChunkRecord) /\ Len(s) = 1 /\ s[1] = c /\ s # <<>>
  BY <1>1
<1> HIDE DEF s
<1>3. \A i \in 1 .. Len(s) : i = 1 /\ s[i] = c
  BY <1>2
<1>4. SentUpTo(s, a) = b
  BY <1>1, <1>2 DEF SentUpTo
<1>5. Chunked(s, a, b)
  BY <1>1, <1>2, <1>3, <1>4 DEF Chunked
<1>6. Open(s)
  BY <1>1, <1>2, <1>3 DEF Open
<1>7. QED
  BY <1>5, <1>6 DEF s, c

(* A run that has not ended is continued by one that starts where it stops. *)
LEMMA JoinChunks ==
  ASSUME NEW s, NEW t, NEW a \in Nat, NEW b \in Nat, NEW c \in Nat,
         Chunked(s, a, b), Open(s), Chunked(t, b, c)
  PROVE  /\ Chunked(s \o t, a, c)
         /\ Open(t) => Open(s \o t)
         /\ Closed(t) => Closed(s \o t)
<1> DEFINE u == s \o t
           m == Len(s)
           k == Len(t)
<1>1. /\ s \in Seq(ChunkRecord) /\ t \in Seq(ChunkRecord) /\ m \in Nat /\ k \in Nat
      /\ u \in Seq(ChunkRecord) /\ Len(u) = m + k
      /\ s = <<>> <=> m = 0
      /\ t = <<>> <=> k = 0
      /\ u = <<>> <=> m + k = 0
  <2>1. s \in Seq(ChunkRecord) /\ t \in Seq(ChunkRecord)
    BY DEF Chunked
  <2>2. u \in Seq(ChunkRecord) /\ Len(u) = m + k
    BY <2>1, ConcatProperties
  <2>3. \A q \in Seq(ChunkRecord) : Len(q) \in Nat /\ (q = <<>> <=> Len(q) = 0)
    BY EmptySeq, LenProperties
  <2> HIDE DEF u
  <2>4. QED
    BY <2>1, <2>2, <2>3
<1>2. \A i \in 1 .. m : u[i] = s[i]
  BY <1>1, ConcatProperties
<1>3. \A j \in 1 .. k : u[m + j] = t[j] /\ m + j \in 1 .. m + k
  BY <1>1, ConcatProperties
<1>4. \A i \in 1 .. m + k : i \in 1 .. m \/ (i > m /\ i - m \in 1 .. k /\ i = m + (i - m))
  BY <1>1
<1>5. /\ \A i \in 1 .. m : /\ s[i].from = (IF i = 1 THEN a ELSE s[i - 1].to)
                           /\ s[i].from <= s[i].to
                           /\ s[i].from = s[i].to => s[i].final
                           /\ ~s[i].final
      /\ b = SentUpTo(s, a)
  BY DEF Chunked, Open
<1>6. /\ \A j \in 1 .. k : /\ t[j].from = (IF j = 1 THEN b ELSE t[j - 1].to)
                           /\ t[j].from <= t[j].to
                           /\ t[j].from = t[j].to => t[j].final
                           /\ t[j].final => j = k
      /\ c = SentUpTo(t, b)
  BY DEF Chunked
<1>7. b = IF m = 0 THEN a ELSE u[m].to
  <2>1. m # 0 => m \in 1 .. m
    BY <1>1
  <2>2. QED
    BY <1>1, <1>2, <1>5, <2>1 DEF SentUpTo
<1> HIDE DEF u, m, k
<1>8. ASSUME NEW i \in 1 .. m + k
      PROVE  /\ u[i].from = (IF i = 1 THEN a ELSE u[i - 1].to)
             /\ u[i].from <= u[i].to
             /\ u[i].from = u[i].to => u[i].final
             /\ u[i].final => i = m + k
  <2>1. CASE i \in 1 .. m
    <3>1. u[i] = s[i] /\ (i # 1 => i - 1 \in 1 .. m /\ u[i - 1] = s[i - 1])
      BY <1>1, <1>2, <2>1
    <3>2. QED
      BY <1>5, <2>1, <3>1
  <2>2. CASE i \notin 1 .. m
    <3>1. PICK j \in 1 .. k : i = m + j
      BY <1>4, <2>2
    <3>2. /\ u[i] = t[j] /\ t[j].from <= t[j].to
          /\ t[j].from = t[j].to => t[j].final
          /\ t[j].final => j = k
      BY <1>3, <1>6, <3>1
    <3>3. u[i].from = (IF i = 1 THEN a ELSE u[i - 1].to)
      <4>1. CASE j = 1
        <5>1. u[i].from = b /\ i = m + 1
          BY <1>6, <3>1, <3>2, <4>1
        <5>2. i = 1 <=> m = 0
          BY <1>1, <5>1
        <5>3. i - 1 = m
          BY <1>1, <5>1
        <5>4. QED
          BY <1>7, <5>1, <5>2, <5>3
      <4>2. CASE j # 1
        <5>1. j - 1 \in 1 .. k /\ i - 1 = m + (j - 1) /\ i # 1
          BY <1>1, <3>1, <4>2
        <5>2. u[i - 1] = t[j - 1]
          BY <1>3, <5>1
        <5>3. t[j].from = t[j - 1].to
          BY <1>6, <4>2
        <5>4. QED
          BY <3>2, <5>1, <5>2, <5>3
      <4>3. QED
        BY <4>1, <4>2
    <3>4. QED
      BY <3>1, <3>2, <3>3
  <2>3. QED
    BY <2>1, <2>2
<1>9. c = SentUpTo(u, a)
  <2>1. CASE k = 0
    <3>1. t = <<>> /\ c = b /\ m + k = m
      BY <1>1, <1>6, <2>1 DEF SentUpTo
    <3>2. QED
      BY <1>1, <1>7, <3>1 DEF SentUpTo
  <2>2. CASE k # 0
    <3>1. k \in 1 .. k /\ m + k # 0
      BY <1>1, <2>2
    <3>2. c = t[k].to /\ u[m + k] = t[k]
      BY <1>1, <1>3, <1>6, <2>2, <3>1 DEF SentUpTo, k
    <3>3. QED
      BY <1>1, <3>1, <3>2 DEF SentUpTo
  <2>3. QED
    BY <2>1, <2>2
<1>10. Chunked(u, a, c)
  BY <1>1, <1>8, <1>9 DEF Chunked
<1>11. Open(t) => Open(u)
  <2> SUFFICES ASSUME Open(t), NEW i \in 1 .. m + k PROVE ~u[i].final
    BY <1>1 DEF Open
  <2>1. CASE i \in 1 .. m
    BY <1>2, <1>5, <2>1
  <2>2. CASE i \notin 1 .. m
    BY <1>3, <1>4, <2>2 DEF Open, k
  <2>3. QED
    BY <2>1, <2>2
<1>12. Closed(t) => Closed(u)
  <2> SUFFICES ASSUME Closed(t) PROVE Closed(u)
    OBVIOUS
  <2>1. k > 0 /\ t[k].final
    BY DEF Closed, k
  <2>2. k \in 1 .. k /\ m + k > 0
    BY <1>1, <2>1
  <2>3. u[m + k] = t[k]
    BY <1>3, <2>2
  <2>4. QED
    BY <1>1, <2>1, <2>2, <2>3 DEF Closed
<1>13. QED
  BY <1>10, <1>11, <1>12 DEF u

(* No chunk of a run ends behind the run. *)
LEMMA ChunksBounded ==
  ASSUME NEW s, NEW a \in Nat, NEW b, Chunked(s, a, b)
  PROVE  /\ a <= b /\ b \in Nat
         /\ \A i \in 1 .. Len(s) : s[i].to \in Nat /\ s[i].to <= b
<1> DEFINE m == Len(s)
           T == {k \in Nat : \A i \in 1 .. m : m - i <= k => s[i].to <= b}
<1>1. /\ s \in Seq(ChunkRecord) /\ m \in Nat
      /\ s = <<>> <=> m = 0
  BY EmptySeq, LenProperties DEF Chunked
<1>2. \A i \in 1 .. m : s[i] \in ChunkRecord
  BY <1>1, ElementOfSeq
<1>3. \A i \in 1 .. m : s[i].from \in Nat /\ s[i].to \in Nat
  BY <1>2 DEF ChunkRecord
<1>4. m = 0 => b = a
  BY <1>1 DEF Chunked, SentUpTo
<1>5. m > 0 => b = s[m].to
  BY <1>1 DEF Chunked, SentUpTo
<1>6. \A i \in 1 .. m : /\ s[i].from <= s[i].to
                        /\ s[i].from = (IF i = 1 THEN a ELSE s[i - 1].to)
  BY DEF Chunked
<1> HIDE DEF m
<1>7. 0 \in T
  BY <1>1, <1>3, <1>5
<1>8. ASSUME NEW k \in Nat, k \in T PROVE k + 1 \in T
  <2> SUFFICES ASSUME NEW i \in 1 .. m, m - i <= k + 1 PROVE s[i].to <= b
    OBVIOUS
  <2>1. CASE i = m
    BY <1>1, <1>3, <1>5, <2>1
  <2>2. CASE i < m
    <3>1. i + 1 \in 1 .. m /\ m - (i + 1) <= k /\ i + 1 # 1 /\ (i + 1) - 1 = i
      BY <1>1, <2>2
    <3>2. s[i + 1].to <= b
      <4>1. \A j \in 1 .. m : m - j <= k => s[j].to <= b
        BY <1>8
      <4> DEFINE j == i + 1
      <4>2. j \in 1 .. m /\ m - j <= k
        BY <3>1
      <4> HIDE DEF j
      <4>3. s[j].to <= b
        BY <4>1, <4>2
      <4>4. QED
        BY <4>3 DEF j
    <3>3. s[i + 1].from = s[i].to /\ s[i + 1].from <= s[i + 1].to
      BY <1>6, <3>1
    <3>4. s[i].to \in Nat /\ s[i + 1].to \in Nat
      BY <1>3, <3>1
    <3>5. m \in 1 .. m /\ m > 0
      BY <1>1, <2>2
    <3>6. b \in Nat
      BY <1>3, <1>5, <3>5
    <3>7. QED
      BY <3>2, <3>3, <3>4, <3>6
  <2>3. QED
    BY <1>1, <2>1, <2>2
<1>9. Nat \subseteq T
  <2> HIDE DEF T
  <2>1. QED
    BY <1>7, <1>8, NatInductionOnSet
<1>10. ASSUME NEW i \in 1 .. m PROVE s[i].to <= b
  <2> DEFINE k == m - i
  <2>1. k \in Nat /\ m - i <= k
    BY <1>1
  <2>2. k \in T
    <3> HIDE DEF k, T
    <3>1. QED
      BY <1>9, <2>1
  <2>3. \A j \in 1 .. m : m - j <= k => s[j].to <= b
    <3> HIDE DEF k
    <3>1. QED
      BY <2>2
  <2> HIDE DEF k, T
  <2>4. QED
    BY <2>1, <2>3
<1>11. b \in Nat /\ a <= b
  <2>1. CASE m = 0
    BY <1>4, <2>1
  <2>2. CASE m > 0
    <3>1. 1 \in 1 .. m /\ m \in 1 .. m
      BY <1>1, <2>2
    <3>2. s[1].to <= b /\ s[1].from = a /\ a <= s[1].to
      BY <1>6, <1>10, <3>1
    <3>3. s[1].to \in Nat /\ b \in Nat
      BY <1>3, <1>5, <2>2, <3>1
    <3>4. QED
      BY <3>2, <3>3
  <2>3. QED
    BY <1>1, <2>1, <2>2
<1>12. QED
  BY <1>3, <1>10, <1>11 DEF m

(* The first chunks of a run are a run, that ends no later. *)
LEMMA CutChunks ==
  ASSUME NEW s, NEW a \in Nat, NEW b, Chunked(s, a, b), NEW k \in 0 .. Len(s)
  PROVE  LET p == SubSeq(s, 1, k)
         IN  Chunked(p, a, SentUpTo(p, a)) /\ SentUpTo(p, a) \in 0 .. b
<1> DEFINE p == SubSeq(s, 1, k)
           m == Len(s)
<1>1. s \in Seq(ChunkRecord) /\ m \in Nat /\ k \in Nat /\ k <= m
  BY LenProperties DEF Chunked
<1>2. p \in Seq(ChunkRecord) /\ Len(p) = k /\ \A i \in 1 .. k : p[i] = s[i]
  BY <1>1
<1>3. p = <<>> <=> k = 0
  <2> HIDE DEF p
  <2>1. QED
    BY <1>2, EmptySeq
<1>4. /\ a <= b /\ b \in Nat
      /\ \A i \in 1 .. m : s[i].to \in Nat /\ s[i].to <= b
  BY ChunksBounded
<1>5. \A i \in 1 .. m : /\ s[i].from = (IF i = 1 THEN a ELSE s[i - 1].to)
                        /\ s[i].from <= s[i].to
                        /\ s[i].from = s[i].to => s[i].final
                        /\ s[i].final => i = m
  BY DEF Chunked
<1> HIDE DEF p, m
<1>6. ASSUME NEW i \in 1 .. Len(p)
      PROVE  /\ p[i].from = (IF i = 1 THEN a ELSE p[i - 1].to)
             /\ p[i].from <= p[i].to
             /\ p[i].from = p[i].to => p[i].final
             /\ p[i].final => i = Len(p)
  <2>1. i \in 1 .. m /\ i <= k /\ p[i] = s[i] /\ Len(p) = k
    BY <1>1, <1>2
  <2>2. i # 1 => p[i - 1] = s[i - 1]
    BY <1>1, <1>2, <2>1
  <2>3. i = m => i = k
    BY <1>1, <2>1
  <2>4. QED
    BY <1>5, <2>1, <2>2, <2>3
<1>7. Chunked(p, a, SentUpTo(p, a))
  BY <1>2, <1>6 DEF Chunked
<1>8. SentUpTo(p, a) \in 0 .. b
  <2>1. CASE k = 0
    BY <1>3, <1>4, <2>1 DEF SentUpTo
  <2>2. CASE k > 0
    <3>1. k \in 1 .. m /\ k \in 1 .. k
      BY <1>1, <2>2
    <3>2. SentUpTo(p, a) = s[k].to
      BY <1>2, <1>3, <2>2, <3>1 DEF SentUpTo
    <3>3. QED
      BY <1>4, <3>1, <3>2
  <2>3. QED
    BY <1>1, <2>1, <2>2
<1>9. QED
  BY <1>7, <1>8 DEF p

(* Every chunk has a positive size. *)
LEMMA TargetFacts ==
  ASSUME NEW e
  PROVE  Target(e) \in Nat \ {0}
<1>1. CASE e = 0
  BY <1>1, EngineAssumption DEF Target
<1>2. CASE e # 0 /\ TopupSizes # <<>> /\ Topups(e) # {}
  <2>1. /\ DOMAIN TopupSizes = 1 .. Len(TopupSizes)
        /\ \A n \in 1 .. Len(TopupSizes) : TopupSizes[n] \in Nat \ {0}
        /\ Len(TopupSizes) \in Nat
    BY EngineAssumption, LenProperties, ElementOfSeq
  <2>2. Topups(e) \subseteq 1 .. Len(TopupSizes) /\ 1 .. Len(TopupSizes) \subseteq Nat
    BY <2>1 DEF Topups
  <2> DEFINE first == CHOOSE n \in Topups(e) : \A m \in Topups(e) : n <= m
  <2>3. \E n \in Topups(e) : \A m \in Topups(e) : n <= m
    <3>1. Topups(e) \subseteq Nat
      BY <2>2
    <3>2. QED
      BY <1>2, <3>1, LeastNat
  <2>4. first \in Topups(e)
    BY <2>3
  <2>5. Target(e) = TopupSizes[first]
    BY <1>2 DEF Target
  <2> HIDE DEF first
  <2>6. QED
    BY <2>1, <2>2, <2>4, <2>5
<1>3. CASE e # 0 /\ (TopupSizes = <<>> \/ Topups(e) = {})
  BY <1>3, EngineAssumption DEF Target
<1>4. QED
  BY <1>1, <1>2, <1>3

\* The body of the function in Handoff.
HandoffStep(n, done, s, f) ==
  IF done /\ f < n /\ n - f <= Target(f)
  THEN <<ChunkOf(f, n, TRUE)>>
  ELSE IF n - f >= Target(f)
  THEN <<ChunkOf(f, f + Target(f), FALSE)>> \o s[f + Target(f)]
  ELSE IF done /\ f = n THEN <<ChunkOf(n, n, TRUE)>>
  ELSE <<>>

(* The function that Handoff defines by recursion, downwards from n, exists. *)
LEMMA HandoffExists ==
  ASSUME NEW n \in Nat, NEW done
  PROVE  \E s : s = [f \in 0 .. n |-> HandoffStep(n, done, s, f)]
<1> DEFINE Body(s, f) == HandoffStep(n, done, s, f)
           Upward(s, k) == \A f \in 0 .. n : n - f <= k => s[f] = Body(s, f)
           Exists(k) == \E s : s = [f \in 0 .. n |-> s[f]] /\ Upward(s, k)
           T == {k \in Nat : Exists(k)}
<1>1. ASSUME NEW s, NEW t, NEW f \in 0 .. n,
             \A g \in 0 .. n : g > f => s[g] = t[g]
      PROVE  Body(s, f) = Body(t, f)
  <2>1. Target(f) \in Nat \ {0}
    BY TargetFacts
  <2>2. n - f >= Target(f) => f + Target(f) \in 0 .. n /\ f + Target(f) > f
    BY <2>1
  <2>3. n - f >= Target(f) => s[f + Target(f)] = t[f + Target(f)]
    BY <1>1, <2>2
  <2>4. QED
    BY <2>3 DEF HandoffStep
<1>2. Exists(0)
  <2> DEFINE s0 == [f \in 0 .. n |-> <<>>]
             s == [f \in 0 .. n |-> Body(s0, f)]
  <2>1. s = [f \in 0 .. n |-> s[f]] /\ \A f \in 0 .. n : s[f] = Body(s0, f)
    OBVIOUS
  <2> HIDE DEF s, s0, Body
  <2>2. ASSUME NEW f \in 0 .. n, n - f <= 0 PROVE s[f] = Body(s, f)
    <3>1. \A g \in 0 .. n : ~ (g > f)
      BY <2>2
    <3>2. Body(s0, f) = Body(s, f)
      BY <1>1, <3>1
    <3>3. QED
      BY <2>1, <3>2
  <2>3. QED
    BY <2>1, <2>2
<1>3. ASSUME NEW k \in Nat, Exists(k) PROVE Exists(k + 1)
  <2>1. PICK s : s = [f \in 0 .. n |-> s[f]] /\ Upward(s, k)
    BY <1>3
  <2> DEFINE t == [f \in 0 .. n |-> IF n - f = k + 1 THEN Body(s, f) ELSE s[f]]
  <2>2. /\ t = [f \in 0 .. n |-> t[f]]
        /\ \A f \in 0 .. n : t[f] = IF n - f = k + 1 THEN Body(s, f) ELSE s[f]
    OBVIOUS
  <2> HIDE DEF t, Body
  <2>3. ASSUME NEW f \in 0 .. n, n - f <= k + 1 PROVE t[f] = Body(t, f)
    <3>1. ASSUME NEW g \in 0 .. n, g > f PROVE s[g] = t[g]
      <4>1. n - g # k + 1
        BY <2>3, <3>1
      <4>2. QED
        BY <2>2, <4>1
    <3>2. Body(s, f) = Body(t, f)
      BY <1>1, <3>1
    <3>3. CASE n - f = k + 1
      BY <2>2, <3>2, <3>3
    <3>4. CASE n - f # k + 1
      <4>1. n - f <= k
        BY <2>3, <3>4
      <4>2. t[f] = s[f] /\ s[f] = Body(s, f)
        BY <2>1, <2>2, <3>4, <4>1
      <4>3. QED
        BY <3>2, <4>2
    <3>5. QED
      BY <3>3, <3>4
  <2>4. QED
    BY <2>2, <2>3
<1>4. Exists(n)
  <2> HIDE DEF Exists
  <2>1. 0 \in T /\ \A k \in Nat : k \in T => k + 1 \in T
    BY <1>2, <1>3
  <2>2. Nat \subseteq T
    <3> HIDE DEF T
    <3>1. QED
      BY <2>1, NatInductionOnSet
  <2>3. QED
    BY <2>2
<1>5. PICK s : s = [f \in 0 .. n |-> s[f]] /\ Upward(s, n)
  BY <1>4
<1> HIDE DEF Body
<1>6. \A f \in 0 .. n : s[f] = Body(s, f)
  <2> TAKE f \in 0 .. n
  <2>1. n - f <= n
    OBVIOUS
  <2>2. QED
    BY <1>5, <2>1
<1>7. s = [f \in 0 .. n |-> Body(s, f)]
  BY <1>5, <1>6
<1>8. QED
  BY <1>7 DEF Body

(* What the loop sends for n committed tokens of which e are sent: a run of
   chunks from token e on, of committed tokens only, that ends the stream just
   when decoding is done, and then reaches the last token. *)
LEMMA HandoffSends ==
  ASSUME NEW n \in Nat, NEW done \in BOOLEAN, NEW e \in 0 .. n
  PROVE  /\ Chunked(Handoff(n, e, done), e, Upto(n, e, done))
         /\ Upto(n, e, done) \in e .. n
         /\ ~done => Open(Handoff(n, e, done))
         /\ done => Closed(Handoff(n, e, done)) /\ Upto(n, e, done) = n
<1> DEFINE Body(s, f) == HandoffStep(n, done, s, f)
           send == CHOOSE s : s = [f \in 0 .. n |-> Body(s, f)]
           Good(f) == /\ Chunked(send[f], f, SentUpTo(send[f], f))
                      /\ SentUpTo(send[f], f) \in f .. n
                      /\ ~done => Open(send[f])
                      /\ done => Closed(send[f]) /\ SentUpTo(send[f], f) = n
           T == {k \in Nat : \A f \in 0 .. n : n - f <= k => Good(f)}
<1>1. Handoff(n, e, done) = send[e]
  BY DEF Handoff, HandoffStep
<1>2. \A f \in 0 .. n : send[f] = Body(send, f)
  <2>1. \E s : s = [f \in 0 .. n |-> Body(s, f)]
    BY HandoffExists
  <2>2. send = [f \in 0 .. n |-> Body(send, f)]
    BY <2>1
  <2> HIDE DEF send, Body
  <2>3. QED
    BY <2>2
<1> HIDE DEF send
<1>3. ASSUME NEW f \in 0 .. n, \A g \in 0 .. n : g > f => Good(g) PROVE Good(f)
  <2> DEFINE m == f + Target(f)
  <2>1. Target(f) \in Nat \ {0} /\ f \in Nat /\ m \in Nat /\ f < m
    BY TargetFacts
  <2>2. CASE done /\ f <= n /\ send[f] = <<ChunkOf(f, n, TRUE)>>
    <3>1. Chunked(send[f], f, n) /\ Closed(send[f])
      BY <2>1, <2>2, FinalChunk
    <3>2. SentUpTo(send[f], f) = n
      BY <3>1 DEF Chunked
    <3>3. QED
      BY <2>2, <3>1, <3>2
  <2>3. CASE n - f >= Target(f) /\ send[f] = <<ChunkOf(f, m, FALSE)>> \o send[m]
    <3> DEFINE first == <<ChunkOf(f, m, FALSE)>>
               b == SentUpTo(send[m], m)
    <3>1. m \in 0 .. n /\ m > f
      BY <2>1, <2>3
    <3>2. Good(m)
      BY <1>3, <3>1
    <3>3. Chunked(first, f, m) /\ Open(first)
      BY <2>1, OpenChunk
    <3>4. Chunked(send[m], m, b) /\ b \in m .. n /\ b \in Nat
      BY <2>1, <3>2
    <3>5. /\ Chunked(first \o send[m], f, b)
          /\ Open(send[m]) => Open(first \o send[m])
          /\ Closed(send[m]) => Closed(first \o send[m])
      <4> HIDE DEF first, b, m
      <4>1. QED
        BY <2>1, <3>3, <3>4, JoinChunks
    <3>6. b = SentUpTo(send[f], f)
      BY <2>3, <3>5 DEF Chunked
    <3>7. b \in f .. n
      BY <2>1, <3>4
    <3> HIDE DEF b, first
    <3>8. QED
      BY <2>3, <3>2, <3>5, <3>6, <3>7 DEF b, first
  <2>4. CASE ~done /\ send[f] = <<>>
    <3>1. Chunked(send[f], f, f) /\ Open(send[f])
      BY <2>4, NoChunks
    <3>2. SentUpTo(send[f], f) = f
      BY <3>1 DEF Chunked
    <3>3. QED
      BY <2>1, <2>4, <3>1, <3>2
  <2>5. \/ done /\ f <= n /\ send[f] = <<ChunkOf(f, n, TRUE)>>
        \/ n - f >= Target(f) /\ send[f] = <<ChunkOf(f, m, FALSE)>> \o send[m]
        \/ ~done /\ send[f] = <<>>
    <3> DEFINE last == <<ChunkOf(f, n, TRUE)>>
               end == <<ChunkOf(n, n, TRUE)>>
               all == <<ChunkOf(f, m, FALSE)>> \o send[m]
    <3>1. send[f] = HandoffStep(n, done, send, f)
      BY <1>2
    <3>2. HandoffStep(n, done, send, f)
            = IF done /\ f < n /\ n - f <= Target(f) THEN last
              ELSE IF n - f >= Target(f) THEN all
              ELSE IF done /\ f = n THEN end
              ELSE <<>>
      BY DEF HandoffStep
    <3>3. f = n => end = last
      OBVIOUS
    <3> HIDE DEF last, end, all
    <3>4. \/ done /\ f <= n /\ send[f] = last
          \/ n - f >= Target(f) /\ send[f] = all
          \/ ~done /\ send[f] = <<>>
      BY <2>1, <3>1, <3>2, <3>3
    <3>5. QED
      BY <3>4 DEF last, all
  <2>6. QED
    BY <2>2, <2>3, <2>4, <2>5
<1> HIDE DEF Good
<1>4. 0 \in T
  <2> SUFFICES ASSUME NEW f \in 0 .. n, n - f <= 0 PROVE Good(f)
    OBVIOUS
  <2>1. \A g \in 0 .. n : ~ (g > f)
    OBVIOUS
  <2>2. QED
    BY <1>3, <2>1
<1>5. ASSUME NEW k \in Nat, k \in T PROVE k + 1 \in T
  <2> SUFFICES ASSUME NEW f \in 0 .. n, n - f <= k + 1 PROVE Good(f)
    OBVIOUS
  <2>1. \A g \in 0 .. n : g > f => n - g <= k
    OBVIOUS
  <2>2. \A g \in 0 .. n : g > f => Good(g)
    BY <1>5, <2>1
  <2>3. QED
    BY <1>3, <2>2
<1>6. Nat \subseteq T
  <2> HIDE DEF T
  <2>1. QED
    BY <1>4, <1>5, NatInductionOnSet
<1>7. Good(e)
  <2>1. n - e \in Nat /\ n - e <= n - e
    OBVIOUS
  <2>2. QED
    BY <1>6, <2>1
<1>8. Upto(n, e, done) = SentUpTo(send[e], e)
  BY <1>1 DEF Upto
<1>9. QED
  BY <1>1, <1>7, <1>8 DEF Good

-----------------------------------------------------------------------------
(* The handoff of every request *)

HandoffTypes ==
  /\ committed \in [Requests -> Nat]
  /\ emitted \in [Requests -> Nat]
  /\ t3_done \in [Requests -> BOOLEAN]
  /\ chunks \in [Requests -> Seq(ChunkRecord)]
  /\ \A r \in Requests : emitted[r] <= committed[r]

\* What has been handed over for a request: all up to emitted[r], and when it
\* is done all that is committed, with the end of the stream. A raise may have
\* cut the last handoff of one that is aborted.
StreamInv ==
  \A r \in Requests \ Overlooked :
    /\ Chunked(chunks[r], 0, emitted[r])
    /\ r \notin aborted =>
         /\ ~t3_done[r] => Open(chunks[r])
         /\ t3_done[r] => Closed(chunks[r]) /\ emitted[r] = committed[r]

\* st is what the handoff of r may become.
Advance(st, r) ==
  /\ st.n \in Nat /\ st.e \in Nat /\ st.e <= st.n /\ st.done \in BOOLEAN
  /\ st.sent \in Seq(ChunkRecord)
  /\ ~t3_done[r] => /\ Chunked(st.sent, emitted[r], st.e)
                    /\ ~st.done => Open(st.sent)
                    /\ st.done => Closed(st.sent) /\ st.e = st.n

\* So it may be cut by a raise: nothing is missing before its end.
Continues(st, r) ==
  /\ st.n \in Nat /\ st.e \in Nat /\ st.e <= st.n /\ st.done \in BOOLEAN
  /\ st.sent \in Seq(ChunkRecord)
  /\ ~t3_done[r] => Chunked(st.sent, emitted[r], st.e)

\* Nothing sent before leaves what is sent.
LEMMA NothingBefore ==
  ASSUME NEW s \in Seq(ChunkRecord)
  PROVE  <<>> \o s = s
OBVIOUS

\* push_committed continues the stream where it stopped.
LEMMA PushAdvances ==
  ASSUME HandoffTypes, NEW r \in Requests, NEW k \in Nat
  PROVE  /\ Advance(PushCommitted(HandoffState(r), k), r)
         /\ EndAfter(r, k) \in 0 .. committed[r] + k
         /\ SentFor(r, k) \in Seq(ChunkRecord)
         /\ ~t3_done[r] => /\ Chunked(SentFor(r, k), emitted[r], EndAfter(r, k))
                           /\ Open(SentFor(r, k))
<1> DEFINE n == committed[r] + k
           e == emitted[r]
           d == t3_done[r]
           s == Handoff(n, e, d)
           p == PushCommitted(HandoffState(r), k)
<1>1. n \in Nat /\ e \in 0 .. n /\ d \in BOOLEAN
  BY DEF HandoffTypes
<1>2. EndAfter(r, k) = Upto(n, e, d) /\ SentFor(r, k) = <<>> \o s
  BY DEF EndAfter, SentFor
<1>3. p.n = n /\ p.e = EndAfter(r, k) /\ p.done = d /\ p.sent = SentFor(r, k)
  BY HandoffFields, ZenonT(60)
<1> HIDE DEF n, e, d, p
<1>4. /\ Chunked(s, e, Upto(n, e, d)) /\ Upto(n, e, d) \in e .. n
      /\ ~d => Open(s)
      /\ d => Closed(s) /\ Upto(n, e, d) = n
  BY <1>1, HandoffSends
<1> HIDE DEF s
<1>5. s \in Seq(ChunkRecord) /\ SentFor(r, k) = s
  BY <1>2, <1>4, NothingBefore DEF Chunked
<1>6. EndAfter(r, k) \in 0 .. n /\ EndAfter(r, k) \in Nat
  BY <1>1, <1>2, <1>4
<1>7. ~d => Chunked(SentFor(r, k), e, EndAfter(r, k)) /\ Open(SentFor(r, k))
  BY <1>2, <1>4, <1>5
<1>8. Advance(p, r)
  <2>1. /\ p.n \in Nat /\ p.e \in Nat /\ p.e <= p.n /\ p.done \in BOOLEAN
        /\ p.sent \in Seq(ChunkRecord)
    BY <1>1, <1>3, <1>5, <1>6
  <2>2. ~d => /\ Chunked(p.sent, e, p.e) /\ ~p.done /\ Open(p.sent)
    BY <1>3, <1>7
  <2>3. QED
    BY <2>1, <2>2 DEF Advance, d, e
<1>9. QED
  BY <1>5, <1>6, <1>7, <1>8 DEF n, e, d, p

\* finish_t3 continues the stream where it stopped and closes it.
LEMMA FinishAdvances ==
  ASSUME HandoffTypes, NEW r \in Requests, NEW k \in Nat
  PROVE  Advance(FinishT3(PushCommitted(HandoffState(r), k)), r)
<1> DEFINE n == committed[r] + k
           a == emitted[r]
           e == EndAfter(r, k)
           s == SentFor(r, k)
           z == TRUE
           t == Handoff(n, e, z)
           u == Upto(n, e, z)
           f == FinishT3(PushCommitted(HandoffState(r), k))
<1>1. /\ n \in Nat /\ a \in Nat /\ e \in 0 .. n /\ s \in Seq(ChunkRecord)
      /\ ~t3_done[r] => Chunked(s, a, e) /\ Open(s)
  <2>1. n \in Nat /\ a \in Nat
    BY DEF HandoffTypes
  <2>2. /\ e \in 0 .. n /\ s \in Seq(ChunkRecord)
        /\ ~t3_done[r] => Chunked(s, a, e) /\ Open(s)
    BY PushAdvances
  <2>3. QED
    BY <2>1, <2>2
<1>2. f.n = n /\ f.e = u /\ f.done = TRUE /\ f.sent = s \o t
  BY HandoffFields, ZenonT(60)
<1>3. z \in BOOLEAN /\ z
  OBVIOUS
<1> HIDE DEF n, a, e, s, z, f
<1>4. Chunked(t, e, u) /\ u \in e .. n /\ Closed(t) /\ u = n
  BY <1>1, <1>3, HandoffSends
<1> HIDE DEF t, u
<1>5. f.n \in Nat /\ f.e \in Nat /\ f.e <= f.n /\ f.e = f.n
  BY <1>1, <1>2, <1>4
<1>6. f.sent \in Seq(ChunkRecord)
  BY <1>1, <1>2, <1>4 DEF Chunked
<1>7. ~t3_done[r] => Chunked(f.sent, a, f.e) /\ Closed(f.sent)
  BY <1>1, <1>2, <1>4, JoinChunks
<1>8. f.done \in BOOLEAN /\ f.done
  BY <1>2
<1>9. QED
  BY <1>5, <1>6, <1>7, <1>8 DEF Advance, a, f

\* A request that is given nothing keeps its stream.
LEMMA SameAdvances ==
  ASSUME HandoffTypes, NEW r \in Requests
  PROVE  Advance(HandoffState(r), r)
<1>1. /\ HandoffState(r).n = committed[r] /\ HandoffState(r).e = emitted[r]
      /\ HandoffState(r).done = t3_done[r] /\ HandoffState(r).sent = <<>>
  BY DEF HandoffState
<1>2. Chunked(<<>>, emitted[r], emitted[r]) /\ Open(<<>>) /\ <<>> \in Seq(ChunkRecord)
  BY NoChunks DEF Chunked
<1>3. QED
  BY <1>1, <1>2 DEF HandoffTypes, Advance

\* consume continues the stream of its request.
LEMMA ConsumeAdvances ==
  ASSUME HandoffTypes, NEW r \in Requests, NEW len, NEW token
  PROVE  Advance(Consume(r, len, token), r)
<1> DEFINE k == IF token = "speech" THEN 1 ELSE 0
           n == committed[r] + Silence
           e == emitted[r]
           z == TRUE
           t == Handoff(n, e, z)
           u == Upto(n, e, z)
           f == FinishT3([HandoffState(r) EXCEPT !.n = @ + Silence])
<1>1. f.n = n /\ f.e = u /\ f.done = z /\ f.sent = <<>> \o t
  <2>1. f = St(n, u, z, <<>> \o t)
    BY LateFacts
  <2> HIDE DEF n, u, z, t, f
  <2>2. QED
    BY <2>1 DEF St
<1>2. n \in Nat /\ e \in 0 .. n /\ e \in Nat
  BY DEF HandoffTypes, Silence
<1>3. z \in BOOLEAN /\ z
  OBVIOUS
<1> HIDE DEF n, e, z, f
<1>4. Chunked(t, e, u) /\ u \in e .. n /\ Closed(t) /\ u = n
  BY <1>2, <1>3, HandoffSends
<1> HIDE DEF t, u
<1>5. f.sent = t /\ t \in Seq(ChunkRecord)
  BY <1>1, <1>4, NothingBefore DEF Chunked
<1>6. Advance(f, r)
  <2>1. f.n \in Nat /\ f.e \in Nat /\ f.e <= f.n /\ f.e = f.n /\ f.done \in BOOLEAN
    BY <1>1, <1>2, <1>3, <1>4
  <2>2. Chunked(f.sent, e, f.e) /\ Closed(f.sent) /\ f.done
    BY <1>1, <1>3, <1>4, <1>5
  <2>3. QED
    BY <1>5, <2>1, <2>2 DEF Advance, e
<1>7. k \in Nat
  OBVIOUS
<1>8. Advance(PushCommitted(HandoffState(r), k), r)
  <2> HIDE DEF k
  <2>1. QED
    BY <1>7, PushAdvances
<1>9. /\ Finishes(r, len, token) => Consume(r, len, token) = f
      /\ ~Finishes(r, len, token) => Consume(r, len, token) = PushCommitted(HandoffState(r), k)
  BY DEF Consume, f
<1> HIDE DEF k
<1>10. QED
  BY <1>6, <1>8, <1>9

\* An outcome of a Flash step continues the stream of its request.
LEMMA HandedOverAdvances ==
  ASSUME HandoffTypes, NEW r \in Requests, NEW w \in FlashRows, NEW o \in Outcomes(w)
  PROVE  Advance(HandedOver(r, o), r)
<1>1. /\ o.push \in Nat /\ (o.finish => o.pushes)
      /\ o.pushes \in BOOLEAN /\ o.finish \in BOOLEAN
  <2>1. o.push \in 0 .. BlockSize /\ o.pushes \in BOOLEAN /\ o.finish \in BOOLEAN
    BY OutcomeFacts
  <2>2. BlockSize \in Nat
    BY FlashAssumption
  <2>3. o.push \in Nat
    BY <2>1, <2>2
  <2>4. o.finish => o.pushes
    BY OutcomeFacts
  <2>5. QED
    BY <2>1, <2>3, <2>4
<1>2. CASE o.pushes /\ o.finish
  BY <1>1, <1>2, HandedOverCases, FinishAdvances
<1>3. CASE o.pushes /\ ~o.finish
  BY <1>1, <1>3, HandedOverCases, PushAdvances
<1>4. CASE ~o.pushes /\ ~o.finish
  BY <1>4, HandedOverCases, SameAdvances
<1>5. QED
  BY <1>1, <1>2, <1>3, <1>4

\* A handoff that raises continues the stream as far as it has come.
LEMMA CutContinues ==
  ASSUME NEW r, NEW n \in Nat, NEW e \in 0 .. n, NEW d \in BOOLEAN,
         NEW s \in Seq(ChunkRecord), emitted[r] \in Nat,
         ~t3_done[r] => Chunked(s, emitted[r], e) /\ Open(s),
         NEW c \in Cut(St(n, e, d, s))
  PROVE  Continues(c, r)
<1> DEFINE all == Handoff(n, e, d)
           a == emitted[r]
<1>1. PICK k \in 0 .. Len(all) :
        c = St(n, SentUpTo(SubSeq(all, 1, k), e), d, s \o SubSeq(all, 1, k))
  BY CutFacts
<1> DEFINE p == SubSeq(all, 1, k)
           u == SentUpTo(p, e)
<1>2. Chunked(all, e, Upto(n, e, d)) /\ Upto(n, e, d) \in e .. n
  BY HandoffSends
<1>3. Chunked(p, e, u) /\ u \in 0 .. Upto(n, e, d)
  <2> HIDE DEF all
  <2>1. QED
    BY <1>2, CutChunks
<1>4. c.n = n /\ c.e = u /\ c.done = d /\ c.sent = s \o p
  <2> HIDE DEF p, u
  <2>1. c = St(n, u, d, s \o p)
    BY <1>1 DEF u, p
  <2>2. QED
    BY <2>1 DEF St
<1> HIDE DEF all, p, u
<1>5. u \in Nat /\ u <= n /\ e \in Nat /\ p \in Seq(ChunkRecord)
  BY <1>2, <1>3 DEF Chunked
<1>6. ~t3_done[r] => Chunked(s \o p, a, u)
  BY <1>3, <1>5, JoinChunks DEF a
<1>7. s \o p \in Seq(ChunkRecord)
  BY <1>5
<1>8. QED
  BY <1>4, <1>5, <1>6, <1>7 DEF Continues, a

\* So does whatever a raise leaves of a handoff.
LEMMA ReachedContinues ==
  ASSUME SlotsInv, HandoffTypes, NEW r \in Requests, NEW st, Reached(r, st)
  PROVE  Continues(st, r)
<1>1. Advance(st, r) => Continues(st, r)
  BY DEF Advance, Continues
<1>2. CASE kind = "turbo" /\ \E len, token : st = Consume(r, len, token)
  BY <1>1, <1>2, ConsumeAdvances
<1>3. CASE /\ kind = "flash" /\ r \in Members(active)
           /\ \E o \in Outcomes(row[slot[r]]) : st = HandedOver(r, o)
  <2>1. row[slot[r]] \in FlashRows
    BY <1>3, SlotsFacts DEF RowSet, FlashRows
  <2>2. QED
    BY <1>1, <1>3, <2>1, HandedOverAdvances
<1>4. ASSUME NEW k \in Nat,
             \/ st \in Cut(St(committed[r] + k, emitted[r], t3_done[r], <<>>))
             \/ st \in Cut(St(committed[r] + k, emitted[r], TRUE, <<>>))
             \/ st \in Cut(St(committed[r] + k, EndAfter(r, k), TRUE, SentFor(r, k)))
      PROVE  Continues(st, r)
  <2> DEFINE n == committed[r] + k
             z == TRUE
             none == <<>>
             d == t3_done[r]
             e == EndAfter(r, k)
             s == SentFor(r, k)
  <2>1. \/ st \in Cut(St(n, emitted[r], d, none))
        \/ st \in Cut(St(n, emitted[r], z, none))
        \/ st \in Cut(St(n, e, z, s))
    BY <1>4
  <2>2. /\ n \in Nat /\ emitted[r] \in 0 .. n /\ emitted[r] \in Nat
        /\ d \in BOOLEAN /\ z \in BOOLEAN
    BY DEF HandoffTypes
  <2>3. /\ none \in Seq(ChunkRecord)
        /\ Chunked(none, emitted[r], emitted[r]) /\ Open(none)
    BY NoChunks DEF Chunked
  <2>4. /\ e \in 0 .. n /\ s \in Seq(ChunkRecord)
        /\ ~t3_done[r] => Chunked(s, emitted[r], e) /\ Open(s)
    BY PushAdvances
  <2> HIDE DEF n, z, none, d, e, s
  <2>5. QED
    BY <2>1, <2>2, <2>3, <2>4, CutContinues
<1>5. QED
  BY <1>2, <1>3, <1>4, ReachedCases, Zenon

\* A step in which the requests in S are handed what they may be. Only those
\* that are then aborted may miss the end of it.
HandsOver(S) ==
  /\ S \subseteq Requests
  /\ \A r \in S : \E st : /\ Handed(r, st) /\ Continues(st, r)
                          /\ r \notin aborted' => Advance(st, r)
  /\ \A r \in Requests \ S : LeftAlone(r)
  /\ committed' = [r \in Requests |-> committed'[r]]
  /\ emitted' = [r \in Requests |-> emitted'[r]]
  /\ t3_done' = [r \in Requests |-> t3_done'[r]]
  /\ chunks' = [r \in Requests |-> chunks'[r]]

\* A step that hands over keeps the types of the streams.
LEMMA TypesStep ==
  ASSUME HandoffTypes, NEW S, HandsOver(S)
  PROVE  HandoffTypes'
<1>1. ASSUME NEW r \in Requests
      PROVE  /\ committed'[r] \in Nat /\ emitted'[r] \in Nat /\ t3_done'[r] \in BOOLEAN
             /\ chunks'[r] \in Seq(ChunkRecord) /\ emitted'[r] <= committed'[r]
  <2>0. chunks[r] \in Seq(ChunkRecord)
    BY DEF HandoffTypes
  <2>1. CASE r \in S
    <3>1. PICK st : Handed(r, st) /\ Continues(st, r)
      BY <2>1 DEF HandsOver
    <3>2. chunks'[r] = chunks[r] \o st.sent /\ st.sent \in Seq(ChunkRecord)
      BY <3>1 DEF Handed, Continues
    <3>3. chunks'[r] \in Seq(ChunkRecord)
      BY <2>0, <3>2
    <3>4. QED
      BY <3>1, <3>3 DEF Handed, Continues
  <2>2. CASE r \notin S
    BY <2>2 DEF HandsOver, LeftAlone, HandoffTypes
  <2>3. QED
    BY <2>1, <2>2
<1>2. /\ committed' \in [Requests -> Nat] /\ emitted' \in [Requests -> Nat]
      /\ t3_done' \in [Requests -> BOOLEAN] /\ chunks' \in [Requests -> Seq(ChunkRecord)]
  BY <1>1 DEF HandsOver
<1>3. QED
  BY <1>1, <1>2 DEF HandoffTypes

\* A step that hands over to requests that are not over keeps each stream one
\* run from token 0.
LEMMA StreamStep ==
  ASSUME HandoffTypes, StreamInv, UNCHANGED kind, aborted \subseteq aborted',
         NEW S, HandsOver(S), \A r \in S \ Overlooked : ~t3_done[r] /\ r \notin aborted
  PROVE  StreamInv'
<1>1. Overlooked' = Overlooked
  BY DEF Overlooked
<1>2. ASSUME NEW r \in Requests \ Overlooked
      PROVE  /\ Chunked(chunks'[r], 0, emitted'[r])
             /\ r \notin aborted' =>
                  /\ ~t3_done'[r] => Open(chunks'[r])
                  /\ t3_done'[r] => Closed(chunks'[r]) /\ emitted'[r] = committed'[r]
  <2>1. CASE r \in S
    <3>1. PICK st : /\ Handed(r, st) /\ Continues(st, r)
                    /\ r \notin aborted' => Advance(st, r)
      BY <2>1 DEF HandsOver
    <3>2. ~t3_done[r] /\ Chunked(chunks[r], 0, emitted[r]) /\ Open(chunks[r])
      BY <2>1 DEF StreamInv
    <3>3. Chunked(st.sent, emitted[r], st.e) /\ st.e \in Nat
      BY <3>1, <3>2 DEF Continues
    <3>4. r \notin aborted' => /\ ~st.done => Open(st.sent)
                               /\ st.done => Closed(st.sent) /\ st.e = st.n
      BY <3>1, <3>2 DEF Advance
    <3>5. emitted[r] \in Nat
      BY DEF HandoffTypes
    <3>6. /\ Chunked(chunks[r] \o st.sent, 0, st.e)
          /\ Open(st.sent) => Open(chunks[r] \o st.sent)
          /\ Closed(st.sent) => Closed(chunks[r] \o st.sent)
      BY <3>2, <3>3, <3>5, JoinChunks
    <3>7. /\ committed'[r] = st.n /\ emitted'[r] = st.e /\ t3_done'[r] = st.done
          /\ chunks'[r] = chunks[r] \o st.sent /\ st.done \in BOOLEAN
      BY <3>1 DEF Handed, Continues
    <3>8. Chunked(chunks'[r], 0, emitted'[r])
      BY <3>6, <3>7
    <3>9. r \notin aborted' => /\ ~t3_done'[r] => Open(chunks'[r])
                               /\ t3_done'[r] => Closed(chunks'[r])
                               /\ t3_done'[r] => emitted'[r] = committed'[r]
      BY <3>4, <3>6, <3>7
    <3>10. QED
      BY <3>8, <3>9
  <2>2. CASE r \notin S
    BY <2>2 DEF HandsOver, LeftAlone, StreamInv
  <2>3. QED
    BY <2>1, <2>2
<1>3. QED
  BY <1>1, <1>2 DEF StreamInv

\* A step of Flash hands over to active requests only.
LEMMA FlashStepHands ==
  ASSUME SlotsInv, HandoffTypes, kind = "flash", FlashStep, UNCHANGED kind
  PROVE  HandsOver(Members(active))
<1>1. PICK o : FlashMoves(o)
  BY FlashStepFacts
<1>2. /\ committed' = [r \in Requests |-> committed'[r]]
      /\ emitted' = [r \in Requests |-> emitted'[r]]
      /\ t3_done' = [r \in Requests |-> t3_done'[r]]
      /\ chunks' = [r \in Requests |-> chunks'[r]]
  BY DEF FlashStep, Hand
<1>3. /\ DOMAIN active = 1 .. Len(active) /\ Members(active) \subseteq Requests
      /\ \A i \in 1 .. Len(active) : row[i] \in FlashRows
  BY SlotsFacts DEF RowSet, FlashRows
<1>4. ASSUME NEW r \in Members(active)
      PROVE  \E st : Handed(r, st) /\ Advance(st, r) /\ Continues(st, r)
  <2>1. PICK i \in 1 .. Len(active) : r = active[i]
    BY <1>3 DEF Members
  <2>2. o[i] \in Outcomes(row[i]) /\ Handed(r, HandedOver(r, o[i]))
    BY <1>1, <2>1 DEF FlashMoves
  <2>3. Advance(HandedOver(r, o[i]), r)
    BY <1>3, <2>2, HandedOverAdvances
  <2>4. QED
    BY <2>2, <2>3 DEF Advance, Continues
<1>5. \A r \in Requests \ Members(active) : LeftAlone(r)
  BY <1>1 DEF FlashMoves
<1>6. QED
  BY <1>2, <1>3, <1>4, <1>5 DEF HandsOver

\* A step of Turbo hands over to active requests only.
LEMMA TurboStepHands ==
  ASSUME SlotsInv, HandoffTypes, kind = "turbo", TurboStep, UNCHANGED kind
  PROVE  HandsOver(Members(active))
<1>1. PICK token : TurboMoves(token)
  BY TurboStepFacts
<1>2. /\ committed' = [r \in Requests |-> committed'[r]]
      /\ emitted' = [r \in Requests |-> emitted'[r]]
      /\ t3_done' = [r \in Requests |-> t3_done'[r]]
      /\ chunks' = [r \in Requests |-> chunks'[r]]
  BY DEF TurboStep, Hand
<1>3. DOMAIN active = 1 .. Len(active) /\ Members(active) \subseteq Requests
  BY SlotsFacts
<1>4. ASSUME NEW r \in Members(active)
      PROVE  \E st : Handed(r, st) /\ Advance(st, r) /\ Continues(st, r)
  <2>1. PICK i \in 1 .. Len(active) : r = active[i]
    BY <1>3 DEF Members
  <2>2. Handed(r, Consume(r, cpu_len'[r], token[r]))
    BY <1>1, <2>1 DEF TurboMoves
  <2>3. Advance(Consume(r, cpu_len'[r], token[r]), r)
    BY <1>3, ConsumeAdvances
  <2>4. QED
    BY <2>2, <2>3 DEF Advance, Continues
<1>5. \A r \in Requests \ Members(active) : LeftAlone(r)
  BY <1>1 DEF TurboMoves
<1>6. QED
  BY <1>2, <1>3, <1>4, <1>5 DEF HandsOver

\* The prefill of Turbo hands over to what it admits only.
LEMMA TurboAdmitHands ==
  ASSUME SlotsInv, HandoffTypes, kind = "turbo", TurboAdmit, UNCHANGED kind
  PROVE  HandsOver(Members(Batch))
<1>1. PICK token \in FirstTokens(Members(Batch)) :
        Hand([r \in Members(Batch) |-> Consume(r, Prefix[r] + 1, token[r])])
  BY DEF TurboAdmit
<1>2. Members(Batch) \subseteq Requests
  BY BatchFacts, MembersFacts
<1> DEFINE new == [r \in Members(Batch) |-> Consume(r, Prefix[r] + 1, token[r])]
<1>3. Hand(new) /\ DOMAIN new = Members(Batch)
  BY <1>1
<1>4. \A r \in Members(Batch) : new[r] = Consume(r, Prefix[r] + 1, token[r])
  OBVIOUS
<1> HIDE DEF new
<1>5. /\ \A r \in Members(Batch) : Handed(r, new[r])
      /\ \A r \in Requests \ Members(Batch) : LeftAlone(r)
      /\ committed' = [r \in Requests |-> committed'[r]]
      /\ emitted' = [r \in Requests |-> emitted'[r]]
      /\ t3_done' = [r \in Requests |-> t3_done'[r]]
      /\ chunks' = [r \in Requests |-> chunks'[r]]
  BY <1>2, <1>3, HandFacts
<1>6. ASSUME NEW r \in Members(Batch)
      PROVE  \E st : Handed(r, st) /\ Advance(st, r) /\ Continues(st, r)
  <2>1. Advance(Consume(r, Prefix[r] + 1, token[r]), r)
    BY <1>2, ConsumeAdvances
  <2>2. QED
    BY <1>4, <1>5, <2>1 DEF Advance, Continues
<1>7. QED
  BY <1>2, <1>5, <1>6 DEF HandsOver

\* The steps that hand something over: to whom, and of whom nothing has ended.
HandStep ==
  \/ /\ kind = "flash" /\ FlashStep /\ UNCHANGED kind
  \/ /\ kind = "turbo" /\ TurboStep /\ UNCHANGED kind
  \/ /\ kind = "turbo" /\ TurboAdmit /\ UNCHANGED kind
  \/ TickRaises /\ ~UNCHANGED handoffVars

\* Who has been aborted stays so.
LEMMA AbortedGrows ==
  ASSUME SlotsInv, [Next]_vars
  PROVE  aborted \subseteq aborted'
<1>1. CASE TickRaises
  BY <1>1, RaiseFacts DEF RaiseMoves
<1>2. CASE ~TickRaises
  <2>1. UNCHANGED aborted
    BY <1>2 DEF Next, Tick, FlashTick, TurboTick, FlashAdmit, TurboAdmit, FlashStep, TurboStep,
                FreeOne, TickEnd, Submit, Idle, vars, baseVars, endVars
  <2>2. QED
    BY <2>1
<1>3. QED
  BY <1>1, <1>2

\* A raise hands over to requests that it aborts.
LEMMA RaiseHands ==
  ASSUME SlotsInv, HandoffTypes, TickRaises, ~UNCHANGED handoffVars
  PROVE  \E S : /\ HandsOver(S)
                /\ \/ S \subseteq Members(waiting)
                   \/ phase = "step" /\ S \subseteq Members(active)
<1>1. PICK E, L, S : RaiseMoves(E, L, S)
  BY RaiseFacts
<1>2. /\ ReachesOnly(S) /\ S \subseteq aborted'
      /\ S \subseteq Members(waiting) \/ (phase = "step" /\ S \subseteq Members(active))
  BY <1>1 DEF RaiseMoves
<1>3. S \subseteq Requests
  <2>1. Members(waiting) \subseteq Requests /\ Members(active) \subseteq Requests
    BY SlotsFacts, MembersFacts DEF SlotsInv
  <2>2. QED
    BY <1>2, <2>1
<1>4. \A r \in S : \E st : Handed(r, st) /\ Continues(st, r)
  BY <1>2, <1>3, ReachedContinues DEF ReachesOnly
<1>5. HandsOver(S)
  BY <1>2, <1>3, <1>4 DEF HandsOver, ReachesOnly
<1>6. QED
  BY <1>2, <1>5

\* A step that hands over does so to requests that are not over.
LEMMA HandStepHands ==
  ASSUME SlotsInv, HandoffTypes, HandStep
  PROVE  \E S : /\ HandsOver(S)
                /\ PlacesInv => \A r \in S \ Overlooked : ~t3_done[r] /\ r \notin aborted
<1>1. ASSUME phase = "step", NEW S, HandsOver(S), S \subseteq Members(active), PlacesInv
      PROVE  \A r \in S \ Overlooked : ~t3_done[r] /\ r \notin aborted
  <2>1. to_free = <<>> /\ Members(active) \subseteq Requests
    BY <1>1, SlotsFacts DEF SlotsInv
  <2>2. Members(to_free) = {}
    BY <2>1 DEF Members
  <2>3. QED
    BY <1>1, <2>1, <2>2 DEF PlacesInv
<1>2. ASSUME NEW S, HandsOver(S), S \subseteq Members(waiting), PlacesInv
      PROVE  \A r \in S \ Overlooked : ~t3_done[r] /\ r \notin aborted
  BY <1>2 DEF PlacesInv, HandsOver
<1>3. \E S : /\ HandsOver(S)
             /\ \/ S \subseteq Members(waiting)
                \/ phase = "step" /\ S \subseteq Members(active)
  <2>1. Members(Batch) \subseteq Members(waiting)
    BY BatchFacts
  <2>2. QED
    BY <2>1, FlashStepHands, TurboStepHands, TurboAdmitHands, RaiseHands
    DEF HandStep, FlashStep, TurboStep
<1>4. QED
  BY <1>1, <1>2, <1>3

\* The other steps leave the streams alone.
LEMMA OtherStepsHandNothing ==
  ASSUME [Next]_vars, ~HandStep
  PROVE  UNCHANGED <<committed, emitted, t3_done, chunks, kind>>
<1>1. ASSUME NEW r \in Requests, Submit(r), UNCHANGED kind
      PROVE  UNCHANGED <<committed, emitted, t3_done, chunks, kind>>
  BY <1>1 DEF Submit, handoffVars
<1>2. CASE Tick
  <2>1. UNCHANGED kind
    BY <1>2 DEF Tick
  <2>2. FlashAdmit \/ FreeOne \/ TickEnd
    BY <1>2, <2>1 DEF Tick, HandStep, TurboTick, FlashTick
  <2>3. UNCHANGED handoffVars
    BY <2>2 DEF FlashAdmit, FreeOne, TickEnd
  <2>4. QED
    BY <2>1, <2>3 DEF handoffVars
<1>3. CASE TickRaises
  BY <1>3 DEF TickRaises, HandStep, handoffVars
<1>4. CASE UNCHANGED vars
  BY <1>4 DEF vars, baseVars, handoffVars
<1>5. CASE Idle /\ UNCHANGED kind
  BY <1>5 DEF Idle, baseVars, handoffVars
<1>6. QED
  BY <1>1, <1>2, <1>3, <1>4, <1>5 DEF Next

\* Nothing has been handed over initially.
LEMMA InitHandoff == Init => HandoffTypes /\ StreamInv
<1> SUFFICES ASSUME Init PROVE HandoffTypes /\ StreamInv
  OBVIOUS
<1>1. /\ committed = [r \in Requests |-> 0] /\ emitted = [r \in Requests |-> 0]
      /\ t3_done = [r \in Requests |-> FALSE] /\ chunks = [r \in Requests |-> <<>>]
  BY DEF Init, BaseInit
<1>2. Chunked(<<>>, 0, 0) /\ Open(<<>>) /\ <<>> \in Seq(ChunkRecord)
  BY NoChunks DEF Chunked
<1>3. HandoffTypes
  BY <1>1, <1>2 DEF HandoffTypes
<1>4. StreamInv
  BY <1>1, <1>2 DEF StreamInv
<1>5. QED
  BY <1>3, <1>4

\* HandoffTypes is inductive, given SlotsInv.
LEMMA NextTypes ==
  ASSUME SlotsInv, HandoffTypes, [Next]_vars
  PROVE  HandoffTypes'
<1>1. CASE HandStep
  BY <1>1, HandStepHands, TypesStep
<1>2. CASE ~HandStep
  BY <1>2, OtherStepsHandNothing DEF HandoffTypes
<1>3. QED
  BY <1>1, <1>2

\* StreamInv is inductive, given the slots, the places and the types.
LEMMA NextStream ==
  ASSUME SlotsInv, PlacesInv, HandoffTypes, StreamInv, [Next]_vars
  PROVE  StreamInv'
<1>1. CASE HandStep
  <2>1. PICK S : HandsOver(S) /\ \A r \in S \ Overlooked : ~t3_done[r] /\ r \notin aborted
    BY <1>1, HandStepHands
  <2>2. UNCHANGED kind
    BY <1>1 DEF HandStep, TickRaises
  <2>3. QED
    BY <2>1, <2>2, AbortedGrows, StreamStep
<1>2. CASE ~HandStep
  <2>1. UNCHANGED <<committed, emitted, t3_done, chunks, kind>>
    BY <1>2, OtherStepsHandNothing
  <2>2. Overlooked' = Overlooked /\ aborted \subseteq aborted'
    BY <2>1, AbortedGrows DEF Overlooked
  <2>3. QED
    BY <2>1, <2>2 DEF StreamInv
<1>3. QED
  BY <1>1, <1>2

StreamsInv == SlotsInv /\ PlacesInv /\ HandoffTypes /\ StreamInv

\* The stream of every request is always one run from token 0.
LEMMA StreamsAlways ==
  ASSUME MoreThanOneToken
  PROVE  Spec => []StreamsInv
<1>1. Init => StreamsInv
  BY InitSlots, InitPlaces, InitHandoff DEF StreamsInv
<1>2. StreamsInv /\ [Next]_vars => StreamsInv'
  BY NextSlots, NextPlaces, NextTypes, NextStream DEF StreamsInv
<1>3. QED
  BY <1>1, <1>2, PTL DEF Spec

(* A request that has finished decoding and was not aborted has been handed
   over whole: its last chunk ends its stream, and at the last token that was
   committed for it. No token is left behind in the engine, and no stream is
   left open. *)
WholeWhenDone ==
  \A r \in Requests \ (Overlooked \cup aborted) :
    t3_done[r] => Closed(chunks[r]) /\ emitted[r] = committed[r]

\* A request that is done has been handed over to its last token, and nothing
\* follows, unless a raise has cut its last handoff.
THEOREM DoneHandedOverWhole ==
  ASSUME MoreThanOneToken
  PROVE  Spec => []WholeWhenDone
<1>1. StreamsInv => WholeWhenDone
  BY DEF StreamsInv, StreamInv, WholeWhenDone
<1>2. QED
  BY <1>1, StreamsAlways, PTL

-----------------------------------------------------------------------------
(* The engine implements ChunkStream *)

\* What ChunkStream sees of the chunks.
Shown == [r \in Requests |-> IF r \in Overlooked THEN <<>> ELSE chunks[r]]

\* A run from token 0 is well formed in the sense of ChunkStream.
LEMMA ChunkedIsWellFormed ==
  ASSUME NEW s, NEW b, Chunked(s, 0, b)
  PROVE  ChunkSpec!WellFormed(s)
<1>1. s \in Seq(ChunkRecord) /\ DOMAIN s = 1 .. Len(s)
  BY LenProperties DEF Chunked
<1>2. ASSUME NEW i \in 1 .. Len(s)
      PROVE  /\ s[i].from = (IF i = 1 THEN 0 ELSE s[i - 1].to)
             /\ s[i].to >= s[i].from
             /\ s[i].from = s[i].to => s[i].final
             /\ s[i].final => i = Len(s)
  <2>1. s[i] \in ChunkRecord
    BY <1>1, ElementOfSeq
  <2>2. s[i].from \in Nat /\ s[i].to \in Nat
    BY <2>1 DEF ChunkRecord
  <2>3. QED
    BY <2>2 DEF Chunked
<1>3. QED
  BY <1>1, <1>2 DEF ChunkSpec!WellFormed

\* What is sent is added at the end.
LEMMA ConcatExtends ==
  ASSUME NEW X, NEW s \in Seq(X), NEW t \in Seq(X)
  PROVE  ChunkSpec!Extends(s, s \o t) /\ ChunkSpec!Extends(s, s)
<1>1. ASSUME NEW q \in Seq(X) PROVE ChunkSpec!Extends(s, s \o q)
  <2> DEFINE u == s \o q
             v == SubSeq(u, 1, Len(s))
  <2>1. /\ u \in Seq(X) /\ Len(u) = Len(s) + Len(q) /\ Len(s) \in Nat /\ Len(q) \in Nat
        /\ \A i \in 1 .. Len(s) : u[i] = s[i]
    BY ConcatProperties, LenProperties
  <2> HIDE DEF u
  <2>2. v \in Seq(X) /\ Len(v) = Len(s) /\ \A i \in 1 .. Len(s) : v[i] = u[i]
    BY <2>1
  <2> HIDE DEF v
  <2>3. v = s
    BY <2>1, <2>2, SeqEqual
  <2>4. QED
    BY <2>1, <2>3 DEF ChunkSpec!Extends, u, v
<1>2. <<>> \in Seq(X) /\ s \o <<>> = s
  BY EmptySeq
<1>3. QED
  BY <1>1, <1>2

\* Every step of the engine is a step of ChunkStream or shows nothing.
LEMMA StepShown ==
  ASSUME StreamsInv, StreamsInv', [Next]_vars
  PROVE  [ChunkSpec!Next]_Shown
<1>1. UNCHANGED kind
  BY DEF Next, Tick, TickRaises, vars
<1>2. Overlooked' = Overlooked
  BY <1>1 DEF Overlooked
<1>3. ASSUME NEW r \in Requests
      PROVE  /\ ChunkSpec!Extends(Shown[r], Shown'[r])
             /\ ChunkSpec!WellFormed(Shown'[r])
  <2>1. CASE r \in Overlooked
    <3>1. Shown[r] = <<>> /\ Shown'[r] = <<>>
      BY <1>2, <2>1 DEF Shown
    <3>2. ChunkSpec!Extends(<<>>, <<>>)
      <4>1. <<>> \in Seq(ChunkRecord)
        BY EmptySeq
      <4>2. QED
        BY <4>1, ConcatExtends
    <3>3. ChunkSpec!WellFormed(<<>>)
      BY NoChunks, ChunkedIsWellFormed
    <3>4. QED
      BY <3>1, <3>2, <3>3
  <2>2. CASE r \notin Overlooked
    <3>1. Shown[r] = chunks[r] /\ Shown'[r] = chunks'[r]
      BY <1>2, <2>2 DEF Shown
    <3>2. Chunked(chunks'[r], 0, emitted'[r])
      BY <1>2, <2>2 DEF StreamsInv, StreamInv
    <3>3. chunks[r] \in Seq(ChunkRecord)
      BY DEF StreamsInv, HandoffTypes
    <3>4. chunks'[r] = chunks[r] \/ \E t \in Seq(ChunkRecord) : chunks'[r] = chunks[r] \o t
      <4>1. CASE HandStep
        <5>1. PICK S : HandsOver(S)
          BY <4>1, HandStepHands DEF StreamsInv
        <5>2. QED
          BY <5>1 DEF HandsOver, Handed, Continues, LeftAlone
      <4>2. CASE ~HandStep
        BY <4>2, OtherStepsHandNothing
      <4>3. QED
        BY <4>1, <4>2
    <3>5. ChunkSpec!Extends(chunks[r], chunks'[r])
      BY <3>3, <3>4, ConcatExtends
    <3>6. QED
      BY <3>1, <3>2, <3>5, ChunkedIsWellFormed
  <2>3. QED
    BY <2>1, <2>2
<1>4. DOMAIN Shown' = Requests
  BY DEF Shown
<1>5. QED
  BY <1>3, <1>4 DEF ChunkSpec!Next, Shown

(* The engine implements ChunkStream: what it hands to the vocoder for a
   request are the committed tokens from the first one on, in order, without
   gap or overlap, and the stream is ended once, by its last element. *)
THEOREM EngineHandsOverAStream ==
  ASSUME MoreThanOneToken
  PROVE  Spec => HandsOverAStream
<1>1. Init => ChunkSpec!Init
  BY DEF Init, BaseInit, ChunkSpec!Init
<1>2. StreamsInv /\ StreamsInv' /\ [Next]_vars => [ChunkSpec!Next]_Shown
  BY StepShown
<1>3. QED
  BY <1>1, <1>2, StreamsAlways, PTL DEF Spec, HandsOverAStream, ChunkSpec!Spec, Shown

-----------------------------------------------------------------------------
(* Types *)

FlashRowPair(w, leaves) ==
  /\ w \in FlashRow
  /\ ~leaves /\ ~w.commit => w.k < NumSteps

FlashRowInv ==
  /\ cpu_len \in [Requests -> Nat]
  /\ \A i \in 1 .. Len(active) : FlashRowPair(row[i], active[i] \in Members(to_free))

TypesInv ==
  /\ SlotsInv
  /\ HandoffTypes
  /\ aborted \cup lost \subseteq Requests
  /\ kind = "flash" => FlashRowInv
  /\ kind = "turbo" => TurboInv

\* The numbers of Flash: a block fits into the longest row.
LEMMA FlashNumbers ==
  ASSUME NEW r \in Requests
  PROVE  /\ BlockSize \in Nat \ {0} /\ NumSteps \in Nat \ {0} /\ NMax \in Nat
         /\ NMax - BlockSize \in 0 .. NMax
         /\ LongestPrefix \in Nat /\ FlashL \in Nat
         /\ FlashL - BlockSize \in 0 .. FlashL
         /\ Prefix[r] \in 0 .. FlashL
<1>1. /\ BlockSize \in Nat \ {0} /\ NumSteps \in Nat \ {0} /\ NMax \in Nat
      /\ NMax >= BlockSize
  BY FlashAssumption
<1>2. LongestPrefix \in Nat /\ Prefix[r] \in Nat /\ Prefix[r] <= LongestPrefix
  BY LongestPrefixFacts
<1>3. FlashL = LongestPrefix + NMax + BlockSize
  BY DEF FlashL
<1>4. QED
  BY <1>1, <1>2, <1>3

\* What a step makes of a row is a row, and steps are left for it unless it
\* leaves or commits.
LEMMA OutcomeTypes ==
  ASSUME NEW w \in FlashRow, ~w.commit => w.k < NumSteps, NEW o \in Outcomes(w)
  PROVE  FlashRowPair(o.row, o.finish)
<1>1. /\ w.owner \in Requests /\ w.start \in 0 .. NMax /\ w.masked \in 0 .. BlockSize
      /\ w.k \in 0 .. NumSteps /\ w.commit \in BOOLEAN /\ w.budget \in Nat
      /\ w.cache \in 0 .. FlashL
  BY DEF FlashRow
<1>2. /\ BlockSize \in Nat \ {0} /\ NumSteps \in Nat \ {0} /\ NMax \in Nat
      /\ NMax - BlockSize \in 0 .. NMax /\ FlashL \in Nat
      /\ FlashL - BlockSize \in 0 .. FlashL
  BY <1>1, FlashNumbers
<1>3. w \in FlashRows
  BY <1>2 DEF FlashRow, FlashRows
<1>4. /\ o.row \in FlashRows /\ o.row.owner = w.owner /\ o.row.budget = w.budget
      /\ o.finish \in BOOLEAN
  BY <1>3, OutcomeFacts
<1>5. ASSUME /\ o.row.start \in 0 .. NMax /\ o.row.masked \in 0 .. BlockSize
             /\ o.row.k \in 0 .. NumSteps /\ o.row.cache \in 0 .. FlashL
      PROVE  o.row \in FlashRow
  BY <1>4, <1>5 DEF FlashRow, FlashRows
<1>6. CASE w.commit
  <2>1. o.row = Committed(w)
    BY <1>3, <1>6, OutcomeFacts
  <2>2. /\ Committed(w).start = Smaller(w.start + BlockSize, NMax - BlockSize)
        /\ Committed(w).cache = Smaller(w.cache + BlockSize, FlashL - BlockSize)
        /\ Committed(w).k = 0 /\ Committed(w).masked \in {w.masked, BlockSize}
    BY <1>3, CommittedFacts
  <2>3. o.row.start \in 0 .. NMax
    BY <1>1, <1>2, <2>1, <2>2 DEF Smaller
  <2>4. o.row.cache \in 0 .. FlashL
    BY <1>1, <1>2, <2>1, <2>2 DEF Smaller
  <2>5. o.row.masked \in 0 .. BlockSize /\ o.row.k \in 0 .. NumSteps /\ o.row.k < NumSteps
    BY <1>1, <1>2, <2>1, <2>2
  <2>6. QED
    BY <1>5, <2>3, <2>4, <2>5 DEF FlashRowPair
<1>7. CASE ~w.commit
  <2>1. PICK n \in Unmaskable(w), eos \in BOOLEAN :
          o.row = Denoised(w, n, eos) /\ (o.finish <=> eos)
    BY <1>3, <1>7, OutcomeFacts
  <2>2. n \in 0 .. w.masked
    BY <1>3, <2>1, DenoisedFacts
  <2>3. /\ o.row.start = w.start /\ o.row.cache = w.cache
        /\ o.row.masked = w.masked - n /\ o.row.k = w.k + 1
        /\ o.row.commit = (~eos /\ (n = w.masked \/ w.k + 1 >= NumSteps))
    BY <1>3, <2>1, DenoisedFacts
  <2>4. w.k < NumSteps
    BY <1>7
  <2>5. o.row.masked \in 0 .. BlockSize /\ o.row.k \in 0 .. NumSteps
    BY <1>1, <1>2, <2>2, <2>3, <2>4
  <2>6. ~eos /\ ~o.row.commit => o.row.k < NumSteps
    <3>1. ~eos /\ ~o.row.commit => ~ (w.k + 1 >= NumSteps)
      BY <2>3
    <3>2. w.k \in Nat
      BY <1>1
    <3>3. QED
      BY <1>2, <2>3, <3>1, <3>2
  <2>7. o.row \in FlashRow
    BY <1>1, <1>5, <2>3, <2>5
  <2>8. QED
    BY <2>1, <2>6, <2>7 DEF FlashRowPair
<1>8. QED
  BY <1>6, <1>7

\* A fresh row has all its steps before it.
LEMMA AdmitFlashRows ==
  ASSUME SlotsInv, FlashRowInv, kind = "flash", FlashAdmit, UNCHANGED kind
  PROVE  FlashRowInv'
<1>1. /\ SlotsInv'
      /\ PairsNext \subseteq Pairs \cup {<<r, Fresh(r)>> : r \in Members(Batch)}
  BY FlashAdmitFacts
<1>2. /\ UNCHANGED to_free
      /\ cpu_len' = [r \in Requests |->
                       IF r \in Members(Batch) THEN Prefix[r] ELSE cpu_len[r]]
  BY DEF FlashAdmit
<1>3. Members(Batch) \subseteq Requests
  BY BatchFacts, MembersFacts
<1>4. cpu_len' \in [Requests -> Nat]
  BY <1>2, EngineAssumption DEF FlashRowInv
<1>5. ASSUME NEW j \in 1 .. Len(active')
      PROVE  FlashRowPair(row'[j], active'[j] \in Members(to_free'))
  <2>1. CASE \E i \in DOMAIN active : active'[j] = active[i] /\ row'[j] = row[i]
    <3>1. PICK i \in DOMAIN active : active'[j] = active[i] /\ row'[j] = row[i]
      BY <2>1
    <3>2. FlashRowPair(row[i], active[i] \in Members(to_free))
      BY SlotsFacts DEF FlashRowInv
    <3>3. QED
      BY <1>2, <3>1, <3>2
  <2>2. CASE <<active'[j], row'[j]>> \in {<<r, Fresh(r)>> : r \in Members(Batch)}
    <3>1. PICK r \in Members(Batch) : active'[j] = r /\ row'[j] = Fresh(r)
      BY <2>2
    <3>2. /\ BlockSize \in Nat \ {0} /\ NumSteps \in Nat \ {0} /\ NMax \in Nat
          /\ Prefix[r] \in 0 .. FlashL /\ Budget[r] \in Nat /\ r \in Requests
      BY <1>3, FlashNumbers, FlashAssumption
    <3>3. /\ 0 \in 0 .. NMax /\ BlockSize \in 0 .. BlockSize /\ 0 \in 0 .. NumSteps
          /\ 0 < NumSteps
      BY <3>2
    <3>4. Fresh(r) \in FlashRow /\ Fresh(r).k = 0
      BY <3>2, <3>3 DEF Fresh, FlashRow
    <3>5. QED
      BY <3>1, <3>3, <3>4 DEF FlashRowPair
  <2>3. QED
    BY <1>1, <2>1, <2>2, PairOrigin
<1>6. QED
  BY <1>4, <1>5 DEF FlashRowInv

\* A row that stays in its slot has steps left, or commits next.
LEMMA StepFlashRows ==
  ASSUME SlotsInv, FlashRowInv, kind = "flash", FlashStep, UNCHANGED kind
  PROVE  FlashRowInv'
<1>1. DOMAIN cpu_len' = Requests /\ cpu_len' = [r \in Requests |-> cpu_len'[r]]
  BY FlashStepFacts
<1>2. PICK o : FlashMoves(o)
  BY FlashStepFacts
<1>3. UNCHANGED active /\ Members(to_free) = {}
  <2>1. phase = "step" /\ UNCHANGED active
    BY DEF FlashStep
  <2>2. to_free = <<>>
    BY <2>1 DEF SlotsInv
  <2>3. QED
    BY <2>1, <2>2 DEF Members
<1>4. /\ DOMAIN active = 1 .. Len(active)
      /\ \A i \in 1 .. Len(active) : active[i] \in Requests
      /\ Members(active) \subseteq Requests
  BY SlotsFacts
<1>5. ASSUME NEW i \in 1 .. Len(active)
      PROVE  /\ FlashRowPair(row'[i], active[i] \in Members(to_free'))
             /\ cpu_len'[active[i]] \in Nat
  <2>1. /\ o[i] \in Outcomes(row[i]) /\ row'[i] = o[i].row
        /\ active[i] \in Members(to_free') <=> o[i].finish
        /\ cpu_len'[active[i]] = IF row[i].commit THEN Prefix[active[i]] + o[i].row.start
                                 ELSE cpu_len[active[i]]
    BY <1>2 DEF FlashMoves
  <2>2. row[i] \in FlashRow /\ (~row[i].commit => row[i].k < NumSteps)
    BY <1>3 DEF FlashRowInv, FlashRowPair
  <2>3. FlashRowPair(o[i].row, o[i].finish)
    BY <2>1, <2>2, OutcomeTypes
  <2>4. FlashRowPair(row'[i], active[i] \in Members(to_free'))
    BY <2>1, <2>3 DEF FlashRowPair
  <2>5. o[i].row.start \in Nat
    <3>1. o[i].row.start \in 0 .. NMax /\ NMax \in Nat
      BY <2>3, FlashAssumption DEF FlashRowPair, FlashRow
    <3>2. QED
      BY <3>1
  <2>6. Prefix[active[i]] \in Nat /\ cpu_len[active[i]] \in Nat
    BY <1>4, EngineAssumption DEF FlashRowInv
  <2>7. cpu_len'[active[i]] \in Nat
    BY <2>1, <2>5, <2>6
  <2>8. QED
    BY <2>4, <2>7
<1>6. \A r \in Requests : cpu_len'[r] \in Nat
  <2> TAKE r \in Requests
  <2>1. CASE r \in Members(active)
    <3>1. PICK i \in 1 .. Len(active) : active[i] = r
      BY <1>4, <2>1 DEF Members
    <3>2. QED
      BY <1>5, <3>1
  <2>2. CASE r \notin Members(active)
    BY <1>2, <2>2 DEF FlashMoves, FlashRowInv
  <2>3. QED
    BY <2>1, <2>2
<1>7. cpu_len' \in [Requests -> Nat]
  BY <1>1, <1>6
<1>8. QED
  BY <1>3, <1>5, <1>7 DEF FlashRowInv

\* Removal moves rows and does not change one.
LEMMA FreeOneFlashRows ==
  ASSUME SlotsInv, FlashRowInv, FreeOne, UNCHANGED kind
  PROVE  FlashRowInv'
<1>1. /\ SlotsInv'
      /\ Members(active') = Members(active) \ {Head(to_free)}
      /\ Members(to_free') = Members(to_free) \ {Head(to_free)}
      /\ PairsNext \subseteq Pairs
  BY FreeOneSlots
<1>2. UNCHANGED cpu_len
  BY DEF FreeOne
<1>3. ASSUME NEW j \in 1 .. Len(active')
      PROVE  FlashRowPair(row'[j], active'[j] \in Members(to_free'))
  <2>1. PairsNext \subseteq Pairs \cup {}
    BY <1>1
  <2>2. PICK i \in DOMAIN active : active'[j] = active[i] /\ row'[j] = row[i]
    BY <1>1, <2>1, PairOrigin
  <2>3. FlashRowPair(row[i], active[i] \in Members(to_free))
    BY SlotsFacts DEF FlashRowInv
  <2>4. active'[j] \in Members(active')
    BY <1>1, LenProperties DEF SlotsInv, Members
  <2>5. active'[j] \notin Members(to_free') => active[i] \notin Members(to_free)
    BY <1>1, <2>2, <2>4
  <2>6. QED
    BY <2>2, <2>3, <2>5 DEF FlashRowPair
<1>4. QED
  BY <1>2, <1>3 DEF FlashRowInv

\* FlashRowInv is inductive, given SlotsInv.
LEMMA NextFlashRows ==
  ASSUME SlotsInv, kind = "flash" => FlashRowInv, [Next]_vars
  PROVE  kind' = "flash" => FlashRowInv'
<1> SUFFICES ASSUME kind' = "flash" PROVE FlashRowInv'
  OBVIOUS
<1>0. kind = "flash" /\ FlashRowInv /\ UNCHANGED kind
  BY DEF Next, Tick, TickRaises, vars
<1>1. ASSUME UNCHANGED <<active, row, cpu_len, to_free>> PROVE FlashRowInv'
  BY <1>0, <1>1 DEF FlashRowInv
<1>2. CASE Tick
  <2>1. FlashTick
    BY <1>0, <1>2 DEF Tick
  <2>2. ASSUME TickEnd PROVE FlashRowInv'
    BY <1>1, <2>2 DEF TickEnd, slotVars
  <2>3. QED
    BY <1>0, <2>1, <2>2, AdmitFlashRows, StepFlashRows, FreeOneFlashRows DEF FlashTick
<1>3. CASE TickRaises
  <2>1. active' = <<>> /\ Len(<<>>) = 0
    BY <1>3, RaiseFacts, EmptyFacts DEF RaiseMoves
  <2>2. cpu_len' \in [Requests -> Nat]
    BY <1>0, <1>3, RaiseLengths DEF FlashRowInv
  <2>3. QED
    BY <2>1, <2>2 DEF FlashRowInv
<1>4. CASE UNCHANGED vars \/ Idle
  BY <1>1, <1>4 DEF vars, Idle, baseVars, slotVars
<1>5. ASSUME NEW r \in Requests, Submit(r) PROVE FlashRowInv'
  BY <1>1, <1>5 DEF Submit, slotVars
<1>6. QED
  BY <1>2, <1>3, <1>4, <1>5 DEF Next

\* Only requests are aborted or lost.
LEMMA NextEnds ==
  ASSUME SlotsInv, aborted \cup lost \subseteq Requests, [Next]_vars
  PROVE  aborted' \cup lost' \subseteq Requests
<1>1. CASE TickRaises
  <2>1. Members(active) \subseteq Requests /\ Members(waiting) \subseteq Requests
    BY SlotsFacts, MembersFacts DEF SlotsInv
  <2>2. QED
    BY <1>1, <2>1, RaiseFacts DEF RaiseMoves
<1>2. CASE ~TickRaises
  <2>1. UNCHANGED <<aborted, lost>>
    BY <1>2 DEF Next, Tick, FlashTick, TurboTick, FlashAdmit, TurboAdmit, FlashStep, TurboStep,
                FreeOne, TickEnd, Submit, Idle, vars, baseVars, endVars
  <2>2. QED
    BY <2>1
<1>3. QED
  BY <1>1, <1>2

\* The invariants behind TypeOK always hold.
LEMMA TypesAlways == Spec => []TypesInv
<1>1. Init => TypesInv
  <2> SUFFICES ASSUME Init PROVE TypesInv
    OBVIOUS
  <2>1. /\ active = <<>> /\ cpu_len = [r \in Requests |-> 0] /\ Len(<<>>) = 0
        /\ aborted = {} /\ lost = {}
    BY DEF Init, BaseInit
  <2>2. FlashRowInv
    BY <2>1 DEF FlashRowInv
  <2>3. QED
    BY <2>1, <2>2, InitSlots, InitHandoff, InitTurbo DEF TypesInv
<1>2. TypesInv /\ [Next]_vars => TypesInv'
  <2> SUFFICES ASSUME TypesInv, [Next]_vars PROVE TypesInv'
    OBVIOUS
  <2>1. SlotsInv' /\ HandoffTypes'
    BY NextSlots, NextTypes DEF TypesInv
  <2>2. aborted' \cup lost' \subseteq Requests
    BY NextEnds DEF TypesInv
  <2>3. kind' = "flash" => FlashRowInv'
    BY NextFlashRows DEF TypesInv
  <2>4. kind' = "turbo" => TurboInv'
    BY NextTurbo DEF TypesInv
  <2>5. QED
    BY <2>1, <2>2, <2>3, <2>4 DEF TypesInv
<1>3. QED
  BY <1>1, <1>2, PTL DEF Spec

\* A sequence whose elements are in a set is a sequence over that set.
LEMMA SeqOf ==
  ASSUME NEW X, NEW Y, NEW s \in Seq(X), \A i \in 1 .. Len(s) : s[i] \in Y
  PROVE  s \in Seq(Y)
<1>1. Len(s) \in Nat /\ s = [i \in 1 .. Len(s) |-> s[i]]
  BY LenProperties
<1>2. QED
  BY <1>1

(* Type correctness of both engines, the bounds of a Flash row and the length
   of a Turbo row included: no request writes past its row, whatever budgets
   and caps are. *)
THEOREM EngineTypes == Spec => []TypeOK
<1>1. TypesInv => TypeOK
  <2> SUFFICES ASSUME TypesInv PROVE TypeOK
    OBVIOUS
  <2>1. SlotsInv /\ HandoffTypes /\ aborted \cup lost \subseteq Requests
    BY DEF TypesInv
  <2>2. cpu_len \in [Requests -> Nat]
    BY <2>1 DEF TypesInv, SlotsInv, FlashRowInv, TurboInv
  <2>3. slot \in [Requests -> Slots \cup {NoSlot}]
    <3>1. Len(active) \in Nat /\ Len(active) <= MaxActive /\ MaxActive \in Nat
      BY <2>1, SlotsFacts, EngineAssumption DEF SlotsInv
    <3>2. ASSUME NEW r \in Requests PROVE slot[r] \in Slots \cup {NoSlot}
      <4>1. CASE r \in Members(active)
        <5>1. slot[r] \in 1 .. Len(active)
          BY <2>1, <4>1, SlotsFacts
        <5>2. QED
          BY <3>1, <5>1 DEF Slots
      <4>2. CASE r \notin Members(active)
        BY <2>1, <4>2 DEF SlotsInv, SlotsMatch
      <4>3. QED
        BY <4>1, <4>2
    <3>3. QED
      BY <2>1, <3>2 DEF SlotsInv
  <2>4. BaseTypeOK
    BY <2>1, <2>2, <2>3 DEF BaseTypeOK, SlotsInv, HandoffTypes
  <2>5. /\ row \in Seq(RowSet) /\ DOMAIN row = 1 .. Len(active) /\ Len(row) = Len(active)
        /\ Len(active) \in Nat
        /\ row = [i \in 1 .. Len(row) |-> row[i]]
    BY <2>1, SlotsFacts DEF SlotsInv
  <2>6. CASE kind = "turbo"
    <3>1. ASSUME NEW i \in 1 .. Len(row)
          PROVE  row[i] \in [owner : Requests, cache : 0 .. TurboL]
      <4>1. /\ active[i] \in Requests /\ row[i] \in [owner : Requests, cache : Nat]
            /\ TurboPair(active[i], row[i], cpu_len[active[i]], active[i] \in Members(to_free))
        BY <2>1, <2>5, <2>6, SlotsFacts DEF TypesInv, TurboInv, RowSet
      <4>2. row[i].cache \in Nat /\ row[i].cache + 1 <= Prefix[active[i]] + MaxSpeech + 1
        <5>1. /\ row[i].cache \in Nat /\ Prefix[active[i]] \in Nat /\ MaxSpeech \in Nat
          BY <4>1, EngineAssumption, TurboAssumption
        <5>2. QED
          BY <4>1, <5>1 DEF TurboPair
      <4>3. LongestPrefix \in Nat /\ Prefix[active[i]] <= LongestPrefix
            /\ Prefix[active[i]] \in Nat /\ MaxSpeech \in Nat
        BY <4>1, LongestPrefixFacts, TurboAssumption
      <4>4. row[i].cache \in 0 .. TurboL
        BY <4>2, <4>3 DEF TurboL
      <4>5. QED
        BY <4>1, <4>4
    <3>2. TurboTypeOK
      BY <2>5, <3>1, SeqOf DEF TurboTypeOK
    <3>3. QED
      BY <2>1, <2>4, <2>6, <3>2 DEF TypeOK
  <2>7. CASE kind = "flash"
    <3>1. \A i \in 1 .. Len(row) : row[i] \in FlashRow
      BY <2>5, <2>7 DEF TypesInv, FlashRowInv, FlashRowPair
    <3>2. FlashTypeOK
      BY <2>5, <3>1, SeqOf DEF FlashTypeOK
    <3>3. QED
      BY <2>1, <2>4, <2>7, <3>2 DEF TypeOK
  <2>8. QED
    BY <2>1, <2>6, <2>7 DEF SlotsInv
<1>2. QED
  BY <1>1, TypesAlways, PTL
=============================================================================
