------------------------ MODULE BlockDecodingProofs -------------------------
(***************************************************************************)
(* Offline generation for any calls, block sizes, page sizes and schedules *)
(* and for each of the three engines.                                      *)
(***************************************************************************)
EXTENDS BlockDecoding, QueueFacts, TLAPS, SequenceTheorems, FiniteSetTheorems

\* Rounding up to whole pages is enough, by the least number of them.
LEMMA CeilFacts ==
  ASSUME NEW a \in Nat, NEW b \in Nat \ {0}
  PROVE  /\ CeilDiv(a, b) \in Nat
         /\ CeilDiv(a, b) * b >= a /\ (CeilDiv(a, b) - 1) * b < a
         /\ a > 0 => CeilDiv(a, b) > 0
BY DEF CeilDiv

(* The largest of a sequence of numbers is one of them. *)
LEMMA LargestFacts ==
  ASSUME NEW s \in Seq(Nat \ {0}), Len(s) > 0
  PROVE  /\ Largest(s) \in Nat \ {0}
         /\ \A i \in 1 .. Len(s) : s[i] <= Largest(s)
<1> DEFINE Bounded(n) == \E i \in 1 .. n : \A j \in 1 .. n : s[j] <= s[i]
           T == {n \in 1 .. Len(s) : ~ Bounded(n)}
<1>0. /\ Len(s) \in Nat /\ Len(s) > 0 /\ DOMAIN s = 1 .. Len(s)
      /\ \A i \in 1 .. Len(s) : s[i] \in Nat \ {0}
  BY LenProperties, ElementOfSeq
<1>1. ASSUME T # {} PROVE FALSE
  <2>1. T \subseteq Nat
    BY <1>0
  <2>2. PICK n \in T : \A m \in T : n <= m
    <3> HIDE DEF T
    <3>1. QED
      BY <1>1, <2>1, LeastNat
  <2>3. n \in 1 .. Len(s) /\ ~ Bounded(n)
    OBVIOUS
  <2>4. n # 1
    <3>1. Bounded(1)
      BY <1>0
    <3>2. QED
      BY <2>3, <3>1
  <2>5. n - 1 \in 1 .. Len(s) /\ Bounded(n - 1)
    <3>1. n \in Nat /\ n - 1 \in 1 .. Len(s) /\ ~ (n <= n - 1)
      <4> HIDE DEF Bounded, T
      <4>1. QED
        BY <1>0, <2>3, <2>4
    <3>2. n - 1 \notin T
      <4> HIDE DEF T
      <4>1. QED
        BY <2>2, <3>1
    <3> HIDE DEF Bounded
    <3>3. QED
      BY <3>1, <3>2
  <2>6. PICK i \in 1 .. n - 1 : \A j \in 1 .. n - 1 : s[j] <= s[i]
    BY <2>5
  <2> HIDE DEF T
  <2>0. n \in Nat
    BY <1>0, <2>3
  <2>7. s[n] \in Nat /\ s[i] \in Nat /\ \A j \in 1 .. n - 1 : s[j] \in Nat
    <3> HIDE DEF Bounded
    <3>1. \A j \in 1 .. n - 1 : j \in 1 .. Len(s)
      BY <1>0, <2>0, <2>3
    <3>2. QED
      BY <1>0, <2>3, <3>1
  <2>8. \A j \in 1 .. n : j = n \/ j \in 1 .. n - 1
    BY <1>0, <2>3
  <2>9. CASE s[n] <= s[i]
    <3>1. \A j \in 1 .. n : s[j] <= s[i]
      BY <2>6, <2>8, <2>9
    <3>2. i \in 1 .. n
      BY <1>0, <2>3
    <3>3. QED
      BY <2>3, <3>1, <3>2
  <2>10. CASE ~ (s[n] <= s[i])
    <3>1. \A j \in 1 .. n - 1 : s[j] <= s[n]
      BY <2>0, <2>6, <2>7, <2>10
    <3>2. \A j \in 1 .. n : s[j] <= s[n]
      BY <2>0, <2>7, <2>8, <3>1
    <3>3. n \in 1 .. n
      BY <1>0, <2>3
    <3>4. QED
      BY <2>3, <3>2, <3>3
  <2>11. QED
    BY <2>9, <2>10
<1>2. Bounded(Len(s))
  <2>1. Len(s) \in 1 .. Len(s)
    BY <1>0
  <2>2. QED
    BY <1>1, <2>1
<1>3. PICK i \in 1 .. Len(s) : \A j \in 1 .. Len(s) : s[j] <= s[i]
  BY <1>2
<1> DEFINE V == {s[j] : j \in DOMAIN s}
<1>4. s[i] \in V /\ \A j \in DOMAIN s : s[j] <= s[i]
  BY <1>0, <1>3
<1>5. \E m \in V : \A j \in DOMAIN s : s[j] <= m
  BY <1>4
<1>6. Largest(s) = CHOOSE m \in V : \A j \in DOMAIN s : s[j] <= m
  BY DEF Largest
<1>7. Largest(s) \in V /\ \A j \in DOMAIN s : s[j] <= Largest(s)
  <2> HIDE DEF V
  <2>1. QED
    BY <1>5, <1>6
<1>8. QED
  BY <1>0, <1>7

\* The rows of a call, its blocks, and the positions it reserves.
LEMMA CallFacts ==
  ASSUME NEW b \in DOMAIN Workload, NEW c \in Workload[b]
  PROVE  /\ UserRows(c) \in Nat \ {0} /\ Rows(c) \in Nat \ {0}
         /\ Rows(c) = IF c.guided THEN UserRows(c) + UserRows(c) ELSE UserRows(c)
         /\ c # NoCall
         /\ SpeechLen(c) \in Nat \ {0} /\ NumBlocks(c) \in Nat \ {0}
         /\ NumBlocks(c) * BlockSize >= SpeechLen(c)
         /\ (NumBlocks(c) - 1) * BlockSize < SpeechLen(c)
         /\ \A r \in 1 .. Rows(c) : UserOf(c, r) \in 1 .. UserRows(c)
         /\ \A r \in 1 .. Rows(c) :
              PrefixLen(c, r) \in Nat /\ PrefixLen(c, r) + SpeechLen(c) <= Needed(c)
         /\ Needed(c) \in Nat \ {0}
<1>1. /\ c.prefix \in Seq(Nat \ {0}) /\ c.speech \in Seq(Nat \ {0})
      /\ Len(c.prefix) = Len(c.speech) /\ Len(c.prefix) > 0 /\ c.guided \in BOOLEAN
  BY WorkloadAssumption
<1>2. Len(c.prefix) \in Nat /\ \A i \in 1 .. Len(c.prefix) : c.prefix[i] \in Nat \ {0}
  BY <1>1, LenProperties, ElementOfSeq
<1>3. UserRows(c) \in Nat \ {0}
  BY <1>1, <1>2 DEF UserRows
<1>4. Rows(c) = IF c.guided THEN UserRows(c) + UserRows(c) ELSE UserRows(c)
  BY <1>3 DEF Rows
<1>5. c # NoCall
  <2>1. Len(NoCall.prefix) = 0
    BY EmptySeq DEF NoCall
  <2>2. QED
    BY <1>1, <2>1
<1>6. SpeechLen(c) \in Nat \ {0}
  BY <1>1, LargestFacts DEF SpeechLen
<1>7. /\ NumBlocks(c) \in Nat \ {0} /\ NumBlocks(c) * BlockSize >= SpeechLen(c)
      /\ (NumBlocks(c) - 1) * BlockSize < SpeechLen(c)
  BY <1>6, CeilFacts, BlockAssumption DEF NumBlocks
<1>8. \A r \in 1 .. Rows(c) : UserOf(c, r) \in 1 .. UserRows(c)
  BY <1>3, <1>4 DEF UserOf
<1>9. /\ Largest(c.prefix) \in Nat \ {0}
      /\ \A i \in 1 .. Len(c.prefix) : c.prefix[i] <= Largest(c.prefix)
  BY <1>1, LargestFacts
<1>10. Needed(c) = Largest(c.prefix) + SpeechLen(c) + Slack /\ Slack \in Nat
  BY BlockAssumption DEF Needed
<1>11. Needed(c) \in Nat \ {0}
  BY <1>6, <1>9, <1>10
<1>12. ASSUME NEW r \in 1 .. Rows(c)
       PROVE  PrefixLen(c, r) \in Nat /\ PrefixLen(c, r) + SpeechLen(c) <= Needed(c)
  <2>1. UserOf(c, r) \in 1 .. Len(c.prefix)
    BY <1>8 DEF UserRows
  <2>2. PrefixLen(c, r) \in Nat /\ PrefixLen(c, r) <= Largest(c.prefix)
    BY <2>1, <1>2, <1>9 DEF PrefixLen
  <2>3. QED
    BY <2>2, <1>6, <1>9, <1>10
<1>13. QED
  BY <1>3, <1>4, <1>5, <1>6, <1>7, <1>8, <1>11, <1>12

\* Each block of a call starts within its speech and ends there at the
\* latest.
LEMMA BlockFacts ==
  ASSUME NEW w \in DOMAIN Workload, NEW c \in Workload[w],
         NEW b \in Nat, b < NumBlocks(c)
  PROVE  /\ b * BlockSize \in Nat
         /\ BlockLen(c, b) \in 1 .. BlockSize
         /\ b * BlockSize + BlockLen(c, b) <= SpeechLen(c)
<1> DEFINE S == SpeechLen(c)
           N == NumBlocks(c)
           B == BlockSize
<1>1. S \in Nat \ {0} /\ N \in Nat \ {0} /\ (N - 1) * B < S
  BY CallFacts
<1>2. B \in Nat \ {0}
  BY BlockAssumption
<1>3. BlockLen(c, b) = (IF (b + 1) * B < S THEN (b + 1) * B ELSE S) - b * B
  BY DEF BlockLen
<1> HIDE DEF S, N, B
<1>4. b <= N - 1
  BY <1>1 DEF N
<1>5. b * B <= (N - 1) * B /\ b * B \in Nat
  BY <1>1, <1>2, <1>4
<1>6. (b + 1) * B = b * B + B
  BY <1>2
<1>7. QED
  BY <1>1, <1>2, <1>3, <1>5, <1>6 DEF S, B

-----------------------------------------------------------------------------
(* The engines: what an operation keeps. *)

FIFields == {"maxSeq", "batch", "perRow", "kv", "lens", "rope", "graph", "planKey",
             "writeAt", "readLen", "gShift", "seen", "out"}
Fields(b) ==
  IF b = "flashinfer" THEN FIFields
  ELSE IF b = "torch" THEN {"maxSeq", "batch", "graph", "cache", "lens", "seen", "out"}
  ELSE {"maxSeq", "batch", "graph", "cache", "own", "lens", "seen", "out"}

Shaped(b, e) == DOMAIN e = Fields(b) /\ (b # "flashinfer" => ~ e.graph)
Sized(b, maxSeq, batch, e) ==
  Shaped(b, e) /\ e.maxSeq = maxSeq /\ e.batch = batch


(* The pages of a FlashInfer engine, whose speech is in them, and its plan. *)
Paged(e) ==
  /\ e.perRow = CeilDiv(e.maxSeq, PageSize)
  /\ DOMAIN e.kv = (0 .. e.batch * e.perRow - 1) \X (0 .. PageSize - 1)
Plain(e) == \A s \in DOMAIN e.kv : e.kv[s].tok \notin SpeechTokens
Owned(e) == \A s \in DOMAIN e.kv :
  e.kv[s].tok \in SpeechTokens => e.kv[s].src = s[1] \div e.perRow + 1
PlanKept(e) == e.planKey = FI!NoKey \/ e.writeAt = e.planKey.at

\* An engine whose cells hold no speech has none in a wrong place.
LEMMA PlainOwned == ASSUME NEW e, Plain(e) PROVE Owned(e)
BY DEF Plain, Owned

\* A new engine has the size it is built for and holds no speech.
LEMMA NewEngineFacts ==
  ASSUME NEW b \in {"flashinfer", "torch", "mlx"}, NEW m, NEW n
  PROVE  /\ Sized(b, m, n, Build(b, m, n))
         /\ b = "flashinfer" => /\ Paged(Build(b, m, n)) /\ Plain(Build(b, m, n))
                                /\ PlanKept(Build(b, m, n))
<1>1. CASE b = "flashinfer"
  <2>1. Build(b, m, n) = FI!NewEngine(m, n)
    BY <1>1 DEF Build
  <2>2. Sized(b, m, n, FI!NewEngine(m, n))
    BY <1>1 DEF FI!NewEngine, Sized, Shaped, Fields, FIFields
  <2>3. Paged(FI!NewEngine(m, n)) /\ PlanKept(FI!NewEngine(m, n))
    BY DEF FI!NewEngine, Paged, PlanKept, FI!CeilDiv, CeilDiv
  <2>4. Plain(FI!NewEngine(m, n))
    BY DEF FI!NewEngine, Plain, FI!Stale, FI!Cell, SpeechTokens
  <2>5. QED
    BY <2>1, <2>2, <2>3, <2>4
<1>2. CASE b = "torch"
  BY <1>2 DEF Build, Torch!NewEngine, Sized, Shaped, Fields
<1>3. CASE b = "mlx"
  BY <1>3 DEF Build, MLX!NewEngine, Sized, Shaped, Fields
<1>4. QED
  BY <1>1, <1>2, <1>3

\* reset keeps the engine's size and its pages, and leaves no speech in them.
LEMMA ResetFacts ==
  ASSUME NEW b \in {"flashinfer", "torch", "mlx"}, NEW e, Shaped(b, e)
  PROVE  /\ Sized(b, e.maxSeq, e.batch, Reset(b, e))
         /\ b = "flashinfer" /\ Paged(e) =>
              Paged(Reset(b, e)) /\ Plain(Reset(b, e)) /\ PlanKept(Reset(b, e))
<1>1. CASE b = "flashinfer"
  <2> DEFINE f == FI!Reset(e)
  <2>1. Reset(b, e) = f /\ DOMAIN e = FIFields
    BY <1>1 DEF Reset, Shaped, Fields
  <2>2. /\ DOMAIN f = FIFields /\ f.maxSeq = e.maxSeq /\ f.batch = e.batch
        /\ f.perRow = e.perRow /\ f.planKey = FI!NoKey
        /\ f.kv = [s \in DOMAIN e.kv |-> FI!Stale]
    BY <2>1 DEF FI!Reset, FIFields
  <2> HIDE DEF f
  <2>3. FI!Stale.tok \notin SpeechTokens
    BY DEF FI!Stale, FI!Cell, SpeechTokens
  <2>4. QED
    BY <1>1, <2>1, <2>2, <2>3 DEF Sized, Shaped, Fields, Paged, Plain, PlanKept
<1>2. CASE b = "torch"
  BY <1>2 DEF Reset, Torch!Reset, Torch!NewEngine, Sized, Shaped, Fields
<1>3. CASE b = "mlx"
  BY <1>3 DEF Reset, MLX!Reset, MLX!NewEngine, Sized, Shaped, Fields
<1>4. QED
  BY <1>1, <1>2, <1>3

(* Cells that are not speech may be written anywhere. *)
LEMMA WrittenPlain ==
  ASSUME NEW e, NEW at, NEW cells, Plain(e),
         \A r \in DOMAIN cells : \A i \in DOMAIN cells[r] : cells[r][i].tok \notin SpeechTokens
  PROVE  /\ DOMAIN FI!Written(e, at, cells) = DOMAIN e.kv
         /\ \A s \in DOMAIN e.kv : FI!Written(e, at, cells)[s].tok \notin SpeechTokens
<1> DEFINE writes == UNION {{<<r, i>> : i \in DOMAIN cells[r]} : r \in DOMAIN cells}
           slot(w) == FI!SlotOf(e.perRow, w[1], at[w[1]] + w[2] - 1)
           hits == {slot(w) : w \in writes}
           W == FI!Written(e, at, cells)
<1>1. W = [s \in DOMAIN e.kv |->
             IF s \in hits
               THEN LET w == CHOOSE x \in writes : slot(x) = s IN cells[w[1]][w[2]]
               ELSE e.kv[s]]
  BY DEF FI!Written
<1> HIDE DEF W
<1>2. ASSUME NEW s \in DOMAIN e.kv PROVE W[s].tok \notin SpeechTokens
  <2>1. CASE s \notin hits
    BY <1>1, <2>1 DEF Plain
  <2>2. CASE s \in hits
    <3> DEFINE w == CHOOSE x \in writes : slot(x) = s
    <3>1. \E x \in writes : slot(x) = s
      BY <2>2
    <3>2. w \in writes
      <4> HIDE DEF writes, slot
      <4>1. QED
        BY <3>1
    <3>3. W[s] = cells[w[1]][w[2]]
      BY <1>1, <2>2
    <3> HIDE DEF w
    <3>4. PICK r \in DOMAIN cells : \E i \in DOMAIN cells[r] : w = <<r, i>>
      BY <3>2
    <3>5. QED
      BY <3>3, <3>4
  <2>3. QED
    BY <2>1, <2>2
<1>3. QED
  BY <1>1, <1>2 DEF W

\* A position within the pages of row r is in a page of row r.
LEMMA DivFacts ==
  ASSUME NEW P \in Nat \ {0}, NEW r \in Nat \ {0}, NEW pos \in Nat,
         pos < P * PageSize
  PROVE  ((r - 1) * P + pos \div PageSize) \div P + 1 = r
<1> DEFINE q == pos \div PageSize
<1>1. PageSize \in Nat \ {0}
  BY BlockAssumption
<1>2. q \in Nat /\ q * PageSize <= pos
  BY <1>1
<1> HIDE DEF q
<1>3. q < P
  BY <1>1, <1>2
<1>4. ((r - 1) * P + q) \div P = r - 1
  BY <1>2, <1>3
<1>5. QED
  BY <1>4 DEF q

(* Speech that is written within the pages of its row is in them. *)
LEMMA WrittenOwned ==
  ASSUME NEW e, NEW at, NEW cells, Owned(e), e.perRow \in Nat \ {0},
         \A r \in DOMAIN cells : r \in Nat \ {0} /\ \A i \in DOMAIN cells[r] :
           /\ cells[r][i].src = r
           /\ at[r] + i - 1 \in Nat /\ at[r] + i - 1 < e.perRow * PageSize
  PROVE  \A s \in DOMAIN e.kv : FI!Written(e, at, cells)[s].tok \in SpeechTokens =>
           FI!Written(e, at, cells)[s].src = s[1] \div e.perRow + 1
<1> DEFINE writes == UNION {{<<r, i>> : i \in DOMAIN cells[r]} : r \in DOMAIN cells}
           slot(w) == FI!SlotOf(e.perRow, w[1], at[w[1]] + w[2] - 1)
           hits == {slot(w) : w \in writes}
           W == FI!Written(e, at, cells)
<1>1. W = [s \in DOMAIN e.kv |->
             IF s \in hits
               THEN LET w == CHOOSE x \in writes : slot(x) = s IN cells[w[1]][w[2]]
               ELSE e.kv[s]]
  BY DEF FI!Written
<1> HIDE DEF W
<1>2. ASSUME NEW s \in DOMAIN e.kv, W[s].tok \in SpeechTokens
      PROVE  W[s].src = s[1] \div e.perRow + 1
  <2>1. CASE s \notin hits
    BY <1>1, <1>2, <2>1 DEF Owned
  <2>2. CASE s \in hits
    <3> DEFINE w == CHOOSE x \in writes : slot(x) = s
    <3>1. \E x \in writes : slot(x) = s
      BY <2>2
    <3>2. w \in writes /\ slot(w) = s
      <4> HIDE DEF writes, slot
      <4>1. QED
        BY <3>1
    <3>3. W[s] = cells[w[1]][w[2]]
      BY <1>1, <2>2
    <3> HIDE DEF w
    <3>4. PICK r \in DOMAIN cells : \E i \in DOMAIN cells[r] : w = <<r, i>>
      BY <3>2
    <3>5. PICK i \in DOMAIN cells[r] : w = <<r, i>>
      BY <3>4
    <3>6. W[s].src = r
      BY <3>3, <3>5
    <3>7. s[1] = (r - 1) * e.perRow + (at[r] + i - 1) \div PageSize
      BY <3>2, <3>5 DEF FI!SlotOf
    <3>8. QED
      BY <3>5, <3>6, <3>7, DivFacts
  <2>3. QED
    BY <2>1, <2>2
<1>3. QED
  BY <1>2 DEF W

\* One pass writes the cells of its rows and changes nothing else of the
\* engine.
LEMMA PassFacts ==
  ASSUME NEW e, NEW toks, NEW at, NEW readLen, NEW rope, DOMAIN e = FIFields
  PROVE  LET f == FI!Pass(e, toks, at, readLen, rope)
             cells == [r \in DOMAIN toks |-> FI!BlockCells(r, toks[r], rope[r])]
         IN /\ DOMAIN f = FIFields /\ f.maxSeq = e.maxSeq /\ f.batch = e.batch
            /\ f.perRow = e.perRow /\ f.planKey = e.planKey /\ f.writeAt = e.writeAt
            /\ f.kv = FI!Written(e, at, cells) /\ DOMAIN f.kv = DOMAIN e.kv
            /\ f.out = cells
<1> DEFINE f == FI!Pass(e, toks, at, readLen, rope)
           cells == [r \in DOMAIN toks |-> FI!BlockCells(r, toks[r], rope[r])]
<1>1. /\ DOMAIN f = FIFields /\ f.maxSeq = e.maxSeq /\ f.batch = e.batch
      /\ f.perRow = e.perRow /\ f.planKey = e.planKey /\ f.writeAt = e.writeAt
      /\ f.kv = FI!Written(e, at, cells) /\ f.out = cells
  BY DEF FI!Pass, FIFields
<1>2. DOMAIN FI!Written(e, at, cells) = DOMAIN e.kv
  BY DEF FI!Written
<1>3. QED
  BY <1>1, <1>2

(* The prefix is not speech: no speech is in the pages when a call starts. *)
LEMMA PrefixFacts ==
  ASSUME NEW b \in {"flashinfer", "torch", "mlx"}, NEW e, NEW list, NEW ps,
         Shaped(b, e)
  PROVE  /\ Sized(b, e.maxSeq, e.batch, PrefixForward(b, e, list, ps))
         /\ b = "flashinfer" /\ Paged(e) /\ Plain(e) /\ PlanKept(e)
              /\ e.batch \in Nat \ {0} /\ e.perRow \in Nat \ {0} =>
              /\ Paged(PrefixForward(b, e, list, ps))
              /\ Plain(PrefixForward(b, e, list, ps))
              /\ PlanKept(PrefixForward(b, e, list, ps))
<1>1. CASE b = "flashinfer"
  <2> DEFINE f == FI!PrefixForward(e, list, ps)
             one == FI!PrefixRow(e, 1, ps[1])
             batched == FI!PrefixBatched(e, ps)
             shared == FI!PrefixShared(e, ps[1])
             rowAt == [x \in {1} |-> 0]
             rowCells == [x \in {1} |-> FI!PrefixCells(ps[1])]
             allAt == [r \in DOMAIN ps |-> 0]
             allCells == [r \in DOMAIN ps |-> FI!PrefixCells(ps[r])]
             copied == FI!CeilDiv(ps[1].len, PageSize)
  <2>1. DOMAIN e = FIFields /\ PrefixForward(b, e, list, ps) = f
        /\ (f = batched \/ f = shared)
    BY <1>1 DEF Shaped, Fields, PrefixForward, FI!PrefixForward
  <2>2. /\ DOMAIN batched = FIFields /\ batched.maxSeq = e.maxSeq
        /\ batched.batch = e.batch /\ batched.perRow = e.perRow
        /\ batched.planKey = e.planKey /\ batched.writeAt = e.writeAt
        /\ batched.kv = FI!Written(e, allAt, allCells)
    BY <2>1 DEF FI!PrefixBatched, FIFields
  <2>3. /\ DOMAIN one = FIFields /\ one.maxSeq = e.maxSeq
        /\ one.batch = e.batch /\ one.perRow = e.perRow
        /\ one.planKey = e.planKey /\ one.writeAt = e.writeAt
        /\ one.kv = FI!Written(e, rowAt, rowCells)
    BY <2>1 DEF FI!PrefixRow, FIFields
  <2>4. /\ DOMAIN shared = FIFields /\ shared.maxSeq = e.maxSeq
        /\ shared.batch = e.batch /\ shared.perRow = e.perRow
        /\ shared.planKey = e.planKey /\ shared.writeAt = e.writeAt
        /\ shared.kv = [s \in DOMAIN e.kv |->
                          IF s[1] % e.perRow < copied
                            THEN one.kv[<<s[1] % e.perRow, s[2]>>] ELSE one.kv[s]]
    <3> HIDE DEF one
    <3>1. shared = [one EXCEPT
            !.kv = [s \in DOMAIN e.kv |->
                      IF s[1] % e.perRow < copied
                        THEN one.kv[<<s[1] % e.perRow, s[2]>>] ELSE one.kv[s]],
            !.lens = [r \in 1 .. e.batch |-> ps[1].len]]
      BY DEF one, FI!PrefixShared
    <3>2. QED
      BY <2>3, <3>1 DEF FIFields
  <2>5. \A p : \A i \in DOMAIN FI!PrefixCells(p) : FI!PrefixCells(p)[i].tok \notin SpeechTokens
    BY DEF FI!PrefixCells, FI!Cell, SpeechTokens
  <2>6. /\ \A r \in DOMAIN allCells : \A i \in DOMAIN allCells[r] :
             allCells[r][i].tok \notin SpeechTokens
        /\ \A r \in DOMAIN rowCells : \A i \in DOMAIN rowCells[r] :
             rowCells[r][i].tok \notin SpeechTokens
    BY <2>5
  <2> HIDE DEF f, one, batched, shared, rowAt, rowCells, allAt, allCells, copied
  <2>7. Sized(b, e.maxSeq, e.batch, f)
    BY <1>1, <2>1, <2>2, <2>4 DEF Sized, Shaped, Fields
  <2>8. ASSUME Paged(e), Plain(e), PlanKept(e),
               e.batch \in Nat \ {0}, e.perRow \in Nat \ {0}
        PROVE  Paged(f) /\ Plain(f) /\ PlanKept(f)
    <3>1. CASE f = batched
      <4>1. DOMAIN batched.kv = DOMAIN e.kv /\ Plain(batched)
        BY <2>2, <2>6, <2>8, WrittenPlain DEF Plain
      <4>2. QED
        BY <3>1, <4>1, <2>2, <2>8 DEF Paged, PlanKept
    <3>2. CASE f = shared
      <4>1. \A s \in DOMAIN e.kv : one.kv[s].tok \notin SpeechTokens
        BY <2>3, <2>6, <2>8, WrittenPlain
      <4>2. \A s \in DOMAIN e.kv : <<s[1] % e.perRow, s[2]>> \in DOMAIN e.kv
        <5>1. e.perRow <= e.batch * e.perRow
          BY <2>8
        <5>2. \A x \in 0 .. e.batch * e.perRow - 1 :
                x % e.perRow \in 0 .. e.batch * e.perRow - 1
          BY <2>8, <5>1
        <5>3. QED
          BY <2>8, <5>2 DEF Paged
      <4>3. DOMAIN shared.kv = DOMAIN e.kv /\ Plain(shared)
        BY <2>4, <4>1, <4>2 DEF Plain
      <4>4. QED
        BY <3>2, <4>3, <2>4, <2>8 DEF Paged, PlanKept
    <3>3. QED
      BY <2>1, <3>1, <3>2
  <2>9. QED
    BY <2>1, <2>7, <2>8
<1>2. CASE b = "torch"
  BY <1>2 DEF PrefixForward, Torch!PrefixForward, Torch!PrefixRagged, Sized, Shaped, Fields
<1>3. CASE b = "mlx"
  BY <1>3 DEF PrefixForward, MLX!PrefixForward, MLX!PrefixRagged, Sized, Shaped, Fields
<1>4. QED
  BY <1>1, <1>2, <1>3

(* Nor is what the capture of a graph writes. *)
LEMMA CaptureFacts ==
  ASSUME NEW b \in {"flashinfer", "torch", "mlx"}, NEW e, Shaped(b, e)
  PROVE  /\ Sized(b, e.maxSeq, e.batch, Capture(b, e))
         /\ b = "flashinfer" /\ Paged(e) /\ Plain(e) /\ PlanKept(e) =>
              Paged(Capture(b, e)) /\ Plain(Capture(b, e)) /\ PlanKept(Capture(b, e))
<1>1. CASE b # "flashinfer" \/ e.graph
  BY <1>1 DEF Capture, FI!CaptureGraph, Sized
<1>2. CASE b = "flashinfer" /\ ~ e.graph
  <2> DEFINE zeros == [r \in 1 .. e.batch |-> [i \in 1 .. BlockSize |-> "warmup"]]
             starts == [list |-> TRUE, at |-> e.lens]
             p == FI!PlanGraph(e, starts, BlockSize)
             g == FI!GraphBody(p, zeros)
             f == [g EXCEPT !.graph = TRUE]
             cells == [r \in DOMAIN zeros |-> FI!BlockCells(r, zeros[r], p.rope[r])]
  <2>1. DOMAIN e = FIFields /\ Capture(b, e) = f
    BY <1>2 DEF Shaped, Fields, Capture, FI!CaptureGraph
  <2>2. /\ DOMAIN p = FIFields /\ p.maxSeq = e.maxSeq /\ p.batch = e.batch
        /\ p.perRow = e.perRow /\ p.kv = e.kv
        /\ p.planKey = starts /\ p.writeAt = starts.at
    BY <2>1 DEF FI!PlanGraph, FIFields
  <2>3. \A r \in DOMAIN cells : \A i \in DOMAIN cells[r] : cells[r][i].tok \notin SpeechTokens
    BY DEF FI!BlockCells, FI!Cell, SpeechTokens
  <2> HIDE DEF p, zeros, starts
  <2>4. /\ DOMAIN g = FIFields /\ g.maxSeq = p.maxSeq /\ g.batch = p.batch
        /\ g.perRow = p.perRow /\ g.planKey = p.planKey /\ g.writeAt = p.writeAt
        /\ g.kv = FI!Written(p, p.writeAt, cells) /\ DOMAIN g.kv = DOMAIN p.kv
    BY <2>2, PassFacts DEF FI!GraphBody
  <2> HIDE DEF g, cells
  <2>5. /\ DOMAIN f = FIFields /\ f.maxSeq = e.maxSeq /\ f.batch = e.batch
        /\ f.perRow = e.perRow /\ f.planKey = starts /\ f.writeAt = starts.at
        /\ f.kv = g.kv
    BY <2>2, <2>4 DEF FIFields
  <2> HIDE DEF f
  <2>6. ASSUME Plain(e) PROVE Plain(f)
    <3>1. Plain(p)
      BY <2>2, <2>6 DEF Plain
    <3>2. QED
      BY <3>1, <2>3, <2>4, <2>5, WrittenPlain DEF Plain
  <2>7. Paged(e) => Paged(f)
    BY <2>2, <2>4, <2>5 DEF Paged
  <2>8. QED
    BY <1>2, <2>1, <2>5, <2>6, <2>7 DEF Sized, Shaped, Fields, PlanKept
<1>3. QED
  BY <1>1, <1>2

(* Every token of a block lies within the pages of its row. *)
Fits(e, toks, at) == \A r \in DOMAIN toks : r \in Nat \ {0} /\ \A i \in DOMAIN toks[r] :
  at[r] + i - 1 \in Nat /\ at[r] + i - 1 < e.perRow * PageSize

\* A pass whose tokens lie within the pages of their rows keeps speech with
\* its owner.
LEMMA PassOwned ==
  ASSUME NEW e, NEW toks, NEW at, NEW readLen, NEW rope, DOMAIN e = FIFields,
         Paged(e), Owned(e), e.perRow \in Nat \ {0}, Fits(e, toks, at)
  PROVE  LET f == FI!Pass(e, toks, at, readLen, rope)
         IN /\ Sized("flashinfer", e.maxSeq, e.batch, f) /\ Paged(f) /\ Owned(f)
            /\ f.planKey = e.planKey /\ f.writeAt = e.writeAt
<1> DEFINE f == FI!Pass(e, toks, at, readLen, rope)
           cells == [r \in DOMAIN toks |-> FI!BlockCells(r, toks[r], rope[r])]
<1>1. /\ DOMAIN f = FIFields /\ f.maxSeq = e.maxSeq /\ f.batch = e.batch
      /\ f.perRow = e.perRow /\ f.planKey = e.planKey /\ f.writeAt = e.writeAt
      /\ f.kv = FI!Written(e, at, cells) /\ DOMAIN f.kv = DOMAIN e.kv
  BY PassFacts
<1>2. \A r \in DOMAIN cells : r \in Nat \ {0} /\ \A i \in DOMAIN cells[r] :
        /\ cells[r][i].src = r
        /\ at[r] + i - 1 \in Nat /\ at[r] + i - 1 < e.perRow * PageSize
  BY DEF Fits, FI!BlockCells, FI!Cell
<1> HIDE DEF f, cells
<1>3. \A s \in DOMAIN e.kv : FI!Written(e, at, cells)[s].tok \in SpeechTokens =>
        FI!Written(e, at, cells)[s].src = s[1] \div e.perRow + 1
  BY <1>2, WrittenOwned
<1>4. Owned(f)
  BY <1>1, <1>3 DEF Owned
<1>5. QED
  BY <1>1, <1>4 DEF Sized, Shaped, Fields, Paged, f

\* A forward keeps the engine's size, and the speech of each row in its
\* pages.
LEMMA ForwardFacts ==
  ASSUME NEW b \in {"flashinfer", "torch", "mlx"}, NEW e, NEW toks, NEW starts,
         Shaped(b, e)
  PROVE  LET f == BlockForward(b, e, toks, starts)
         IN /\ Sized(b, e.maxSeq, e.batch, f)
            /\ b = "flashinfer" /\ Paged(e) /\ Owned(e) /\ PlanKept(e)
                 /\ e.perRow \in Nat \ {0} /\ Fits(e, toks, starts.at) =>
                 Paged(f) /\ Owned(f) /\ PlanKept(f)
<1>1. CASE b = "flashinfer"
  <2> DEFINE ends == FI!Ends(starts.at, Len(toks[1]))
             f == FI!Pass(e, toks, starts.at, ends, starts.at)
  <2>1. BlockForward(b, e, toks, starts) = f /\ DOMAIN e = FIFields
    BY <1>1 DEF BlockForward, FI!BlockForward, Shaped, Fields
  <2> HIDE DEF ends
  <2>2. Sized(b, e.maxSeq, e.batch, f)
    <3>1. DOMAIN f = FIFields /\ f.maxSeq = e.maxSeq /\ f.batch = e.batch
      BY <2>1 DEF FI!Pass, FIFields
    <3> HIDE DEF f
    <3>2. QED
      BY <1>1, <3>1 DEF Sized, Shaped, Fields
  <2>3. ASSUME Paged(e), Owned(e), PlanKept(e), e.perRow \in Nat \ {0},
               Fits(e, toks, starts.at)
        PROVE  Paged(f) /\ Owned(f) /\ PlanKept(f)
    <3>1. Paged(f) /\ Owned(f) /\ f.planKey = e.planKey /\ f.writeAt = e.writeAt
      BY <2>1, <2>3, PassOwned
    <3> HIDE DEF f
    <3>2. QED
      BY <2>3, <3>1 DEF PlanKept
  <2> HIDE DEF f
  <2>4. QED
    BY <2>1, <2>2, <2>3
<1>2. CASE b = "torch"
  BY <1>2 DEF BlockForward, Torch!BlockForward, Sized, Shaped, Fields
<1>3. CASE b = "mlx"
  BY <1>3 DEF BlockForward, MLX!BlockForward, Sized, Shaped, Fields
<1>4. QED
  BY <1>1, <1>2, <1>3

(* A replay writes where the last plan says, which is where this block starts. *)
LEMMA GraphFacts ==
  ASSUME NEW e, NEW toks, NEW starts, NEW ctx, DOMAIN e = FIFields,
         Paged(e), Owned(e), PlanKept(e), e.perRow \in Nat \ {0},
         Fits(e, toks, starts.at), starts # FI!NoKey
  PROVE  LET f == FI!BlockForwardGraph(e, toks, starts)
         IN Sized("flashinfer", e.maxSeq, e.batch, f) /\ Paged(f) /\ Owned(f) /\ PlanKept(f)
<1> DEFINE p == IF starts # e.planKey THEN FI!PlanGraph(e, starts, Len(toks[1])) ELSE e
           f == FI!Pass(p, toks, p.writeAt, p.readLen, p.rope)
<1>1. FI!BlockForwardGraph(e, toks, starts) = f
  BY DEF FI!BlockForwardGraph, FI!GraphBody
<1>2. /\ DOMAIN p = FIFields /\ p.maxSeq = e.maxSeq /\ p.batch = e.batch
      /\ p.perRow = e.perRow /\ p.kv = e.kv
      /\ p.planKey = starts /\ p.writeAt = starts.at
  <2>1. CASE starts # e.planKey
    BY <2>1 DEF FI!PlanGraph, FIFields
  <2>2. CASE starts = e.planKey
    BY <2>2 DEF PlanKept
  <2>3. QED
    BY <2>1, <2>2
<1> HIDE DEF p
<1>3. Paged(p) /\ Owned(p) /\ p.perRow \in Nat \ {0} /\ Fits(p, toks, p.writeAt)
  BY <1>2 DEF Paged, Owned, Fits
<1>4. /\ Sized("flashinfer", p.maxSeq, p.batch, f) /\ Paged(f) /\ Owned(f)
      /\ f.planKey = p.planKey /\ f.writeAt = p.writeAt
  BY <1>2, <1>3, PassOwned
<1> HIDE DEF f
<1>5. QED
  BY <1>1, <1>2, <1>4 DEF PlanKept

\* advance_cache keeps the engine's size and writes nothing.
LEMMA AdvanceFacts ==
  ASSUME NEW b \in {"flashinfer", "torch", "mlx"}, NEW e, NEW bl, Shaped(b, e)
  PROVE  LET f == AdvanceCache(b, e, bl)
         IN /\ Sized(b, e.maxSeq, e.batch, f)
            /\ b = "flashinfer" /\ Paged(e) /\ Owned(e) /\ PlanKept(e) =>
                 Paged(f) /\ Owned(f) /\ PlanKept(f)
<1>1. CASE b = "flashinfer"
  <2> DEFINE f == FI!AdvanceCache(e, bl)
  <2>1. /\ AdvanceCache(b, e, bl) = f
        /\ DOMAIN f = FIFields /\ f.maxSeq = e.maxSeq /\ f.batch = e.batch
        /\ f.perRow = e.perRow /\ f.kv = e.kv
        /\ f.planKey = e.planKey /\ f.writeAt = e.writeAt
    BY <1>1 DEF AdvanceCache, FI!AdvanceCache, Shaped, Fields, FIFields
  <2> HIDE DEF f
  <2>2. QED
    BY <1>1, <2>1 DEF Sized, Shaped, Fields, Paged, Owned, PlanKept
<1>2. CASE b = "torch"
  BY <1>2 DEF AdvanceCache, Torch!AdvanceCache, Sized, Shaped, Fields
<1>3. CASE b = "mlx"
  BY <1>3 DEF AdvanceCache, MLX!AdvanceCache, Sized, Shaped, Fields
<1>4. QED
  BY <1>1, <1>2, <1>3

-----------------------------------------------------------------------------
(* The invariant: the type of the loop's variables, the mirrored rows, the *)
(* shape of the engine and, while a call has one, the pages of FlashInfer. *)

EngineOK ==
  /\ call = NoCall => engine = NoEngine
  /\ call # NoCall =>
       /\ Shaped(backend, engine) /\ engine.maxSeq \in Nat
       /\ backend = "flashinfer" => Paged(engine) /\ PlanKept(engine) /\ Owned(engine)

BInv == TypeOK /\ NullRowsMirror /\ EngineOK

\* No call has been made initially.
LEMMA InitBInv == Init => BInv
<1> SUFFICES ASSUME Init PROVE BInv
  OBVIOUS
<1>1. 0 \in 0 .. NumSteps - 1
  BY BlockAssumption
<1>2. QED
  BY <1>1 DEF Init, BInv, TypeOK, NullRowsMirror, EngineOK

(* The page of a position that fits P pages is one of them. *)
LEMMA PageBelow ==
  ASSUME NEW i \in Nat, NEW P \in Nat, NEW s \in Nat \ {0}, i < P * s,
         NEW q \in Nat, q * s <= i
  PROVE  q < P
<1>1. SUFFICES ASSUME q >= P PROVE FALSE
  OBVIOUS
<1>2. PICK d \in Nat : q = P + d
  <2>1. q - P \in Nat /\ q = P + (q - P)
    BY <1>1
  <2>2. QED
    BY <2>1
<1>3. q * s = P * s + d * s /\ d * s \in Nat /\ P * s \in Nat
  BY <1>2
<1>4. QED
  BY <1>3

(* The rows hold a page each at least, and no more than maxSeq positions. *)
LEMMA PagesFacts ==
  ASSUME NEW e, Paged(e), e.maxSeq \in Nat \ {0}
  PROVE  e.perRow \in Nat \ {0} /\ e.maxSeq <= e.perRow * PageSize
<1> DEFINE m == e.maxSeq
           P == CeilDiv(m, PageSize)
<1>1. e.perRow = P /\ m \in Nat /\ m > 0 /\ PageSize \in Nat \ {0}
  BY BlockAssumption DEF Paged
<1> HIDE DEF m
<1>2. P \in Nat /\ P * PageSize >= m /\ P > 0
  BY <1>1, CeilFacts
<1> HIDE DEF P
<1> DEFINE room == P * PageSize
<1>3. room = e.perRow * PageSize /\ room \in Nat
  BY <1>1, <1>2
<1> HIDE DEF room
<1>4. m <= room /\ P \in Nat \ {0}
  BY <1>1, <1>2, <1>3 DEF room
<1>5. QED
  BY <1>1, <1>3, <1>4 DEF m

(* The engine a call starts with is large enough and holds no speech. *)
LEMMA EngineForFacts ==
  ASSUME BInv, NEW c \in Workload[backend]
  PROVE  /\ Shaped(backend, EngineFor(c)) /\ EngineFor(c).batch = Rows(c)
         /\ EngineFor(c).maxSeq \in Nat /\ EngineFor(c).maxSeq >= Needed(c)
         /\ backend = "flashinfer" =>
              Paged(EngineFor(c)) /\ Plain(EngineFor(c)) /\ PlanKept(EngineFor(c))
<1>1. backend \in DOMAIN Workload /\ backend \in {"flashinfer", "torch", "mlx"}
  BY BackendAssumption DEF BInv, TypeOK
<1>2. Needed(c) \in Nat \ {0}
  BY <1>1, CallFacts
<1>3. CASE engine # NoEngine /\ CanReuse(backend, engine, Needed(c), Rows(c))
  <2>1. EngineFor(c) = Reset(backend, engine)
    BY <1>3 DEF EngineFor
  <2>2. /\ Shaped(backend, engine) /\ engine.maxSeq \in Nat
        /\ backend = "flashinfer" => Paged(engine)
    BY <1>3 DEF BInv, EngineOK
  <2>3. engine.maxSeq >= Needed(c) /\ engine.batch = Rows(c)
    BY <1>1, <1>3 DEF CanReuse, FI!CanReuse, Torch!CanReuse, MLX!CanReuse
  <2>4. QED
    BY <1>1, <2>1, <2>2, <2>3, ResetFacts DEF Sized, Shaped
<1>4. CASE ~ (engine # NoEngine /\ CanReuse(backend, engine, Needed(c), Rows(c)))
  <2>1. EngineFor(c) = Build(backend, Allocated(c), Rows(c))
    BY <1>4 DEF EngineFor
  <2>2. Allocated(c) \in Nat /\ Allocated(c) >= Needed(c)
    <3> DEFINE grown == CeilDiv(Needed(c), Bucket) * Bucket
               half == (engine.maxSeq * 3) \div 2
    <3>1. grown \in Nat /\ grown >= Needed(c)
      BY <1>2, CeilFacts, BlockAssumption
    <3>2. CASE engine # NoEngine
      <4>1. engine.maxSeq \in Nat
        BY <3>2 DEF BInv, EngineOK
      <4>2. half \in Nat
        BY <4>1
      <4> HIDE DEF grown, half
      <4>3. Allocated(c) = Needed(c) \/ Allocated(c) = IF grown > half THEN grown ELSE half
        BY DEF Allocated, grown, half
      <4>4. QED
        BY <1>2, <3>1, <4>2, <4>3
    <3>3. CASE engine = NoEngine
      BY <1>2, <3>3 DEF Allocated
    <3>4. QED
      BY <3>2, <3>3
  <2>3. QED
    BY <1>1, <2>1, <2>2, NewEngineFacts DEF Sized, Shaped
<1>5. QED
  BY <1>3, <1>4

\* A call starts with an engine that has room for it.
LEMMA GenerateBInv == BInv /\ Generate => BInv'
<1> SUFFICES ASSUME BInv, Generate PROVE BInv'
  OBVIOUS
<1>1. /\ backend' = backend /\ backend \in DOMAIN Workload
      /\ backend \in {"flashinfer", "torch", "mlx"}
  BY BackendAssumption DEF BInv, TypeOK, Generate
<1>2. PICK c \in Workload[backend] :
        /\ call' = c
        /\ engine' = LET seeded == PrefixForward(backend, EngineFor(c), PrefixIsList(c),
                                                 Prefixes(c))
                     IN IF c.graph THEN Capture(backend, seeded) ELSE seeded
        /\ xt' = [r \in 1 .. Rows(c) |-> [p \in 1 .. SpeechLen(c) |-> "mask"]]
        /\ rowEos' = [r \in 1 .. UserRows(c) |-> FALSE]
        /\ blockDone' = DoneAtStart(c, 0, [r \in 1 .. UserRows(c) |-> FALSE])
        /\ phase' = "step" /\ blk' = 0 /\ k' = 0
  BY DEF Generate
<1>3. /\ UserRows(c) \in Nat \ {0} /\ Rows(c) \in Nat \ {0} /\ c # NoCall
      /\ Rows(c) = IF c.guided THEN UserRows(c) + UserRows(c) ELSE UserRows(c)
      /\ NumBlocks(c) \in Nat \ {0} /\ Needed(c) \in Nat \ {0}
  BY <1>1, CallFacts
<1> DEFINE e == EngineFor(c)
           seeded == PrefixForward(backend, e, PrefixIsList(c), Prefixes(c))
<1>4. /\ Shaped(backend, e) /\ e.batch = Rows(c)
      /\ e.maxSeq \in Nat /\ e.maxSeq >= Needed(c)
      /\ backend = "flashinfer" => Paged(e) /\ Plain(e) /\ PlanKept(e)
  BY EngineForFacts
<1>5. backend = "flashinfer" => e.perRow \in Nat \ {0}
  BY <1>3, <1>4, PagesFacts
<1> HIDE DEF e
<1>6. /\ Sized(backend, e.maxSeq, e.batch, seeded)
      /\ backend = "flashinfer" => Paged(seeded) /\ Plain(seeded) /\ PlanKept(seeded)
  BY <1>1, <1>3, <1>4, <1>5, PrefixFacts
<1>7. engine' = IF c.graph THEN Capture(backend, seeded) ELSE seeded
  BY <1>2 DEF e
<1> HIDE DEF seeded
<1>8. /\ Sized(backend, e.maxSeq, e.batch, engine')
      /\ backend = "flashinfer" => Paged(engine') /\ Plain(engine') /\ PlanKept(engine')
  <2>1. Shaped(backend, seeded) /\ seeded.maxSeq = e.maxSeq /\ seeded.batch = e.batch
    BY <1>6 DEF Sized, Shaped
  <2>2. CASE c.graph
    BY <1>1, <1>6, <1>7, <2>1, <2>2, CaptureFacts
  <2>3. CASE ~ c.graph
    BY <1>6, <1>7, <2>3
  <2>4. QED
    BY <2>2, <2>3
<1>9. TypeOK'
  <2>1. xt' \in [1 .. Rows(c) -> [1 .. SpeechLen(c) -> SpeechTokens]]
    BY <1>2 DEF SpeechTokens
  <2>2. rowEos' \in [1 .. UserRows(c) -> BOOLEAN]
    BY <1>2
  <2>3. blockDone' \in [1 .. UserRows(c) -> BOOLEAN]
    BY <1>2 DEF DoneAtStart
  <2>4. 0 \in 0 .. NumSteps - 1 /\ 0 \in Nat /\ 0 < NumBlocks(c)
    BY <1>3, BlockAssumption
  <2>5. engine'.batch = Rows(c) /\ engine'.maxSeq >= Needed(c)
    BY <1>4, <1>8 DEF Sized, Shaped
  <2>6. QED
    BY <1>1, <1>2, <1>3, <2>1, <2>2, <2>3, <2>4, <2>5 DEF TypeOK
<1>10. NullRowsMirror'
  <2>1. SUFFICES ASSUME c.guided, NEW r \in 1 .. UserRows(c)
                 PROVE  xt'[r + UserRows(c)] = xt'[r]
    BY <1>2 DEF NullRowsMirror
  <2>2. r \in 1 .. Rows(c) /\ r + UserRows(c) \in 1 .. Rows(c)
    BY <1>3, <2>1
  <2>3. QED
    BY <1>2, <2>2
<1>11. EngineOK'
  <2>1. backend = "flashinfer" => Owned(engine')
    BY <1>8, PlainOwned
  <2>2. Shaped(backend, engine') /\ engine'.maxSeq \in Nat
    BY <1>4, <1>8 DEF Sized, Shaped
  <2>3. QED
    BY <1>1, <1>2, <1>3, <1>8, <2>1, <2>2 DEF EngineOK, Paged, Owned, PlanKept
<1>12. QED
  BY <1>9, <1>10, <1>11 DEF BInv

(* Where the forwards of a call write: within the pages of each row. *)
LEMMA BlockFits ==
  ASSUME BInv, call # NoCall, backend = "flashinfer"
  PROVE  /\ engine.perRow \in Nat \ {0}
         /\ Fits(engine, Blocks(xt, call, blk), CacheStarts(call, blk).at)
         /\ CacheStarts(call, blk) # FI!NoKey
<1> DEFINE toks == Blocks(xt, call, blk)
           at == CacheStarts(call, blk).at
           bl == BlockLen(call, blk)
           from == blk * BlockSize
<1>1. backend \in DOMAIN Workload /\ call \in Workload[backend]
  BY DEF BInv, TypeOK
<1>2. /\ xt \in [1 .. Rows(call) -> [1 .. SpeechLen(call) -> SpeechTokens]]
      /\ engine.maxSeq >= Needed(call) /\ blk \in Nat /\ blk < NumBlocks(call)
  BY DEF BInv, TypeOK
<1>3. Paged(engine) /\ engine.maxSeq \in Nat
  BY DEF BInv, EngineOK
<1>4. /\ Rows(call) \in Nat \ {0} /\ SpeechLen(call) \in Nat \ {0}
      /\ Needed(call) \in Nat \ {0}
      /\ \A r \in 1 .. Rows(call) :
           PrefixLen(call, r) \in Nat /\ PrefixLen(call, r) + SpeechLen(call) <= Needed(call)
  BY <1>1, CallFacts
<1>5. /\ from \in Nat /\ bl \in Nat \ {0} /\ from + bl <= SpeechLen(call)
  BY <1>1, <1>2, BlockFacts, BlockAssumption
<1>6. engine.perRow \in Nat \ {0} /\ engine.maxSeq <= engine.perRow * PageSize
  BY <1>2, <1>3, <1>4, PagesFacts
<1>7. at = [r \in 1 .. Rows(call) |-> PrefixLen(call, r) + from]
  BY DEF CacheStarts
<1>8. DOMAIN toks = 1 .. Rows(call)
  BY DEF Blocks
<1>9. ASSUME NEW r \in 1 .. Rows(call) PROVE DOMAIN toks[r] = 1 .. bl
  <2>1. \A i \in from + 1 .. from + bl : xt[r][i] \in SpeechTokens
    <3>1. xt[r] \in [1 .. SpeechLen(call) -> SpeechTokens]
      BY <1>2
    <3> HIDE DEF toks, from, bl
    <3>2. \A i \in from + 1 .. from + bl : i \in 1 .. SpeechLen(call)
      BY <1>4, <1>5
    <3>3. QED
      BY <3>1, <3>2
  <2>2. toks[r] = SubSeq(xt[r], from + 1, from + bl)
    BY DEF Blocks, Block
  <2> HIDE DEF toks, from, bl
  <2>3. /\ SubSeq(xt[r], from + 1, from + bl) \in Seq(SpeechTokens)
        /\ Len(SubSeq(xt[r], from + 1, from + bl)) = from + bl - (from + 1) + 1
    BY <1>5, <2>1, SubSeqProperties
  <2>4. QED
    BY <1>5, <2>2, <2>3, LenProperties
<1> HIDE DEF toks, at, from, bl
<1>10. PageSize \in Nat \ {0} /\ engine.perRow * PageSize \in Nat
  BY <1>6, BlockAssumption
<1>11. ASSUME NEW r \in 1 .. Rows(call), NEW i \in 1 .. bl
       PROVE  /\ r \in Nat \ {0} /\ at[r] + i - 1 \in Nat
              /\ at[r] + i - 1 < engine.perRow * PageSize
  <2>1. r \in Nat \ {0} /\ i \in Nat \ {0} /\ i <= bl
    BY <1>4, <1>5
  <2>2. at[r] = PrefixLen(call, r) + from /\ PrefixLen(call, r) \in Nat
    BY <1>4, <1>7
  <2>3. PrefixLen(call, r) + SpeechLen(call) <= engine.perRow * PageSize
    BY <1>2, <1>3, <1>4, <1>6, <1>10
  <2>4. QED
    BY <1>4, <1>5, <1>10, <2>1, <2>2, <2>3
<1>12. Fits(engine, toks, at)
  <2>1. \A r \in DOMAIN toks : r \in Nat \ {0} /\ DOMAIN toks[r] = 1 .. bl
    BY <1>4, <1>8, <1>9
  <2>2. ASSUME NEW r \in DOMAIN toks, NEW i \in DOMAIN toks[r]
        PROVE  at[r] + i - 1 \in Nat /\ at[r] + i - 1 < engine.perRow * PageSize
    <3>1. r \in 1 .. Rows(call) /\ i \in 1 .. bl
      BY <1>8, <2>1
    <3>2. QED
      BY <3>1, <1>11
  <2>3. QED
    BY <2>1, <2>2, Zenon DEF Fits
<1>13. CacheStarts(call, blk) # FI!NoKey
  <2>1. DOMAIN at = 1 .. Rows(call) /\ 1 \in DOMAIN at
    BY <1>4, <1>7
  <2>2. FI!NoKey.at = << >>
    BY DEF FI!NoKey
  <2>3. DOMAIN << >> = {}
    OBVIOUS
  <2>4. QED
    BY <2>1, <2>2, <2>3 DEF at
<1>14. QED
  BY <1>6, <1>12, <1>13 DEF toks, at

\* A step of a block is a forward within the pages.
LEMMA StepForwardFacts ==
  ASSUME BInv, call # NoCall
  PROVE  /\ Sized(backend, engine.maxSeq, engine.batch, StepForward)
         /\ backend = "flashinfer" =>
              Paged(StepForward) /\ Owned(StepForward) /\ PlanKept(StepForward)
<1> DEFINE toks == Blocks(xt, call, blk)
           starts == CacheStarts(call, blk)
           staged == IF k = 0 THEN FI!SetShiftCtx(engine, shift) ELSE engine
<1>1. /\ backend \in {"flashinfer", "torch", "mlx"} /\ Shaped(backend, engine)
      /\ backend = "flashinfer" => Paged(engine) /\ PlanKept(engine) /\ Owned(engine)
  BY BackendAssumption DEF BInv, TypeOK, EngineOK
<1>2. backend = "flashinfer" => /\ engine.perRow \in Nat \ {0}
                                /\ Fits(engine, toks, starts.at) /\ starts # FI!NoKey
  BY BlockFits
<1>3. CASE backend = "flashinfer" /\ StepForward = FI!BlockForwardGraph(staged, toks, starts)
  <2>1. /\ DOMAIN staged = FIFields /\ staged.maxSeq = engine.maxSeq
        /\ staged.batch = engine.batch /\ staged.perRow = engine.perRow
        /\ staged.kv = engine.kv /\ staged.planKey = engine.planKey
        /\ staged.writeAt = engine.writeAt
    BY <1>1, <1>3 DEF FI!SetShiftCtx, Shaped, Fields, FIFields
  <2> HIDE DEF staged, toks, starts
  <2>2. /\ Paged(staged) /\ Owned(staged) /\ PlanKept(staged)
        /\ Fits(staged, toks, starts.at)
    BY <1>1, <1>2, <1>3, <2>1 DEF Paged, Owned, PlanKept, Fits
  <2> DEFINE f == FI!BlockForwardGraph(staged, toks, starts)
  <2>3. /\ Sized("flashinfer", staged.maxSeq, staged.batch, f)
        /\ Paged(f) /\ Owned(f) /\ PlanKept(f)
    BY <1>2, <1>3, <2>1, <2>2, GraphFacts
  <2> HIDE DEF f
  <2>4. StepForward = f
    BY <1>3 DEF f
  <2>5. QED
    BY <1>3, <2>1, <2>3, <2>4
<1>4. CASE StepForward = BlockForward(backend, engine, toks, starts)
  <2> HIDE DEF toks, starts
  <2>1. QED
    BY <1>1, <1>2, <1>4, ForwardFacts
<1>5. backend # "flashinfer" => ~ engine.graph
  BY <1>1 DEF Shaped
<1>6. QED
  BY <1>3, <1>4, <1>5 DEF StepForward

\* A step gives tokens of the dictionary to the rows that still decode.
LEMMA StepGives ==
  ASSUME BInv, DenoiseStep
  PROVE  LET active == {r \in 1 .. UserRows(call) : ~ blockDone[r]}
             old == Blocks(xt, call, blk)
         IN  \E new \in [active -> [1 .. BlockLen(call, blk) -> SpeechTokens]] :
               /\ \A r \in active : new[r] \in Unmasked(old[r], k)
               /\ xt' = Decoded(new)
               /\ rowEos' = [r \in DOMAIN rowEos |->
                               rowEos[r] \/ (r \in active /\ Stopped(new[r]))]
               /\ blockDone' = [r \in DOMAIN blockDone |->
                     \/ blockDone[r]
                     \/ r \in active /\ (Masked(new[r]) = {} \/ Stopped(new[r]))]
<1> DEFINE active == {r \in 1 .. UserRows(call) : ~ blockDone[r]}
           old == Blocks(xt, call, blk)
           bl == BlockLen(call, blk)
           Ids == {"mask"} \cup call.ids
<1>1. PICK new \in [active -> [1 .. bl -> Ids]] :
        /\ \A r \in active : new[r] \in Unmasked(old[r], k)
        /\ xt' = Decoded(new)
        /\ rowEos' = [r \in DOMAIN rowEos |->
                        rowEos[r] \/ (r \in active /\ Stopped(new[r]))]
        /\ blockDone' = [r \in DOMAIN blockDone |->
              \/ blockDone[r]
              \/ r \in active /\ (Masked(new[r]) = {} \/ Stopped(new[r]))]
  BY DEF DenoiseStep
<1>2. Ids \subseteq SpeechTokens
  <2>1. backend \in DOMAIN Workload /\ call \in Workload[backend]
    BY DEF BInv, TypeOK, DenoiseStep
  <2>2. call.ids \subseteq SpeechTokens
    BY <2>1, WorkloadAssumption
  <2>3. QED
    BY <2>2 DEF SpeechTokens
<1> HIDE DEF Ids, active, bl, old
<1>3. new \in [active -> [1 .. bl -> SpeechTokens]]
  BY <1>1, <1>2
<1>4. QED
  BY <1>1, <1>3 DEF active, old, bl

(* A step gives a user row and its null row the same tokens. *)
LEMMA DenoiseBInv == BInv /\ DenoiseStep => BInv'
<1> SUFFICES ASSUME BInv, DenoiseStep PROVE BInv'
  OBVIOUS
<1> DEFINE active == {r \in 1 .. UserRows(call) : ~ blockDone[r]}
           bl == BlockLen(call, blk)
           Toks == SpeechTokens
<1>1. PICK new \in [active -> [1 .. bl -> Toks]] :
        /\ xt' = Decoded(new)
        /\ rowEos' = [r \in DOMAIN rowEos |-> rowEos[r] \/ (r \in active /\ Stopped(new[r]))]
        /\ blockDone' = [r \in DOMAIN blockDone |->
              \/ blockDone[r]
              \/ r \in active /\ (Masked(new[r]) = {} \/ Stopped(new[r]))]
  BY StepGives
<1>2. /\ phase = "step" /\ engine' = StepForward
      /\ \/ phase' = "blockEnd" /\ k' = k
         \/ k # NumSteps - 1 /\ phase' = "step" /\ k' = k + 1
      /\ backend' = backend /\ call' = call /\ blk' = blk
  BY DEF DenoiseStep
<1>3. /\ call # NoCall /\ backend \in DOMAIN Workload /\ call \in Workload[backend]
      /\ k \in 0 .. NumSteps - 1 /\ blk \in Nat /\ blk < NumBlocks(call)
      /\ xt \in [1 .. Rows(call) -> [1 .. SpeechLen(call) -> Toks]]
      /\ rowEos \in [1 .. UserRows(call) -> BOOLEAN]
      /\ blockDone \in [1 .. UserRows(call) -> BOOLEAN]
      /\ engine.batch = Rows(call) /\ engine.maxSeq >= Needed(call)
  BY <1>2 DEF BInv, TypeOK
<1>4. /\ UserRows(call) \in Nat \ {0} /\ SpeechLen(call) \in Nat \ {0}
      /\ Rows(call) = IF call.guided THEN UserRows(call) + UserRows(call) ELSE UserRows(call)
      /\ blk * BlockSize \in Nat /\ bl \in Nat
  <2>1. bl \in 1 .. BlockSize /\ blk * BlockSize \in Nat
    BY <1>3, BlockFacts
  <2>2. QED
    BY <1>3, <2>1, CallFacts, BlockAssumption
<1>5. /\ Sized(backend, engine.maxSeq, engine.batch, engine')
      /\ backend = "flashinfer" => Paged(engine') /\ Owned(engine') /\ PlanKept(engine')
  BY <1>2, <1>3, StepForwardFacts
<1> DEFINE from == blk * BlockSize
<1>6. /\ Positions(call, blk) = from + 1 .. from + bl
      /\ xt' = [r \in 1 .. Rows(call) |->
                  IF UserOf(call, r) \in active
                    THEN [p \in DOMAIN xt[r] |->
                            IF p \in from + 1 .. from + bl
                              THEN new[UserOf(call, r)][p - from] ELSE xt[r][p]]
                    ELSE xt[r]]
  BY <1>1 DEF Decoded, Positions
<1> HIDE DEF active, bl, from
<1>7. xt' \in [1 .. Rows(call) -> [1 .. SpeechLen(call) -> Toks]]
  <2>1. ASSUME NEW r \in 1 .. Rows(call) PROVE xt'[r] \in [1 .. SpeechLen(call) -> Toks]
    <3>1. xt[r] \in [1 .. SpeechLen(call) -> Toks]
      BY <1>3
    <3>2. CASE UserOf(call, r) \in active
      <4> DEFINE u == UserOf(call, r)
      <4>1. new[u] \in [1 .. bl -> Toks]
        BY <3>2, <1>1
      <4>2. \A p \in from + 1 .. from + bl : p - from \in 1 .. bl
        BY <1>4 DEF from
      <4>3. xt'[r] = [p \in 1 .. SpeechLen(call) |->
                        IF p \in from + 1 .. from + bl THEN new[u][p - from] ELSE xt[r][p]]
        BY <1>6, <3>1, <3>2
      <4> HIDE DEF u
      <4>4. QED
        BY <3>1, <4>1, <4>2, <4>3
    <3>3. CASE UserOf(call, r) \notin active
      BY <1>6, <3>1, <3>3
    <3>4. QED
      BY <3>2, <3>3
  <2>2. QED
    BY <1>6, <2>1
<1>8. TypeOK'
  <2>1. rowEos' \in [1 .. UserRows(call) -> BOOLEAN]
    BY <1>1, <1>3
  <2>2. blockDone' \in [1 .. UserRows(call) -> BOOLEAN]
    BY <1>1, <1>3
  <2>3. phase' \in {"idle", "step", "blockEnd"} /\ k' \in 0 .. NumSteps - 1
    BY <1>2, <1>3, BlockAssumption
  <2>4. engine'.batch = Rows(call) /\ engine'.maxSeq >= Needed(call)
    BY <1>3, <1>5 DEF Sized
  <2>5. QED
    BY <1>2, <1>3, <1>7, <2>1, <2>2, <2>3, <2>4 DEF TypeOK
<1>9. NullRowsMirror'
  <2>1. SUFFICES ASSUME call.guided, NEW r \in 1 .. UserRows(call)
                 PROVE  xt'[r + UserRows(call)] = xt'[r]
    BY <1>2 DEF NullRowsMirror
  <2> DEFINE n == r + UserRows(call)
  <2>2. /\ r \in 1 .. Rows(call) /\ n \in 1 .. Rows(call)
        /\ UserOf(call, r) = r /\ UserOf(call, n) = r
    BY <1>4, <2>1 DEF UserOf
  <2>3. xt[n] = xt[r]
    BY <1>3, <2>1 DEF BInv, NullRowsMirror
  <2> HIDE DEF n
  <2>4. xt'[n] = xt'[r]
    BY <1>6, <2>2, <2>3
  <2>5. QED
    BY <2>4 DEF n
<1>10. EngineOK'
  <2>1. engine.maxSeq \in Nat
    BY <1>3 DEF BInv, EngineOK
  <2>2. Shaped(backend, engine') /\ engine'.maxSeq \in Nat
    BY <1>5, <2>1 DEF Sized
  <2>3. QED
    BY <1>2, <1>3, <1>5, <2>2 DEF EngineOK, Shaped, Paged, Owned, PlanKept
<1>11. QED
  BY <1>8, <1>9, <1>10 DEF BInv

\* After a block comes the next one, or the end of the call.
LEMMA EndBlockBInv == BInv /\ EndBlock => BInv'
<1> SUFFICES ASSUME BInv, EndBlock PROVE BInv'
  OBVIOUS
<1>1. /\ phase = "blockEnd"
      /\ engine' = Finalized \/ engine' = engine
      /\ \/ phase' = "idle" /\ blk' = blk /\ k' = k /\ blockDone' = blockDone
         \/ /\ blk # NumBlocks(call) - 1
            /\ phase' = "step" /\ blk' = blk + 1 /\ k' = 0
            /\ blockDone' = DoneAtStart(call, blk + 1, rowEos)
      /\ backend' = backend /\ call' = call /\ xt' = xt /\ rowEos' = rowEos
  BY DEF EndBlock
<1>2. /\ call # NoCall /\ backend \in DOMAIN Workload /\ call \in Workload[backend]
      /\ blk \in Nat /\ blk < NumBlocks(call) /\ k \in 0 .. NumSteps - 1
      /\ rowEos \in [1 .. UserRows(call) -> BOOLEAN]
      /\ blockDone \in [1 .. UserRows(call) -> BOOLEAN]
      /\ engine.batch = Rows(call) /\ engine.maxSeq >= Needed(call)
      /\ backend \in {"flashinfer", "torch", "mlx"}
  BY <1>1, BackendAssumption DEF BInv, TypeOK
<1>3. /\ Shaped(backend, engine) /\ engine.maxSeq \in Nat
      /\ backend = "flashinfer" => Paged(engine) /\ PlanKept(engine) /\ Owned(engine)
  BY <1>2 DEF BInv, EngineOK
<1>4. /\ Sized(backend, engine.maxSeq, engine.batch, engine')
      /\ backend = "flashinfer" => Paged(engine') /\ Owned(engine') /\ PlanKept(engine')
  <2>1. CASE engine' = engine
    BY <1>3, <2>1 DEF Sized, Shaped, Paged, Owned, PlanKept
  <2>2. CASE engine' = Finalized
    <3> DEFINE toks == Blocks(xt, call, blk)
               starts == CacheStarts(call, blk)
               f == BlockForward(backend, engine, toks, starts)
               g == AdvanceCache(backend, f, BlockLen(call, blk))
    <3>1. backend = "flashinfer" =>
            engine.perRow \in Nat \ {0} /\ Fits(engine, toks, starts.at)
      BY <1>2, BlockFits
    <3> HIDE DEF toks, starts
    <3>2. /\ Sized(backend, engine.maxSeq, engine.batch, f)
          /\ backend = "flashinfer" => Paged(f) /\ Owned(f) /\ PlanKept(f)
      BY <1>2, <1>3, <3>1, ForwardFacts
    <3> HIDE DEF f
    <3>3. /\ Sized(backend, f.maxSeq, f.batch, g)
          /\ backend = "flashinfer" => Paged(g) /\ Owned(g) /\ PlanKept(g)
      BY <1>2, <3>2, AdvanceFacts DEF Sized
    <3>4. engine' = g
      BY <2>2 DEF Finalized, f, toks, starts
    <3> HIDE DEF g
    <3>5. QED
      BY <3>2, <3>3, <3>4 DEF Sized
  <2>3. QED
    BY <1>1, <2>1, <2>2
<1>5. TypeOK'
  <2>1. NumBlocks(call) \in Nat \ {0} /\ UserRows(call) \in Nat
    BY <1>2, CallFacts
  <2>2. blk' \in Nat /\ blk' < NumBlocks(call) /\ k' \in 0 .. NumSteps - 1
    <3>1. 0 \in 0 .. NumSteps - 1
      BY BlockAssumption
    <3>2. CASE blk' = blk /\ k' = k
      BY <1>2, <3>2
    <3>3. CASE blk # NumBlocks(call) - 1 /\ blk' = blk + 1 /\ k' = 0
      <4>1. blk + 1 < NumBlocks(call)
        BY <1>2, <2>1, <3>3
      <4>2. QED
        BY <1>2, <3>1, <3>3, <4>1
    <3>4. QED
      BY <1>1, <3>2, <3>3
  <2>3. blockDone' \in [1 .. UserRows(call) -> BOOLEAN]
    BY <1>1, <1>2 DEF DoneAtStart
  <2>4. engine'.batch = Rows(call) /\ engine'.maxSeq >= Needed(call)
    BY <1>2, <1>4 DEF Sized
  <2>5. phase' \in {"idle", "step", "blockEnd"}
    BY <1>1
  <2>6. xt \in [1 .. Rows(call) -> [1 .. SpeechLen(call) -> SpeechTokens]]
    BY <1>2 DEF BInv, TypeOK
  <2>7. QED
    BY <1>1, <1>2, <2>2, <2>3, <2>4, <2>5, <2>6 DEF TypeOK
<1>6. NullRowsMirror'
  BY <1>1, <1>2 DEF BInv, NullRowsMirror
<1>7. EngineOK'
  <2>1. Shaped(backend, engine') /\ engine'.maxSeq \in Nat
    BY <1>3, <1>4 DEF Sized
  <2>2. QED
    BY <1>1, <1>2, <1>4, <2>1 DEF EngineOK, Shaped, Paged, Owned, PlanKept
<1>8. QED
  BY <1>5, <1>6, <1>7 DEF BInv

\* BInv is inductive.
LEMMA NextBInv == BInv /\ [Next]_vars => BInv'
<1> SUFFICES ASSUME BInv, [Next]_vars PROVE BInv'
  OBVIOUS
<1>1. CASE UNCHANGED vars
  BY <1>1 DEF vars, BInv, TypeOK, NullRowsMirror, EngineOK, Shaped, Paged, Owned, PlanKept
<1>2. QED
  BY <1>1, GenerateBInv, DenoiseBInv, EndBlockBInv DEF Next

(* What the rows of a block need is there: a call's positions fit its pages, *)
(* and speech is where its row is.                                           *)
LEMMA PagesOfBInv == BInv => RowsKeepTheirPages
<1> SUFFICES ASSUME BInv, backend = "flashinfer", phase # "idle"
             PROVE  RowsKeepTheirPages
  BY DEF RowsKeepTheirPages
<1>1. /\ call # NoCall /\ backend \in DOMAIN Workload /\ call \in Workload[backend]
      /\ engine.maxSeq >= Needed(call)
  BY DEF BInv, TypeOK
<1>2. Paged(engine) /\ Owned(engine) /\ engine.maxSeq \in Nat
  BY <1>1 DEF BInv, EngineOK
<1>3. /\ Needed(call) \in Nat \ {0} /\ SpeechLen(call) \in Nat \ {0}
      /\ \A r \in 1 .. Rows(call) :
           PrefixLen(call, r) \in Nat /\ PrefixLen(call, r) + SpeechLen(call) <= Needed(call)
  BY <1>1, CallFacts
<1>4. /\ engine.perRow \in Nat \ {0} /\ engine.maxSeq <= engine.perRow * PageSize
      /\ engine.perRow * PageSize \in Nat
  BY <1>1, <1>2, <1>3, PagesFacts, BlockAssumption
<1>5. ASSUME NEW r \in 1 .. Rows(call)
      PROVE  /\ PrefixLen(call, r) + SpeechLen(call) <= engine.perRow * PageSize
             /\ PrefixLen(call, r) + SpeechLen(call) <= engine.maxSeq
  BY <1>1, <1>2, <1>3, <1>4
<1>6. QED
  BY <1>2, <1>5 DEF RowsKeepTheirPages, Owned, SpeechTokens

-----------------------------------------------------------------------------
(* The engine a call finds always has room for it and as many rows, built or *)
(* used again (model.py:727-760).                                            *)
THEOREM BlockDecodingTyped == Spec => []TypeOK
<1>1. BInv => TypeOK
  BY DEF BInv
<1>2. QED
  BY <1>1, InitBInv, NextBInv, PTL DEF Spec

(* The null row of a guided row carries the same speech (model.py:895). *)
THEOREM NullRowsFollow == Spec => []NullRowsMirror
<1>1. BInv => NullRowsMirror
  BY DEF BInv
<1>2. QED
  BY <1>1, InitBInv, NextBInv, PTL DEF Spec

(* Whatever pages, blocks and engines used again, no row's speech lies in the *)
(* pages of another, and a call never runs out of its own                     *)
(* (flashinfer.py:318, model.py:727).                                         *)
THEOREM PagesApart == Spec => []RowsKeepTheirPages
BY PagesOfBInv, InitBInv, NextBInv, PTL DEF Spec

-----------------------------------------------------------------------------
(* What is known of the tokens of a user row while its blocks are decoded. *)

Reached(c, b) == b * BlockSize + BlockLen(c, b)
StopsIn(x) == {q \in DOMAIN x : x[q] = "stop"}

(* A position holds an id that is no stop, unless a stop lies in its block or *)
(* before.                                                                   *)
Clean(x, p) ==
  \/ x[p] \in {"tok", "special"}
  \/ \E q \in StopsIn(x), b \in Nat : q <= (b + 1) * BlockSize /\ b * BlockSize < p

(* Row x, len tokens of which will be spoken, in block b: nothing is decoded    *)
(* beyond the block, a row that is marked as ended holds a stop, and the blocks *)
(* before, with this one once the row is done with it, are clean.               *)
RowDecoded(c, x, b, eos, done, len) ==
  /\ \A p \in 1 .. SpeechLen(c) : p > Reached(c, b) => x[p] = "mask"
  /\ eos => StopsIn(x) # {}
  /\ \A p \in 1 .. len :
       p <= b * BlockSize \/ (done /\ p <= Reached(c, b)) => Clean(x, p)

RowsDecoded ==
  call # NoCall =>
    /\ \A r \in 1 .. UserRows(call) :
         RowDecoded(call, xt[r], blk, rowEos[r], blockDone[r], call.speech[r])
    /\ phase # "step" => \A r \in 1 .. UserRows(call) : blockDone[r]
    /\ phase = "idle" => (AllStopped \/ blk = NumBlocks(call) - 1)
                         /\ speech = Spoken(call, xt)

\* Where the blocks of a call end.
LEMMA ReachedFacts ==
  ASSUME NEW w \in DOMAIN Workload, NEW c \in Workload[w],
         NEW b \in Nat, b < NumBlocks(c)
  PROVE  /\ Reached(c, b) \in Nat /\ b * BlockSize \in Nat
         /\ b * BlockSize < Reached(c, b)
         /\ (b + 1) * BlockSize = b * BlockSize + BlockSize
         /\ Reached(c, b) <= (b + 1) * BlockSize /\ Reached(c, b) <= SpeechLen(c)
         /\ b = NumBlocks(c) - 1 => Reached(c, b) = SpeechLen(c)
         /\ b # NumBlocks(c) - 1 =>
              BlockLen(c, b) = BlockSize /\ Reached(c, b) = (b + 1) * BlockSize
<1> DEFINE S == SpeechLen(c)
           N == NumBlocks(c)
           B == BlockSize
<1>1. S \in Nat \ {0} /\ N \in Nat \ {0} /\ (N - 1) * B < S /\ N * B >= S
  BY CallFacts
<1>2. B \in Nat \ {0}
  BY BlockAssumption
<1>3. BlockLen(c, b) = (IF (b + 1) * B < S THEN (b + 1) * B ELSE S) - b * B
  BY DEF BlockLen
<1>4. /\ b * B \in Nat /\ BlockLen(c, b) \in 1 .. B /\ b * B + BlockLen(c, b) <= S
  BY BlockFacts
<1>5. Reached(c, b) = b * B + BlockLen(c, b)
  BY DEF Reached
<1>6. b < N
  OBVIOUS
<1> HIDE DEF S, N, B
<1>7. (b + 1) * B = b * B + B
  BY <1>2
<1>8. ASSUME b = N - 1 PROVE Reached(c, b) = S
  <2>1. (b + 1) * B = N * B
    BY <1>1, <1>8
  <2>2. QED
    BY <1>1, <1>2, <1>3, <1>4, <1>5, <1>7, <2>1
<1>9. ASSUME b # N - 1 PROVE BlockLen(c, b) = B /\ Reached(c, b) = (b + 1) * B
  <2>1. b + 1 <= N - 1
    BY <1>1, <1>6, <1>9
  <2>2. (b + 1) * B <= (N - 1) * B
    BY <1>1, <1>2, <2>1
  <2>3. (b + 1) * B < S
    BY <1>1, <1>2, <1>4, <1>7, <2>2
  <2>4. QED
    BY <1>2, <1>3, <1>4, <1>5, <1>7, <2>3
<1>10. QED
  BY <1>2, <1>4, <1>5, <1>7, <1>8, <1>9 DEF S, N, B

\* The speech of a row is one of the lengths its call decodes.
LEMMA SpeechFacts ==
  ASSUME NEW w \in DOMAIN Workload, NEW c \in Workload[w], NEW r \in 1 .. UserRows(c)
  PROVE  /\ c.speech[r] \in Nat \ {0} /\ c.speech[r] <= SpeechLen(c)
         /\ RowBlocks(c, r) \in Nat \ {0}
         /\ RowBlocks(c, r) * BlockSize >= c.speech[r]
<1>1. /\ c.speech \in Seq(Nat \ {0}) /\ Len(c.prefix) = Len(c.speech) /\ Len(c.prefix) > 0
  BY WorkloadAssumption
<1>2. r \in 1 .. Len(c.speech)
  BY <1>1 DEF UserRows
<1>3. c.speech[r] \in Nat \ {0}
  BY <1>1, <1>2, ElementOfSeq
<1>4. c.speech[r] <= SpeechLen(c)
  BY <1>1, <1>2, LargestFacts DEF SpeechLen
<1>5. BlockSize \in Nat \ {0}
  BY BlockAssumption
<1>6. c.speech[r] \in Nat /\ c.speech[r] > 0
  BY <1>3
<1>7. RowBlocks(c, r) = CeilDiv(c.speech[r], BlockSize)
  BY DEF RowBlocks
<1> DEFINE a == c.speech[r]
           B == BlockSize
<1>8. a \in Nat /\ a > 0 /\ B \in Nat \ {0}
  BY <1>5, <1>6
<1> HIDE DEF a, B
<1>9. CeilDiv(a, B) \in Nat /\ CeilDiv(a, B) * B >= a /\ CeilDiv(a, B) > 0
  BY <1>8, CeilFacts
<1>10. QED
  BY <1>3, <1>4, <1>7, <1>9 DEF a, B

\* The part of a sequence from a + 1 on, n elements long.
LEMMA CutFacts ==
  ASSUME NEW S, NEW s, NEW a \in Nat, NEW n \in Nat, \A i \in 1 .. n : s[a + i] \in S
  PROVE  LET x == SubSeq(s, a + 1, a + n)
         IN /\ x \in Seq(S) /\ Len(x) = n /\ DOMAIN x = 1 .. n
            /\ \A i \in 1 .. n : x[i] = s[a + i]
<1> DEFINE lo == a + 1
           hi == a + n
           x == SubSeq(s, lo, hi)
<1>1. lo \in Int /\ hi \in Int /\ \A i \in lo .. hi : s[i] \in S
  <2>1. \A i \in lo .. hi : i - a \in 1 .. n /\ a + (i - a) = i
    OBVIOUS
  <2>2. QED
    BY <2>1
<1>2. hi - lo + 1 = n /\ (lo <= hi \/ n = 0) /\ (lo <= hi => n # 0)
      /\ \A i \in 1 .. n : lo + i - 1 = a + i
  OBVIOUS
<1> HIDE DEF lo, hi
<1>3. /\ x \in Seq(S) /\ Len(x) = IF lo <= hi THEN hi - lo + 1 ELSE 0
      /\ \A i \in 1 .. hi - lo + 1 : x[i] = s[lo + i - 1]
  BY <1>1, SubSeqProperties
<1> HIDE DEF x
<1>4. Len(x) = n
  BY <1>2, <1>3
<1>5. DOMAIN x = 1 .. n
  BY <1>3, <1>4, LenProperties
<1>6. \A i \in 1 .. n : x[i] = s[a + i]
  BY <1>2, <1>3
<1>7. QED
  BY <1>3, <1>4, <1>5, <1>6 DEF x, lo, hi

(* What a row is cut to has the codec tokens of its beginning in it, and only
   them if the row has no other part and no stop. *)
LEMMA TrimFacts ==
  ASSUME NEW x, NEW n \in Nat, NEW m \in 1 .. n, NEW whole \in 0 .. m,
         x \in [1 .. n -> SpeechTokens], \A p \in 1 .. whole : x[p] # "stop"
  PROVE  LET codec == {p \in 1 .. whole : x[p] = "tok"}
             said == Trim(SubSeq(x, 1, m))
         IN  /\ Len(said) >= Cardinality(codec)
             /\ whole = m => Len(said) = Cardinality(codec)
<1> DEFINE toks == SubSeq(x, 1, m)
           stops == {i \in DOMAIN toks : toks[i] = "stop"}
           first == CHOOSE i \in stops : \A j \in stops : i <= j
           cut == IF stops = {} THEN Len(toks) ELSE first - 1
           kept == {i \in 1 .. cut : toks[i] = "tok"}
           C == Cardinality(kept)
           codec == {p \in 1 .. whole : x[p] = "tok"}
<1>1. m \in Nat /\ whole \in Nat /\ whole <= m /\ m <= n
  OBVIOUS
<1>2. \A i \in 1 .. m : x[i] \in SpeechTokens
  BY <1>1
<1>3. /\ toks \in Seq(SpeechTokens) /\ Len(toks) = m
      /\ \A i \in 1 .. m : toks[i] = x[i]
  <2>1. /\ toks \in Seq(SpeechTokens) /\ Len(toks) = IF 1 <= m THEN m - 1 + 1 ELSE 0
        /\ \A i \in 1 .. m - 1 + 1 : toks[i] = x[1 + i - 1]
    BY <1>1, <1>2, SubSeqProperties
  <2> HIDE DEF toks
  <2>2. m - 1 + 1 = m /\ \A i \in 1 .. m : 1 + i - 1 = i
    BY <1>1
  <2>3. 1 <= m
    OBVIOUS
  <2>4. \A i \in 1 .. m : toks[i] = x[i]
    BY <2>1, <2>2
  <2>5. QED
    BY <1>1, <2>1, <2>2, <2>3, <2>4
<1>4. Trim(toks) = [i \in 1 .. C |-> "tok"]
  BY DEF Trim
<1>5. DOMAIN toks = 1 .. m
  BY <1>3, LenProperties
<1> HIDE DEF toks
<1>6. \A p \in 1 .. whole : p \in 1 .. m /\ toks[p] = x[p] /\ toks[p] # "stop"
  BY <1>1, <1>3
<1>7. cut \in 0 .. m /\ whole <= cut
  <2>1. CASE stops = {}
    BY <1>1, <1>3, <2>1
  <2>2. CASE stops # {}
    <3>1. stops \subseteq Nat
      BY <1>1, <1>5
    <3>2. first \in stops
      <4>1. \E i \in stops : \A j \in stops : i <= j
        <5> HIDE DEF stops
        <5>1. QED
          BY <2>2, <3>1, LeastNat
      <4>2. QED
        BY <4>1
    <3> HIDE DEF first
    <3>3. first \in 1 .. m /\ toks[first] = "stop"
      BY <1>5, <3>2
    <3>4. first \notin 1 .. whole
      BY <1>6, <3>3
    <3>5. first - 1 \in 0 .. m /\ whole <= first - 1
      BY <1>1, <3>3, <3>4
    <3>6. QED
      BY <2>2, <3>5
  <2>3. QED
    BY <2>1, <2>2
<1> HIDE DEF cut
<1>8. codec \subseteq kept /\ kept \subseteq 1 .. cut /\ codec \subseteq 1 .. whole
  BY <1>1, <1>6, <1>7
<1>9. whole = m => kept = codec
  BY <1>1, <1>6, <1>7
<1> HIDE DEF kept, codec
<1>10. IsFiniteSet(kept) /\ IsFiniteSet(codec) /\ Cardinality(codec) <= C
  <2>1. IsFiniteSet(1 .. cut)
    BY <1>1, <1>7, FS_Interval
  <2>2. IsFiniteSet(kept)
    BY <1>8, <2>1, FS_Subset
  <2>3. QED
    BY <1>8, <2>2, FS_Subset
<1>11. C \in Nat /\ Cardinality(codec) \in Nat
  BY <1>10, FS_CardinalityType
<1>12. whole = m => C = Cardinality(codec)
  BY <1>9
<1> HIDE DEF C
<1>13. Len(Trim(toks)) = C
  <2>1. Len([i \in 1 .. C |-> "tok"]) = C
    BY <1>11
  <2>2. QED
    BY <1>4, <2>1
<1>14. QED
  BY <1>10, <1>11, <1>12, <1>13 DEF toks, codec

\* What the last step of a block leaves masked is nothing.
LEMMA LastStepUnmasks ==
  ASSUME NEW toks, NEW b, NEW n \in Nat, DOMAIN toks = 1 .. n,
         b \in Unmasked(toks, NumSteps - 1)
  PROVE  Masked(b) = {}
<1> DEFINE T == Masked(toks)
           U == Masked(b)
<1>1. /\ b \in [1 .. n -> {"mask"} \cup call.ids]
      /\ U = {} \/ Cardinality(T) - Cardinality(U) >= Cardinality(T)
  BY DEF Unmasked
<1>2. T \in SUBSET (1 .. n) /\ U \in SUBSET (1 .. n)
  BY <1>1 DEF Masked
<1>3. IsFiniteSet(1 .. n)
  BY FS_Interval
<1> HIDE DEF T, U
<1>4. IsFiniteSet(T) /\ IsFiniteSet(U)
  BY <1>2, <1>3, FS_Subset
<1>5. Cardinality(T) \in Nat /\ Cardinality(U) \in Nat
  BY <1>4, FS_CardinalityType
<1>6. U = {} \/ Cardinality(U) = 0
  BY <1>1, <1>5
<1>7. U = {}
  BY <1>4, <1>6, FS_EmptySet
<1>8. QED
  BY <1>7 DEF U

\* A step keeps what the row has: its stops, and what is clean.
LEMMA CleanKept ==
  ASSUME NEW x, NEW y, DOMAIN x = DOMAIN y,
         \A q \in DOMAIN x : x[q] # "mask" => y[q] = x[q],
         NEW p \in DOMAIN x, Clean(x, p)
  PROVE  Clean(y, p)
<1>1. StopsIn(x) \subseteq StopsIn(y)
  BY DEF StopsIn
<1>2. QED
  BY <1>1 DEF Clean

\* All masked at first.
LEMMA GenerateRows == BInv /\ Generate => RowsDecoded'
<1> SUFFICES ASSUME BInv, Generate PROVE RowsDecoded'
  OBVIOUS
<1>1. backend \in DOMAIN Workload
  BY DEF BInv, TypeOK
<1>2. PICK c \in Workload[backend] :
        /\ call' = c
        /\ xt' = [r \in 1 .. Rows(c) |-> [p \in 1 .. SpeechLen(c) |-> "mask"]]
        /\ rowEos' = [r \in 1 .. UserRows(c) |-> FALSE]
        /\ blockDone' = DoneAtStart(c, 0, [r \in 1 .. UserRows(c) |-> FALSE])
        /\ phase' = "step" /\ blk' = 0
  BY DEF Generate
<1>3. /\ UserRows(c) \in Nat \ {0}
      /\ Rows(c) = IF c.guided THEN UserRows(c) + UserRows(c) ELSE UserRows(c)
  BY <1>1, CallFacts
<1>4. ASSUME NEW r \in 1 .. UserRows(c)
      PROVE  RowDecoded(c, xt'[r], 0, rowEos'[r], blockDone'[r], c.speech[r])
  <2>1. r \in 1 .. Rows(c)
    BY <1>3
  <2>2. xt'[r] = [p \in 1 .. SpeechLen(c) |-> "mask"] /\ rowEos'[r] = FALSE
    BY <1>2, <2>1
  <2>3. RowBlocks(c, r) \in Nat \ {0} /\ c.speech[r] \in Nat
    BY <1>1, SpeechFacts
  <2>4. blockDone'[r] = FALSE
    <3>1. ~ (0 >= RowBlocks(c, r))
      BY <2>3
    <3>2. QED
      BY <1>2, <3>1, Zenon DEF DoneAtStart
  <2>5. \A p \in 1 .. c.speech[r] : ~ (p <= 0 * BlockSize)
    BY <2>3, BlockAssumption
  <2>6. QED
    BY <2>2, <2>4, <2>5 DEF RowDecoded
<1>5. QED
  BY <1>2, <1>4 DEF RowsDecoded

\* A block is as long as the tokens its rows are given.
LEMMA BlockToks ==
  ASSUME BInv, call # NoCall, NEW r \in 1 .. Rows(call)
  PROVE  LET x == Block(xt[r], call, blk)
         IN /\ DOMAIN x = 1 .. BlockLen(call, blk)
            /\ \A i \in 1 .. BlockLen(call, blk) : x[i] = xt[r][blk * BlockSize + i]
<1> DEFINE from == blk * BlockSize
           bl == BlockLen(call, blk)
           x == Block(xt[r], call, blk)
<1>1. /\ xt[r] \in [1 .. SpeechLen(call) -> SpeechTokens]
      /\ from \in Nat /\ bl \in Nat \ {0} /\ from + bl <= SpeechLen(call)
      /\ SpeechLen(call) \in Nat
  <2>1. /\ backend \in DOMAIN Workload /\ call \in Workload[backend]
        /\ blk \in Nat /\ blk < NumBlocks(call)
        /\ xt \in [1 .. Rows(call) -> [1 .. SpeechLen(call) -> SpeechTokens]]
    BY DEF BInv, TypeOK, SpeechTokens
  <2>2. from \in Nat /\ bl \in 1 .. BlockSize /\ from + bl <= SpeechLen(call)
    BY <2>1, BlockFacts
  <2>3. SpeechLen(call) \in Nat
    BY <2>1, CallFacts
  <2>4. QED
    BY <2>1, <2>2, <2>3, BlockAssumption
<1>2. x = SubSeq(xt[r], from + 1, from + bl)
  BY DEF Block
<1> HIDE DEF from, bl, x
<1>3. \A i \in 1 .. bl : xt[r][from + i] \in SpeechTokens
  <2>1. \A i \in 1 .. bl : from + i \in 1 .. SpeechLen(call)
    BY <1>1
  <2>2. QED
    BY <1>1, <2>1
<1>4. /\ DOMAIN x = 1 .. bl
      /\ \A i \in 1 .. bl : x[i] = xt[r][from + i]
  BY <1>1, <1>2, <1>3, CutFacts
<1>5. QED
  BY <1>4 DEF x, bl, from

\* What a step does to a user row, given the tokens it chose.
LEMMA DecodedRow ==
  ASSUME BInv, call # NoCall, NEW r \in 1 .. UserRows(call), NEW new
  PROVE  /\ r \notin DOMAIN new => Decoded(new)[r] = xt[r]
         /\ r \in DOMAIN new =>
              Decoded(new)[r] = [p \in 1 .. SpeechLen(call) |->
                 IF p \in Positions(call, blk) THEN new[r][p - blk * BlockSize]
                 ELSE xt[r][p]]
<1>1. r \in 1 .. Rows(call) /\ UserOf(call, r) = r
  <2>1. /\ UserRows(call) \in Nat \ {0}
        /\ Rows(call) = IF call.guided THEN UserRows(call) + UserRows(call)
                        ELSE UserRows(call)
    BY CallFacts DEF BInv, TypeOK
  <2>2. QED
    BY <2>1 DEF UserOf
<1>2. DOMAIN xt[r] = 1 .. SpeechLen(call)
  BY <1>1 DEF BInv, TypeOK
<1>3. QED
  BY <1>1, <1>2 DEF Decoded

\* A step decodes within its block, and a row is done with the block when
\* nothing of it is masked or it stopped there.
LEMMA DenoiseRows == BInv /\ RowsDecoded /\ DenoiseStep => RowsDecoded'
<1> SUFFICES ASSUME BInv, RowsDecoded, DenoiseStep PROVE RowsDecoded'
  OBVIOUS
<1> DEFINE active == {r \in 1 .. UserRows(call) : ~ blockDone[r]}
           bl == BlockLen(call, blk)
           from == blk * BlockSize
           old == Blocks(xt, call, blk)
<1>1. PICK new \in [active -> [1 .. bl -> SpeechTokens]] :
        /\ \A r \in active : new[r] \in Unmasked(old[r], k)
        /\ xt' = Decoded(new)
        /\ rowEos' = [r \in DOMAIN rowEos |-> rowEos[r] \/ (r \in active /\ Stopped(new[r]))]
        /\ blockDone' = [r \in DOMAIN blockDone |->
              \/ blockDone[r]
              \/ r \in active /\ (Masked(new[r]) = {} \/ Stopped(new[r]))]
  BY StepGives
<1>2. /\ phase = "step" /\ call' = call /\ blk' = blk /\ call # NoCall
      /\ phase' = "step" \/ phase' = "blockEnd"
      /\ phase' # "step" => k = NumSteps - 1 \/ \A r \in DOMAIN blockDone' : blockDone'[r]
  BY DEF DenoiseStep, BInv, TypeOK
<1>3. /\ backend \in DOMAIN Workload /\ call \in Workload[backend]
      /\ blk \in Nat /\ blk < NumBlocks(call)
      /\ rowEos \in [1 .. UserRows(call) -> BOOLEAN]
      /\ blockDone \in [1 .. UserRows(call) -> BOOLEAN]
      /\ \A r \in 1 .. Rows(call) : DOMAIN xt[r] = 1 .. SpeechLen(call)
  BY <1>2 DEF BInv, TypeOK
<1>4. /\ from \in Nat /\ bl \in Nat \ {0} /\ SpeechLen(call) \in Nat
      /\ from + bl = Reached(call, blk) /\ Reached(call, blk) <= SpeechLen(call)
      /\ Reached(call, blk) <= (blk + 1) * BlockSize
      /\ UserRows(call) \in Nat \ {0}
      /\ Rows(call) = IF call.guided THEN UserRows(call) + UserRows(call)
                      ELSE UserRows(call)
  <2>1. bl \in 1 .. BlockSize /\ from \in Nat
    BY <1>3, BlockFacts
  <2>2. /\ Reached(call, blk) <= (blk + 1) * BlockSize
        /\ Reached(call, blk) <= SpeechLen(call)
    BY <1>3, ReachedFacts
  <2>3. /\ UserRows(call) \in Nat \ {0} /\ SpeechLen(call) \in Nat
        /\ Rows(call) = IF call.guided THEN UserRows(call) + UserRows(call)
                        ELSE UserRows(call)
    BY <1>3, CallFacts
  <2>4. from + bl = Reached(call, blk)
    BY DEF Reached
  <2>5. QED
    BY <2>1, <2>2, <2>3, <2>4, BlockAssumption
<1>5. Positions(call, blk) = from + 1 .. from + bl
  BY DEF Positions
<1>6. \A r \in 1 .. UserRows(call) :
        RowDecoded(call, xt[r], blk, rowEos[r], blockDone[r], call.speech[r])
  BY <1>2 DEF RowsDecoded
<1>7. \A r \in 1 .. UserRows(call) : r \in 1 .. Rows(call)
  BY <1>4
<1>8. ASSUME NEW r \in active
      PROVE  /\ r \in 1 .. UserRows(call) /\ ~ blockDone[r]
             /\ new[r] \in [1 .. bl -> SpeechTokens]
             /\ DOMAIN old[r] = 1 .. bl
             /\ \A i \in 1 .. bl : old[r][i] = xt[r][from + i]
             /\ \A i \in 1 .. bl : old[r][i] # "mask" => new[r][i] = old[r][i]
  <2>1. r \in 1 .. UserRows(call) /\ ~ blockDone[r] /\ r \in 1 .. Rows(call)
    BY <1>7
  <2>2. old[r] = Block(xt[r], call, blk)
    BY <2>1 DEF Blocks
  <2>3. DOMAIN old[r] = 1 .. bl /\ \A i \in 1 .. bl : old[r][i] = xt[r][from + i]
    BY <1>2, <2>1, <2>2, BlockToks
  <2>4. \A i \in DOMAIN old[r] \ Masked(old[r]) : new[r][i] = old[r][i]
    <3>1. new[r] \in Unmasked(old[r], k)
      BY <1>1
    <3> HIDE DEF old
    <3>2. QED
      BY <3>1 DEF Unmasked
  <2>5. \A i \in 1 .. bl : old[r][i] # "mask" => new[r][i] = old[r][i]
    <3> HIDE DEF old
    <3>1. QED
      BY <2>3, <2>4 DEF Masked
  <2>6. QED
    BY <1>1, <2>1, <2>3, <2>5
<1> HIDE DEF active, old, bl, from
<1>9. DOMAIN new = active
  BY <1>1
<1>10. ASSUME NEW r \in 1 .. UserRows(call)
       PROVE  RowDecoded(call, xt'[r], blk, rowEos'[r], blockDone'[r], call.speech[r])
  <2> DEFINE x == xt[r]
             y == xt'[r]
  <2>1. RowDecoded(call, x, blk, rowEos[r], blockDone[r], call.speech[r])
    BY <1>6
  <2>2. r \in DOMAIN rowEos /\ r \in DOMAIN blockDone /\ DOMAIN x = 1 .. SpeechLen(call)
    BY <1>3, <1>7
  <2>3. CASE r \notin active
    <3>1. y = x
      BY <1>1, <1>2, <1>9, <2>3, DecodedRow
    <3>2. rowEos'[r] = rowEos[r] /\ blockDone'[r] = blockDone[r]
      BY <1>1, <1>3, <2>2, <2>3
    <3>3. QED
      BY <2>1, <3>1, <3>2
  <2>4. CASE r \in active
    <3>1. y = [p \in 1 .. SpeechLen(call) |->
                 IF p \in from + 1 .. from + bl THEN new[r][p - from] ELSE x[p]]
      BY <1>1, <1>2, <1>5, <1>9, <2>4, DecodedRow DEF from
    <3>2. /\ ~ blockDone[r]
          /\ rowEos'[r] = (rowEos[r] \/ Stopped(new[r]))
          /\ blockDone'[r] = (Masked(new[r]) = {} \/ Stopped(new[r]))
      <4>1. ~ blockDone[r]
        BY <1>8, <2>4
      <4>2. QED
        BY <1>1, <2>2, <2>4, <4>1
    <3>3. /\ new[r] \in [1 .. bl -> SpeechTokens]
          /\ \A i \in 1 .. bl : x[from + i] # "mask" => new[r][i] = x[from + i]
      BY <1>8, <2>4
    <3>4. \A i \in 1 .. bl : from + i \in 1 .. SpeechLen(call) /\ y[from + i] = new[r][i]
      <4>1. \A i \in 1 .. bl : /\ from + i \in 1 .. SpeechLen(call) /\ from + i - from = i
                               /\ from + i \in from + 1 .. from + bl
        BY <1>4
      <4>2. \A p \in from + 1 .. from + bl : p \in 1 .. SpeechLen(call)
        BY <1>4
      <4> HIDE DEF x, y
      <4>3. \A p \in from + 1 .. from + bl : y[p] = new[r][p - from]
        BY <3>1, <4>2
      <4>4. \A i \in 1 .. bl : y[from + i] = new[r][from + i - from]
        BY <1>4, <4>1, <4>3
      <4>5. QED
        BY <4>1, <4>4
    <3> HIDE DEF x, y
    <3>5. \A p \in 1 .. SpeechLen(call) : p \notin from + 1 .. from + bl => y[p] = x[p]
      BY <3>1
    <3>6. \A p \in from + 1 .. from + bl : p - from \in 1 .. bl /\ from + (p - from) = p
      BY <1>4
    <3>7. \A q \in 1 .. SpeechLen(call) : x[q] # "mask" => y[q] = x[q]
      <4>1. ASSUME NEW q \in 1 .. SpeechLen(call), x[q] # "mask", q \in from + 1 .. from + bl
            PROVE  y[q] = x[q]
        BY <3>3, <3>4, <3>6, <4>1
      <4>2. QED
        BY <3>5, <4>1
    <3>8. DOMAIN y = DOMAIN x
      BY <2>2, <3>1
    <3>9. \A p \in 1 .. SpeechLen(call) : p > Reached(call, blk) => y[p] = "mask"
      <4>1. \A p \in 1 .. SpeechLen(call) :
              p > Reached(call, blk) => p \notin from + 1 .. from + bl
        BY <1>4
      <4>2. QED
        BY <2>1, <3>5, <4>1 DEF RowDecoded
    <3>10. ASSUME NEW i \in 1 .. bl, new[r][i] = "stop"
           PROVE  from + i \in StopsIn(y)
      BY <2>2, <3>4, <3>8, <3>10 DEF StopsIn
    <3>11. Stopped(new[r]) => \E i \in 1 .. bl : new[r][i] = "stop"
      BY <3>3 DEF Stopped
    <3>12. rowEos'[r] => StopsIn(y) # {}
      <4>1. StopsIn(x) \subseteq StopsIn(y)
        BY <2>2, <3>7, <3>8 DEF StopsIn
      <4>2. QED
        BY <2>1, <3>2, <3>10, <3>11, <4>1 DEF RowDecoded
    <3>13. ASSUME NEW p \in 1 .. call.speech[r],
                  p <= from \/ (blockDone'[r] /\ p <= Reached(call, blk))
           PROVE  Clean(y, p)
      <4>0. p \in Nat /\ p \in 1 .. SpeechLen(call)
        BY <1>3, <1>4, SpeechFacts
      <4>1. CASE p <= from
        <5>1. Clean(x, p)
          BY <2>1, <4>1 DEF RowDecoded, from
        <5>2. p \in DOMAIN x
          BY <2>2, <4>0
        <5>3. QED
          BY <2>2, <3>7, <3>8, <5>1, <5>2, CleanKept
      <4>2. CASE ~ (p <= from) /\ blockDone'[r]
        <5>1. p \in from + 1 .. from + bl
          BY <1>4, <3>13, <4>0, <4>2
        <5>2. p - from \in 1 .. bl /\ from + (p - from) = p /\ y[p] = new[r][p - from]
          BY <3>4, <3>6, <5>1
        <5>3. ASSUME NEW i \in 1 .. bl, new[r][i] = "stop" PROVE Clean(y, p)
          <6>1. from + i \in StopsIn(y)
            BY <3>10, <5>3
          <6>2. from + i <= (blk + 1) * BlockSize
            <7>1. from + i <= Reached(call, blk) /\ i \in Nat
              BY <1>4
            <7>2. (blk + 1) * BlockSize \in Nat
              BY <1>3, BlockAssumption
            <7>3. QED
              BY <1>4, <7>1, <7>2
          <6>3. blk * BlockSize < p
            BY <1>4, <4>0, <4>2 DEF from
          <6>4. QED
            BY <1>3, <6>1, <6>2, <6>3 DEF Clean
        <5>4. CASE Stopped(new[r])
          BY <3>11, <5>3, <5>4
        <5>5. CASE Masked(new[r]) = {}
          <6>1. new[r][p - from] # "mask"
            BY <3>3, <5>2, <5>5 DEF Masked
          <6>2. new[r][p - from] \in {"mask", "tok", "special", "stop"}
            BY <3>3, <5>2 DEF SpeechTokens
          <6>3. CASE new[r][p - from] \in {"tok", "special"}
            BY <5>2, <6>3 DEF Clean
          <6>4. CASE new[r][p - from] = "stop"
            BY <5>2, <5>3, <6>4
          <6>5. QED
            BY <6>1, <6>2, <6>3, <6>4
        <5>6. QED
          BY <3>2, <4>2, <5>4, <5>5
      <4>3. QED
        BY <3>13, <4>1, <4>2
    <3>14. QED
      BY <3>9, <3>12, <3>13 DEF RowDecoded, y, from
  <2>5. QED
    BY <2>3, <2>4
<1>11. ASSUME phase' # "step", NEW r \in 1 .. UserRows(call) PROVE blockDone'[r]
  <2>1. r \in DOMAIN blockDone /\ DOMAIN blockDone' = DOMAIN blockDone
    BY <1>1, <1>3
  <2>2. CASE \A q \in DOMAIN blockDone' : blockDone'[q]
    BY <2>1, <2>2
  <2>3. CASE k = NumSteps - 1
    <3>1. CASE blockDone[r]
      BY <1>1, <2>1, <3>1
    <3>2. CASE ~ blockDone[r]
      <4>1. r \in active
        BY <3>2 DEF active
      <4>2. new[r] \in Unmasked(old[r], NumSteps - 1) /\ DOMAIN old[r] = 1 .. bl
        BY <1>1, <1>8, <2>3, <4>1
      <4>3. Masked(new[r]) = {}
        BY <1>4, <4>2, LastStepUnmasks
      <4>4. QED
        BY <1>1, <2>1, <4>1, <4>3
    <3>3. QED
      BY <3>1, <3>2
  <2>4. QED
    BY <1>2, <1>11, <2>2, <2>3
<1>12. phase' # "idle"
  BY <1>2
<1>13. QED
  BY <1>2, <1>10, <1>11, <1>12 DEF RowsDecoded

\* A new block starts with nothing to decode for a row that stopped or that
\* ended before it.
LEMMA EndBlockRows == BInv /\ RowsDecoded /\ EndBlock => RowsDecoded'
<1> SUFFICES ASSUME BInv, RowsDecoded, EndBlock PROVE RowsDecoded'
  OBVIOUS
<1>1. /\ phase = "blockEnd" /\ call' = call /\ xt' = xt /\ rowEos' = rowEos
      /\ \/ /\ phase' = "idle" /\ speech' = Spoken(call, xt)
            /\ blk' = blk /\ blockDone' = blockDone
            /\ AllStopped \/ blk = NumBlocks(call) - 1
         \/ /\ blk # NumBlocks(call) - 1
            /\ phase' = "step" /\ blk' = blk + 1
            /\ blockDone' = DoneAtStart(call, blk + 1, rowEos)
  BY DEF EndBlock
<1>2. /\ call # NoCall /\ backend \in DOMAIN Workload /\ call \in Workload[backend]
      /\ blk \in Nat /\ blk < NumBlocks(call)
      /\ \A r \in 1 .. Rows(call) : DOMAIN xt[r] = 1 .. SpeechLen(call)
  BY <1>1 DEF BInv, TypeOK
<1>3. /\ \A r \in 1 .. UserRows(call) :
           RowDecoded(call, xt[r], blk, rowEos[r], blockDone[r], call.speech[r])
      /\ \A r \in 1 .. UserRows(call) : blockDone[r]
  BY <1>1, <1>2 DEF RowsDecoded
<1>4. CASE phase' = "idle"
  <2>1. blk' = blk /\ blockDone' = blockDone /\ speech' = Spoken(call, xt)
        /\ (AllStopped \/ blk = NumBlocks(call) - 1)
    BY <1>1, <1>4
  <2>2. AllStopped' = AllStopped
    BY <1>1 DEF AllStopped
  <2>3. QED
    BY <1>1, <1>3, <2>1, <2>2 DEF RowsDecoded
<1>5. CASE phase' = "step"
  <2>1. /\ blk # NumBlocks(call) - 1 /\ blk' = blk + 1
        /\ blockDone' = DoneAtStart(call, blk + 1, rowEos)
    BY <1>1, <1>5
  <2>2. /\ SpeechLen(call) \in Nat /\ NumBlocks(call) \in Nat
        /\ UserRows(call) \in Nat \ {0}
        /\ Rows(call) = IF call.guided THEN UserRows(call) + UserRows(call)
                        ELSE UserRows(call)
    BY <1>2, CallFacts
  <2>3. blk + 1 \in Nat /\ blk + 1 < NumBlocks(call)
    BY <1>2, <2>1, <2>2
  <2> DEFINE c == call
             b == blk + 1
  <2>4. /\ Reached(c, blk) = b * BlockSize /\ Reached(c, blk) \in Nat
    BY <1>2, <2>1, ReachedFacts
  <2>5. /\ Reached(c, b) \in Nat /\ b * BlockSize < Reached(c, b)
        /\ b * BlockSize \in Nat
        /\ (b + 1) * BlockSize = b * BlockSize + BlockSize
    BY <1>2, <2>3, ReachedFacts
  <2>6. BlockSize \in Nat \ {0}
    BY BlockAssumption
  <2>7. ASSUME NEW r \in 1 .. UserRows(c)
        PROVE  RowDecoded(c, xt[r], b, rowEos[r], blockDone'[r], c.speech[r])
    <3> DEFINE x == xt[r]
    <3>1. RowDecoded(c, x, blk, rowEos[r], TRUE, c.speech[r])
      BY <1>3
    <3>2. /\ c.speech[r] \in Nat \ {0} /\ c.speech[r] <= SpeechLen(c)
          /\ RowBlocks(c, r) \in Nat \ {0} /\ RowBlocks(c, r) * BlockSize >= c.speech[r]
      BY <1>2, SpeechFacts
    <3>3. blockDone'[r] => rowEos[r] \/ b >= RowBlocks(c, r)
      BY <2>1 DEF DoneAtStart
    <3>4. DOMAIN x = 1 .. SpeechLen(c)
      BY <1>2, <2>2
    <3> HIDE DEF b, c, x
    <3>5. /\ \A p \in 1 .. SpeechLen(c) : p > Reached(c, blk) => x[p] = "mask"
          /\ rowEos[r] => StopsIn(x) # {}
          /\ \A p \in 1 .. c.speech[r] : p <= Reached(c, blk) => Clean(x, p)
      BY <3>1 DEF RowDecoded
    <3>6. \A p \in 1 .. SpeechLen(c) : p > Reached(c, b) => x[p] = "mask"
      <4>1. \A p \in 1 .. SpeechLen(c) : p > Reached(c, b) => p > Reached(c, blk)
        BY <2>2, <2>4, <2>5 DEF c
      <4>2. QED
        BY <3>5, <4>1
    <3>7. ASSUME NEW p \in 1 .. c.speech[r],
                 p <= b * BlockSize \/ (blockDone'[r] /\ p <= Reached(c, b))
          PROVE  Clean(x, p)
      <4>0. p \in Nat /\ p <= c.speech[r]
        BY <3>2
      <4>1. CASE p <= b * BlockSize
        BY <2>4, <3>5, <4>1
      <4>2. CASE ~ (p <= b * BlockSize) /\ rowEos[r]
        <5>1. PICK q \in StopsIn(x) : TRUE
          BY <3>5, <4>2
        <5>2. q \in 1 .. SpeechLen(c) /\ x[q] = "stop"
          BY <3>4, <5>1 DEF StopsIn
        <5>3. ~ (q > Reached(c, blk))
          BY <3>5, <5>2
        <5>4. q <= (b + 1) * BlockSize /\ b * BlockSize < p
          <6>1. q \in Nat
            BY <2>2, <5>2 DEF c
          <6>2. QED
            BY <2>4, <2>5, <2>6, <4>0, <4>2, <5>3, <6>1
        <5>5. b \in Nat
          BY <2>3 DEF b
        <5>6. QED
          BY <5>1, <5>4, <5>5 DEF Clean
      <4>3. CASE ~ (p <= b * BlockSize) /\ b >= RowBlocks(c, r)
        <5>1. b \in Nat
          BY <2>3 DEF b
        <5>2. b * BlockSize >= RowBlocks(c, r) * BlockSize
          BY <2>6, <3>2, <4>3, <5>1
        <5>3. RowBlocks(c, r) * BlockSize \in Nat
          BY <2>6, <3>2
        <5>4. FALSE
          BY <2>5, <3>2, <4>0, <4>3, <5>2, <5>3
        <5>5. QED
          BY <5>4
      <4>4. QED
        BY <3>3, <3>7, <4>1, <4>2, <4>3
    <3>8. QED
      BY <3>5, <3>6, <3>7 DEF RowDecoded, x
  <2>8. QED
    BY <1>1, <1>5, <2>1, <2>7 DEF RowsDecoded
<1>6. QED
  BY <1>1, <1>4, <1>5

\* RowsDecoded is inductive, given BInv.
LEMMA NextRows == BInv /\ RowsDecoded /\ [Next]_vars => RowsDecoded'
<1> SUFFICES ASSUME BInv, RowsDecoded, [Next]_vars PROVE RowsDecoded'
  OBVIOUS
<1>1. CASE UNCHANGED vars
  BY <1>1 DEF vars, RowsDecoded, AllStopped
<1>2. QED
  BY <1>1, GenerateRows, DenoiseRows, EndBlockRows DEF Next

\* A call that has ended has spoken whole utterances.
LEMMA WholeOfRows == BInv /\ RowsDecoded => UtteranceWhole
<1> SUFFICES ASSUME BInv, RowsDecoded, call # NoCall, phase = "idle",
                    NEW r \in 1 .. UserRows(call)
             PROVE  LET stops == {p \in DOMAIN xt[r] : xt[r][p] = "stop"}
                        atStop == (((CHOOSE p \in stops : \A q \in stops : p <= q) - 1)
                                      \div BlockSize) * BlockSize
                        whole == IF stops # {} /\ atStop < call.speech[r] THEN atStop
                                 ELSE call.speech[r]
                        codec == {p \in 1 .. whole : xt[r][p] = "tok"}
                    IN /\ \A p \in 1 .. whole : xt[r][p] \in {"tok", "special"}
                       /\ Len(speech[r]) >= Cardinality(codec)
                       /\ stops = {} => Len(speech[r]) = Cardinality(codec)
  BY DEF UtteranceWhole
<1> DEFINE x == xt[r]
           stops == StopsIn(x)
           first == CHOOSE p \in stops : \A q \in stops : p <= q
           fb == (first - 1) \div BlockSize
           atStop == fb * BlockSize
           m == call.speech[r]
           n == SpeechLen(call)
           whole == IF stops # {} /\ atStop < m THEN atStop ELSE m
<1>1. /\ backend \in DOMAIN Workload /\ call \in Workload[backend]
      /\ blk \in Nat /\ blk < NumBlocks(call)
      /\ \A s \in 1 .. Rows(call) : xt[s] \in [1 .. n -> SpeechTokens]
      /\ rowEos \in [1 .. UserRows(call) -> BOOLEAN]
  BY DEF BInv, TypeOK, SpeechTokens
<1>2. /\ n \in Nat /\ r \in 1 .. Rows(call) /\ m \in 1 .. n
  <2>1. /\ UserRows(call) \in Nat \ {0} /\ SpeechLen(call) \in Nat
        /\ Rows(call) = IF call.guided THEN UserRows(call) + UserRows(call)
                        ELSE UserRows(call)
    BY <1>1, CallFacts
  <2>2. call.speech[r] \in Nat \ {0} /\ call.speech[r] <= SpeechLen(call)
    BY <1>1, SpeechFacts
  <2>3. QED
    BY <2>1, <2>2
<1>3. x \in [1 .. n -> SpeechTokens]
  BY <1>1, <1>2
<1>4. /\ RowDecoded(call, x, blk, rowEos[r], TRUE, m)
      /\ AllStopped \/ blk = NumBlocks(call) - 1
      /\ speech = Spoken(call, xt)
  <2>1. blockDone[r]
    BY DEF RowsDecoded
  <2>2. blockDone[r] = TRUE
    BY <1>1, <2>1 DEF BInv, TypeOK
  <2>3. QED
    BY <2>2 DEF RowsDecoded
<1>5. speech[r] = Trim(SubSeq(x, 1, m))
  BY <1>4 DEF Spoken
<1>6. /\ Reached(call, blk) \in Nat /\ blk * BlockSize \in Nat
      /\ Reached(call, blk) <= (blk + 1) * BlockSize
      /\ (blk + 1) * BlockSize = blk * BlockSize + BlockSize
      /\ blk * BlockSize < Reached(call, blk)
      /\ blk = NumBlocks(call) - 1 => Reached(call, blk) = n
  BY <1>1, ReachedFacts
<1>7. BlockSize \in Nat \ {0}
  BY BlockAssumption
<1>8. /\ rowEos[r] => stops # {}
      /\ \A p \in 1 .. n : p > Reached(call, blk) => x[p] = "mask"
      /\ \A p \in 1 .. m : p <= Reached(call, blk) => Clean(x, p)
  BY <1>4 DEF RowDecoded
<1>9. \A q \in stops : q \in 1 .. n /\ x[q] = "stop"
  BY <1>3 DEF StopsIn
<1> HIDE DEF m, n, x, stops
<1>10. ASSUME stops # {}
       PROVE  /\ first \in stops /\ first \in Nat \ {0}
              /\ \A q \in stops : first <= q
  <2>1. stops \subseteq Nat
    BY <1>2, <1>9
  <2>2. \E p \in stops : \A q \in stops : p <= q
    BY <1>10, <2>1, LeastNat
  <2>3. first \in stops /\ \A q \in stops : first <= q
    BY <2>2
  <2> HIDE DEF first
  <2>4. first \in 1 .. n
    BY <1>9, <2>3
  <2>5. QED
    BY <1>2, <2>3, <2>4
<1> HIDE DEF first
<1>11. ASSUME stops # {}
       PROVE  fb \in Nat /\ atStop \in Nat /\ atStop <= first - 1
  BY <1>7, <1>10, <1>11
<1> HIDE DEF fb
<1>12. ASSUME stops # {}, NEW b \in Nat, first <= (b + 1) * BlockSize
       PROVE  atStop <= b * BlockSize
  <2>1. (b + 1) * BlockSize = b * BlockSize + BlockSize /\ b * BlockSize \in Nat
    BY <1>7
  <2>2. atStop < (b + 1) * BlockSize
    BY <1>7, <1>10, <1>11, <1>12, <2>1
  <2>3. CASE fb <= b
    BY <1>7, <1>11, <1>12, <2>3
  <2>4. CASE ~ (fb <= b)
    <3>1. fb \in Nat /\ b + 1 <= fb
      BY <1>11, <1>12, <2>4
    <3>2. (b + 1) * BlockSize <= fb * BlockSize
      BY <1>7, <3>1
    <3>3. QED
      BY <1>7, <2>1, <2>2, <3>1, <3>2
  <2>5. QED
    BY <2>3, <2>4
<1>13. whole \in 0 .. m
  <2>1. m \in Nat
    BY <1>2
  <2>2. QED
    BY <1>11, <2>1
<1>14. ASSUME NEW p \in 1 .. whole PROVE x[p] \in {"tok", "special"}
  <2>1. p \in 1 .. m /\ p \in 1 .. n /\ p \in Nat /\ p <= whole /\ whole \in Nat /\ m \in Nat
    BY <1>2, <1>13
  <2>2. stops # {} => p <= atStop
    <3>1. CASE stops # {} /\ ~ (atStop < m)
      BY <1>11, <2>1, <3>1
    <3>2. CASE stops # {} /\ atStop < m
      BY <2>1, <3>2
    <3>3. QED
      BY <3>1, <3>2
  <2> HIDE DEF whole
  <2>3. p <= Reached(call, blk)
    <3>1. CASE blk = NumBlocks(call) - 1
      BY <1>2, <1>6, <2>1, <3>1
    <3>2. CASE AllStopped
      <4>1. stops # {}
        BY <1>1, <1>8, <3>2 DEF AllStopped
      <4>2. x[first] # "mask" /\ first \in 1 .. n
        BY <1>9, <1>10, <4>1
      <4>3. first <= Reached(call, blk)
        BY <1>2, <1>6, <1>8, <4>2
      <4>4. first <= (blk + 1) * BlockSize
        BY <1>6, <1>7, <1>10, <4>1, <4>3
      <4>5. atStop <= blk * BlockSize
        BY <1>1, <1>12, <4>1, <4>4
      <4>6. QED
        BY <1>6, <1>11, <2>1, <2>2, <4>1, <4>5
    <3>3. QED
      BY <1>4, <3>1, <3>2
  <2>4. Clean(x, p)
    BY <1>8, <2>1, <2>3
  <2>5. ASSUME NEW q \in stops, NEW b \in Nat, q <= (b + 1) * BlockSize,
               b * BlockSize < p
        PROVE  FALSE
    <3>1. stops # {} /\ first <= q /\ q \in Nat /\ first \in Nat
      BY <1>2, <1>9, <1>10
    <3>2. (b + 1) * BlockSize \in Nat /\ b * BlockSize \in Nat
      BY <1>7
    <3>3. first <= (b + 1) * BlockSize
      BY <2>5, <3>1, <3>2
    <3>4. atStop <= b * BlockSize /\ atStop \in Nat
      BY <1>11, <1>12, <3>1, <3>3
    <3>5. QED
      BY <2>1, <2>2, <2>5, <3>1, <3>2, <3>4
  <2>6. QED
    BY <2>4, <2>5 DEF Clean, stops
<1>15. stops = {} => whole = m
  OBVIOUS
<1> HIDE DEF whole
<1> DEFINE codec == {p \in 1 .. whole : x[p] = "tok"}
<1>16. /\ Len(speech[r]) >= Cardinality(codec)
       /\ whole = m => Len(speech[r]) = Cardinality(codec)
  <2>1. \A p \in 1 .. whole : x[p] # "stop"
    BY <1>14
  <2>2. QED
    BY <1>2, <1>3, <1>5, <1>13, <2>1, TrimFacts
<1> HIDE DEF codec
<1>17. stops = {p \in DOMAIN xt[r] : xt[r][p] = "stop"}
  BY DEF stops, StopsIn, x
<1>18. QED
  BY <1>14, <1>15, <1>16, <1>17 DEF codec, whole, atStop, fb, first, m, x

(* However the rows of a batch end, each utterance is decoded without a gap up *)
(* to the block in which it stopped, and every codec token of it is spoken    *)
(* (model.py:900, tts.py:397).                                                *)
THEOREM UtterancesWhole == Spec => []UtteranceWhole
<1>1. Init => RowsDecoded
  BY DEF Init, RowsDecoded
<1>2. QED
  BY <1>1, InitBInv, NextBInv, NextRows, WholeOfRows, PTL DEF Spec

-----------------------------------------------------------------------------
(* What a forward attends to.                                                *)

(* Whatever a token may be, a masked one, a prefix's or a padding's too. *)
Tokens == {"mask", "tok", "special", "stop", "prefix", "warmup", "pad", "stale"}
Cells == [src : Int, pos : Int, tok : Tokens]

(* The cells of a block of row r that starts at position n. *)
BlockAt(r, n, toks) == [i \in DOMAIN toks |-> Cell(r, n + i - 1, toks[i])]

(* A row's context want, n cells long, followed by a block of bl tokens. *)
GrownRow(want, n, r, toks, bl) ==
  [i \in 1 .. n + bl |-> IF i <= n THEN want[i] ELSE Cell(r, i - 1, toks[i - n])]
Grown(want, at, toks, bl) ==
  [r \in DOMAIN want |-> GrownRow(want[r], at[r], r, toks[r], bl)]

(* The rows hold, in their first at[r] positions, the cells wanted. *)
Columns(b, e, at) == IF b = "mlx" /\ ~ AllEqual(at) THEN e.own ELSE e.cache
RowHolds(cols, n, want) ==
  cols \in Seq(Cells) /\ Len(cols) >= n /\ \A i \in 1 .. n : cols[i] = want[i]
InColumns(cols, at, want) == \A r \in DOMAIN want : RowHolds(cols[r], at[r], want[r])
InPages(e, at, want) ==
  \A r \in DOMAIN want : \A i \in 1 .. at[r] :
     e.kv[FI!SlotOf(e.perRow, r, i - 1)] = want[r][i]
Holds(b, e, at, want) ==
  IF b = "flashinfer" THEN InPages(e, at, want)
  ELSE InColumns(Columns(b, e, at), at, want)

\* The cells of a block, by any engine's name for them.
LEMMA CellsAlike ==
  ASSUME NEW r, NEW toks, NEW from
  PROVE  /\ FI!BlockCells(r, toks, from) = BlockAt(r, from, toks)
         /\ Torch!BlockCells(r, toks, from) = BlockAt(r, from, toks)
         /\ MLX!BlockCells(r, toks, from) = BlockAt(r, from, toks)
BY DEF BlockAt, FI!BlockCells, FI!Cell, Torch!BlockCells, Torch!Cell, MLX!BlockCells, MLX!Cell, Cell

\* The cells of a block follow a row that holds its context: the row holds
\* both.
LEMMA RowGrows ==
  ASSUME NEW s, NEW n \in Nat, NEW w, RowHolds(s, n, w),
         NEW r \in Nat, NEW bl \in Nat, NEW toks, DOMAIN toks = 1 .. bl,
         \A i \in 1 .. bl : toks[i] \in Tokens
  PROVE  /\ SubSeq(s, 1, n) \o BlockAt(r, n, toks) = GrownRow(w, n, r, toks, bl)
         /\ RowHolds(SubSeq(s, 1, n) \o BlockAt(r, n, toks), n + bl,
                     GrownRow(w, n, r, toks, bl))
<1> DEFINE a == SubSeq(s, 1, n)
           q == BlockAt(r, n, toks)
           g == GrownRow(w, n, r, toks, bl)
<1>1. /\ s \in Seq(Cells) /\ Len(s) \in Nat /\ Len(s) >= n /\ \A i \in 1 .. n : s[i] = w[i]
  BY LenProperties DEF RowHolds
<1>2. /\ a \in Seq(Cells) /\ Len(a) = n /\ \A i \in 1 .. n : a[i] = w[i]
  <2>1. \A i \in 1 .. n : s[i] \in Cells
    BY <1>1, ElementOfSeq
  <2>2. /\ a \in Seq(Cells) /\ Len(a) = n - 1 + 1 /\ \A i \in 1 .. n - 1 + 1 : a[i] = s[1 + i - 1]
    BY <1>1, <2>1, SubSeqProperties
  <2> HIDE DEF a
  <2>3. QED
    BY <1>1, <2>2
<1>0. q = [i \in 1 .. bl |-> Cell(r, n + i - 1, toks[i])]
  BY DEF BlockAt
<1> HIDE DEF q
<1>3. q \in Seq(Cells) /\ Len(q) = bl
  <2>1. \A i \in 1 .. bl : Cell(r, n + i - 1, toks[i]) \in Cells
    BY DEF Cell, Cells
  <2>2. q \in [1 .. bl -> Cells]
    BY <1>0, <2>1
  <2>3. QED
    BY <2>2, SeqDef, LenProperties
<1> HIDE DEF a
<1>4. /\ a \o q \in Seq(Cells) /\ Len(a \o q) = n + bl
      /\ \A i \in 1 .. n + bl : (a \o q)[i] = IF i <= n THEN a[i] ELSE q[i - n]
  <2> HIDE DEF g
  <2>1. /\ a \o q \in Seq(Cells) /\ Len(a \o q) = Len(a) + Len(q)
        /\ \A i \in 1 .. Len(a) + Len(q) :
             (a \o q)[i] = IF i <= Len(a) THEN a[i] ELSE q[i - Len(a)]
    BY <1>2, <1>3, ConcatProperties
  <2>2. QED
    BY <1>2, <1>3, <2>1
<1> DEFINE t == a \o q
<1>5. /\ DOMAIN t = 1 .. n + bl /\ t = [i \in 1 .. n + bl |-> t[i]]
  BY <1>4, LenProperties
<1>6. ASSUME NEW i \in 1 .. n + bl PROVE t[i] = g[i]
  <2>1. CASE i <= n
    <3>1. i \in 1 .. n
      <4> HIDE DEF g, t
      <4>1. QED
        BY <2>1
    <3>2. QED
      BY <1>2, <1>4, <2>1, <3>1 DEF GrownRow
  <2>2. CASE ~ (i <= n)
    <3>1. i - n \in 1 .. bl /\ n + (i - n) - 1 = i - 1
      BY <2>2
    <3>2. q[i - n] = Cell(r, i - 1, toks[i - n])
      BY <1>0, <3>1
    <3>3. QED
      BY <1>4, <2>2, <3>2 DEF GrownRow
  <2>3. QED
    BY <2>1, <2>2
<1>7. g = [i \in 1 .. n + bl |-> g[i]]
  BY DEF GrownRow
<1> HIDE DEF t, g
<1>8. t = g
  BY <1>5, <1>6, <1>7
<1>9. RowHolds(t, n + bl, g)
  BY <1>4, <1>6 DEF RowHolds, t
<1>10. QED
  BY <1>8, <1>9 DEF t, a, g, q

-----------------------------------------------------------------------------
\* A position within the pages of its row has a slot in the cache.
LEMMA SlotFacts ==
  ASSUME NEW P \in Nat \ {0}, NEW R \in Nat, NEW r \in 1 .. R, NEW p \in Nat,
         p < P * PageSize
  PROVE  FI!SlotOf(P, r, p) \in (0 .. R * P - 1) \X (0 .. PageSize - 1)
<1>1. PageSize \in Nat \ {0} /\ r \in Nat \ {0} /\ r <= R
  BY BlockAssumption
<1> DEFINE q == p \div PageSize
<1>2. q \in Nat /\ q * PageSize <= p /\ p % PageSize \in 0 .. PageSize - 1
  BY <1>1
<1>3. q < P
  <2> HIDE DEF q
  <2>1. QED
    BY <1>1, <1>2
<1>4. (r - 1) * P + q \in 0 .. R * P - 1
  <2> HIDE DEF q
  <2>1. (r - 1) * P \in Nat /\ (r - 1) * P + P = r * P /\ r * P <= R * P /\ R * P \in Nat
    BY <1>1
  <2> DEFINE u == (r - 1) * P
             v == R * P
  <2>2. u \in Nat /\ v \in Nat /\ u + P <= v
    BY <2>1
  <2> HIDE DEF u, v
  <2>3. u + q \in 0 .. v - 1
    BY <1>2, <1>3, <2>2
  <2>4. QED
    BY <2>3 DEF u, v
<1>5. QED
  BY <1>2, <1>4 DEF FI!SlotOf

\* Two positions within the pages of their rows share a slot only if they are
\* the same position of the same row.
LEMMA SlotApart ==
  ASSUME NEW P \in Nat \ {0}, NEW r \in Nat \ {0}, NEW p \in Nat, p < P * PageSize,
         NEW x \in Nat \ {0}, NEW y \in Nat, y < P * PageSize,
         FI!SlotOf(P, x, y) = FI!SlotOf(P, r, p)
  PROVE  x = r /\ y = p
<1>0. PageSize \in Nat \ {0}
  BY BlockAssumption
<1>1. /\ (x - 1) * P + y \div PageSize = (r - 1) * P + p \div PageSize
      /\ y % PageSize = p % PageSize
  BY DEF FI!SlotOf
<1>2. /\ ((x - 1) * P + y \div PageSize) \div P + 1 = x
      /\ ((r - 1) * P + p \div PageSize) \div P + 1 = r
  BY DivFacts
<1>3. x = r
  BY <1>1, <1>2
<1>4. y \div PageSize = p \div PageSize
  <2> DEFINE m == (r - 1) * P
             c == y \div PageSize
             d == p \div PageSize
  <2>1. m \in Int /\ c \in Int /\ d \in Int /\ m + c = m + d
    BY <1>0, <1>1, <1>3
  <2> HIDE DEF m, c, d
  <2>2. c = d
    BY <2>1
  <2>3. QED
    BY <2>2 DEF c, d
<1>5. y = p
  BY <1>0, <1>1, <1>4
<1>6. QED
  BY <1>3, <1>5

\* A plan for n tokens of a row is the slots of its first n positions.
LEMMA PlannedFacts ==
  ASSUME NEW P \in Nat, NEW r \in Nat, NEW n \in Nat \ {0}
  PROVE  FI!Planned(P, r, n) = [i \in 1 .. n |-> FI!SlotOf(P, r, i - 1)]
<1> DEFINE z == PageSize
           u == FI!CeilDiv(n, PageSize)
           last == IF n % PageSize > 0 THEN n % PageSize ELSE PageSize
<1>1. z \in Nat \ {0}
  BY BlockAssumption
<1>2. (u - 1) * z + last = n
  <2> DEFINE q == n \div z
             m == n % z
  <2>1. q \in Nat /\ m \in 0 .. z - 1 /\ n = q * z + m
    BY <1>1
  <2>2. u = (n + z - 1) \div z
    BY DEF FI!CeilDiv
  <2>3. CASE m = 0
    <3>1. n = q * z
      BY <2>1, <2>3, <1>1
    <3>2. u = q
      <4> HIDE DEF q, u, m
      <4>1. (q * z + z - 1) \div z = q
        BY <1>1, <2>1
      <4>2. QED
        BY <2>2, <3>1, <4>1
    <3>3. last = z
      BY <2>3
    <3> HIDE DEF u, last, q, m
    <3>4. (q - 1) * z + z = q * z
      BY <1>1, <2>1
    <3>5. QED
      BY <3>1, <3>2, <3>3, <3>4
  <2>4. CASE m # 0
    <3>1. last = m
      BY <1>1, <2>1, <2>4
    <3>2. u = q + 1
      <4> HIDE DEF q, u, m, last
      <4>1. n + z - 1 = (q + 1) * z + (m - 1) /\ m - 1 \in 0 .. z - 1
        BY <1>1, <2>1, <2>4
      <4>2. ((q + 1) * z + (m - 1)) \div z = q + 1
        BY <1>1, <2>1, <4>1
      <4>3. QED
        BY <2>2, <4>1, <4>2
    <3>3. u - 1 = q
      <4> HIDE DEF u, q
      <4>1. QED
        BY <2>1, <3>2
    <3> HIDE DEF u, last, q, m, z
    <3>4. (u - 1) * z + last = q * z + m
      BY <3>1, <3>3
    <3>5. QED
      BY <2>1, <3>4
  <2> HIDE DEF u, last, m, q, z
  <2>5. QED
    BY <2>3, <2>4
<1>3. FI!Planned(P, r, n) =
        [i \in 1 .. (u - 1) * z + last |->
           <<(r - 1) * P + (i - 1) \div PageSize, (i - 1) % PageSize>>]
  BY DEF FI!Planned
<1> HIDE DEF u, last, z
<1>4. QED
  BY <1>2, <1>3 DEF FI!SlotOf

(* Each row's cells lie, from where they start, within the row's pages. *)
RoomFor(e, at, cells) ==
  \A r \in DOMAIN cells :
    /\ at[r] \in Nat
    /\ \E m \in Nat : DOMAIN cells[r] = 1 .. m /\ at[r] + m <= e.perRow * PageSize

(* W has each row's cells from where they start, and what e had before them. *)
Lies(e, at, cells, W) ==
  /\ \A r \in DOMAIN cells : \A i \in DOMAIN cells[r] :
       W[FI!SlotOf(e.perRow, r, at[r] + i - 1)] = cells[r][i]
  /\ \A r \in 1 .. e.batch, p \in Nat :
       p < e.perRow * PageSize /\ (r \in DOMAIN cells => p < at[r]) =>
         W[FI!SlotOf(e.perRow, r, p)] = e.kv[FI!SlotOf(e.perRow, r, p)]

\* Cells that lie within their rows' pages are found at their positions
\* afterwards, and what the rows held before those positions is kept.
LEMMA WrittenCells ==
  ASSUME NEW e, Paged(e), e.perRow \in Nat \ {0}, e.batch \in Nat,
         NEW at, NEW cells, DOMAIN cells \subseteq 1 .. e.batch, RoomFor(e, at, cells)
  PROVE  Lies(e, at, cells, FI!Written(e, at, cells))
<1> DEFINE writes == UNION {{<<r, i>> : i \in DOMAIN cells[r]} : r \in DOMAIN cells}
           slot(w) == FI!SlotOf(e.perRow, w[1], at[w[1]] + w[2] - 1)
           hits == {slot(w) : w \in writes}
           W == FI!Written(e, at, cells)
           P == e.perRow
<1>1. W = [s \in DOMAIN e.kv |->
             IF s \in hits
               THEN LET w == CHOOSE x \in writes : slot(x) = s IN cells[w[1]][w[2]]
               ELSE e.kv[s]]
  BY DEF FI!Written
<1> HIDE DEF W
<1>2. ASSUME NEW r \in DOMAIN cells, NEW i \in DOMAIN cells[r]
      PROVE  /\ r \in 1 .. e.batch /\ at[r] \in Nat /\ i \in Nat \ {0}
             /\ at[r] + i - 1 \in Nat /\ at[r] + i - 1 < P * PageSize
             /\ at[r] <= at[r] + i - 1
  <2>1. PICK m \in Nat : DOMAIN cells[r] = 1 .. m /\ at[r] + m <= P * PageSize
    BY DEF RoomFor
  <2>2. at[r] \in Nat /\ i \in 1 .. m /\ P * PageSize \in Nat
    BY <2>1, BlockAssumption DEF RoomFor
  <2> DEFINE a == at[r]
             n == P * PageSize
  <2>3. a \in Nat /\ i \in 1 .. m /\ n \in Nat /\ a + m <= n
    BY <2>1, <2>2
  <2> HIDE DEF a, n
  <2>4. i \in Nat \ {0} /\ a + i - 1 \in Nat /\ a + i - 1 < n /\ a <= a + i - 1
    BY <2>3
  <2>5. QED
    BY <2>2, <2>4 DEF a, n
<1>3. \A w \in writes : \E r \in DOMAIN cells : \E i \in DOMAIN cells[r] : w = <<r, i>>
  OBVIOUS
<1>4. \A r \in DOMAIN cells : \A i \in DOMAIN cells[r] : <<r, i>> \in writes
  OBVIOUS
<1>5. \A r, i : slot(<<r, i>>) = FI!SlotOf(P, r, at[r] + i - 1)
  OBVIOUS
<1> HIDE DEF slot, writes
<1>6. ASSUME NEW r \in DOMAIN cells, NEW i \in DOMAIN cells[r]
      PROVE  W[FI!SlotOf(P, r, at[r] + i - 1)] = cells[r][i]
  <2> DEFINE s == FI!SlotOf(P, r, at[r] + i - 1)
             w == CHOOSE x \in writes : slot(x) = s
  <2>1. <<r, i>> \in writes /\ slot(<<r, i>>) = s
    BY <1>4, <1>5
  <2>2. s \in hits
    BY <2>1
  <2>3. s \in DOMAIN e.kv
    BY <1>2, SlotFacts DEF Paged
  <2>4. w \in writes /\ slot(w) = s
    <3> HIDE DEF s
    <3>1. QED
      BY <2>1
  <2>5. W[s] = cells[w[1]][w[2]]
    BY <1>1, <2>2, <2>3
  <2> HIDE DEF w, hits
  <2>6. PICK x \in DOMAIN cells : \E j \in DOMAIN cells[x] : w = <<x, j>>
    BY <1>3, <2>4
  <2>7. PICK j \in DOMAIN cells[x] : w = <<x, j>>
    BY <2>6
  <2>8. FI!SlotOf(P, x, at[x] + j - 1) = FI!SlotOf(P, r, at[r] + i - 1)
    BY <1>5, <2>4, <2>7
  <2>9. x = r /\ at[x] + j - 1 = at[r] + i - 1
    <3> DEFINE p == at[r] + i - 1
               y == at[x] + j - 1
    <3>1. p \in Nat /\ p < P * PageSize /\ y \in Nat /\ y < P * PageSize
          /\ x \in 1 .. e.batch /\ r \in 1 .. e.batch
      BY <1>2
    <3>2. FI!SlotOf(P, x, y) = FI!SlotOf(P, r, p)
      BY <2>8
    <3> HIDE DEF p, y, P
    <3>3. P \in Nat \ {0}
      BY DEF P
    <3>4. x \in Nat \ {0} /\ r \in Nat \ {0}
      BY <3>1
    <3>5. x = r /\ y = p
      BY <3>1, <3>2, <3>3, <3>4, SlotApart
    <3>6. QED
      BY <3>5 DEF p, y
  <2>10. i \in Nat /\ j \in Nat /\ at[r] \in Nat
    BY <1>2
  <2>11. j = i
    BY <2>9, <2>10
  <2>12. QED
    BY <2>5, <2>7, <2>9, <2>11
<1>7. ASSUME NEW r \in 1 .. e.batch, NEW p \in Nat, p < P * PageSize,
             r \in DOMAIN cells => p < at[r]
      PROVE  W[FI!SlotOf(P, r, p)] = e.kv[FI!SlotOf(P, r, p)]
  <2> DEFINE s == FI!SlotOf(P, r, p)
  <2>1. s \in DOMAIN e.kv
    BY <1>7, SlotFacts DEF Paged
  <2>2. ASSUME s \in hits PROVE FALSE
    <3>1. PICK w \in writes : slot(w) = s
      BY <2>2
    <3>2. PICK x \in DOMAIN cells : \E j \in DOMAIN cells[x] : w = <<x, j>>
      BY <1>3, <3>1
    <3>3. PICK j \in DOMAIN cells[x] : w = <<x, j>>
      BY <3>2
    <3> DEFINE y == at[x] + j - 1
    <3>4. FI!SlotOf(P, x, y) = s
      BY <1>5, <3>1, <3>3
    <3>5. /\ y \in Nat /\ y < P * PageSize /\ x \in 1 .. e.batch /\ at[x] <= y
          /\ at[x] \in Nat
      BY <1>2
    <3> HIDE DEF y, P
    <3>6. P \in Nat \ {0}
      BY DEF P
    <3>7. x \in Nat \ {0} /\ r \in Nat \ {0} /\ p < P * PageSize
      BY <1>7, <3>5
    <3>8. FI!SlotOf(P, x, y) = FI!SlotOf(P, r, p)
      BY <3>4
    <3>9. x = r /\ y = p
      BY <3>5, <3>6, <3>7, <3>8, SlotApart
    <3>10. QED
      BY <1>7, <3>5, <3>9
  <2> HIDE DEF s, hits
  <2>3. W[s] = e.kv[s]
    BY <1>1, <2>1, <2>2
  <2>4. QED
    BY <2>3 DEF s
<1>8. QED
  BY <1>6, <1>7 DEF Lies, W

-----------------------------------------------------------------------------
(* The tokens of a block of R rows, the cells a forward makes of them, and   *)
(* what it leaves: it attended to the context and the block, produced the    *)
(* block's states, and the cache holds both.                                 *)
Given(toks, R, bl) ==
  /\ DOMAIN toks = 1 .. R
  /\ \A r \in 1 .. R : toks[r] \in Seq(Tokens) /\ Len(toks[r]) = bl
Fresh(toks, at) ==
  [r \in DOMAIN toks |-> BlockAt(r, at[r], toks[r])]
Ran(b, f, at, toks, bl, want) ==
  /\ f.seen = Grown(want, at, toks, bl)
  /\ f.out = Fresh(toks, at)
  /\ Holds(b, f, FI!Ends(at, bl), Grown(want, at, toks, bl))

(* FlashInfer's pages have room for bl tokens of each row after at[r]. *)
Room(b, e, R, at, bl) ==
  b = "flashinfer" =>
    /\ Paged(e) /\ e.perRow \in Nat \ {0} /\ e.batch = R
    /\ \A r \in 1 .. R : at[r] + bl <= e.perRow * PageSize

\* The tokens of each row.
LEMMA GivenFacts ==
  ASSUME NEW R \in Nat, NEW bl \in Nat, NEW toks, Given(toks, R, bl)
  PROVE  \A r \in 1 .. R : /\ DOMAIN toks[r] = 1 .. bl
                           /\ \A i \in 1 .. bl : toks[r][i] \in Tokens
BY LenProperties, ElementOfSeq DEF Given

\* One pass of FlashInfer at the rows' starts, read up to the block's end.
LEMMA PassContext ==
  ASSUME NEW e, DOMAIN e = FIFields, NEW R \in Nat \ {0}, NEW bl \in Nat \ {0},
         NEW toks, Given(toks, R, bl), NEW at \in [1 .. R -> Nat \ {0}],
         Room("flashinfer", e, R, at, bl),
         NEW want, DOMAIN want = 1 .. R, InPages(e, at, want)
  PROVE  LET f == FI!Pass(e, toks, at, FI!Ends(at, bl), at)
         IN /\ Ran("flashinfer", f, at, toks, bl, want)
            /\ f.graph = e.graph /\ f.gShift = e.gShift /\ f.readLen = e.readLen
            /\ f.rope = at
<1>0. /\ Paged(e) /\ e.perRow \in Nat \ {0} /\ e.batch = R
      /\ \A r \in 1 .. R : at[r] + bl <= e.perRow * PageSize
  BY DEF Room
<1> DEFINE readLen == FI!Ends(at, bl)
<1> DEFINE f == FI!Pass(e, toks, at, readLen, at)
           cells == [r \in DOMAIN toks |-> FI!BlockCells(r, toks[r], at[r])]
           slots == [r \in DOMAIN toks |-> FI!Planned(e.perRow, r, readLen[r])]
           all == Grown(want, at, toks, bl)
           P == e.perRow
<1>1. /\ f.perRow = e.perRow /\ f.kv = FI!Written(e, at, cells) /\ f.out = cells
      /\ f.graph = e.graph /\ f.gShift = e.gShift /\ f.readLen = e.readLen
      /\ f.rope = at
      /\ f.seen = [r \in DOMAIN toks |->
                     [i \in DOMAIN slots[r] |-> FI!Written(e, at, cells)[slots[r][i]]]]
  BY DEF FI!Pass, FIFields
<1>2. DOMAIN toks = 1 .. R /\ \A r \in 1 .. R : DOMAIN toks[r] = 1 .. bl
  BY GivenFacts DEF Given
<1>3. cells = Fresh(toks, at)
  BY CellsAlike DEF Fresh
<1> DEFINE V == FI!Written(e, at, cells)
<1> HIDE DEF f, cells, V, slots
<1>4. /\ DOMAIN cells = 1 .. R /\ \A r \in 1 .. R : DOMAIN cells[r] = 1 .. bl
      /\ \A r \in 1 .. R : \A i \in 1 .. bl : cells[r][i] = Cell(r, at[r] + i - 1, toks[r][i])
  BY <1>2, <1>3 DEF Fresh, BlockAt
<1>5. RoomFor(e, at, cells)
  BY <1>0, <1>4 DEF RoomFor
<1>6. /\ \A r \in 1 .. R : \A i \in 1 .. bl :
           V[FI!SlotOf(P, r, at[r] + i - 1)] = cells[r][i]
      /\ \A r \in 1 .. R, p \in Nat :
           p < P * PageSize /\ p < at[r] =>
             V[FI!SlotOf(P, r, p)] = e.kv[FI!SlotOf(P, r, p)]
  <2>1. DOMAIN cells \subseteq 1 .. e.batch /\ e.batch \in Nat
    BY <1>0, <1>4
  <2>2. Lies(e, at, cells, V)
    BY <1>0, <1>5, <2>1, WrittenCells DEF V
  <2>3. QED
    BY <1>0, <1>4, <2>2 DEF Lies
<1>7. ASSUME NEW r \in 1 .. R, NEW i \in 1 .. at[r] + bl
      PROVE  V[FI!SlotOf(P, r, i - 1)] = all[r][i]
  <2> DEFINE a == at[r]
  <2>1. a \in Nat \ {0} /\ a + bl <= P * PageSize /\ P * PageSize \in Nat
    BY <1>0, BlockAssumption
  <2>2. all[r][i] = IF i <= a THEN want[r][i] ELSE Cell(r, i - 1, toks[r][i - a])
    BY DEF Grown, GrownRow
  <2> HIDE DEF all
  <2>3. CASE i <= a
    <3>1. i \in 1 .. a /\ i - 1 \in Nat /\ i - 1 < a /\ i - 1 < P * PageSize
      <4> DEFINE n == P * PageSize
      <4>1. n \in Nat /\ a + bl <= n
        BY <2>1
      <4> HIDE DEF n, a
      <4>2. i \in 1 .. a /\ i - 1 \in Nat /\ i - 1 < a /\ i - 1 < n
        BY <2>1, <2>3, <4>1 DEF a
      <4>3. QED
        BY <4>2 DEF n
    <3>2. e.kv[FI!SlotOf(P, r, i - 1)] = want[r][i]
      BY <3>1 DEF InPages
    <3>3. QED
      BY <1>6, <2>2, <2>3, <3>1, <3>2
  <2>4. CASE ~ (i <= a)
    <3> DEFINE j == i - a
    <3>1. j \in 1 .. bl /\ a + j - 1 = i - 1
      BY <2>1, <2>4
    <3> HIDE DEF j
    <3>2. V[FI!SlotOf(P, r, a + j - 1)] = Cell(r, a + j - 1, toks[r][j])
      BY <1>4, <1>6, <3>1
    <3>3. V[FI!SlotOf(P, r, i - 1)] = Cell(r, i - 1, toks[r][j])
      BY <3>1, <3>2
    <3>4. QED
      BY <2>2, <2>4, <3>3 DEF j
  <2>5. QED
    BY <2>3, <2>4
<1>8. ASSUME NEW r \in 1 .. R PROVE f.seen[r] = all[r]
  <2>1. slots[r] = [i \in 1 .. at[r] + bl |-> FI!SlotOf(P, r, i - 1)]
    <3>1. readLen[r] = at[r] + bl /\ at[r] + bl \in Nat \ {0} /\ r \in Nat /\ P \in Nat
      BY <1>0 DEF FI!Ends
    <3>2. slots[r] = FI!Planned(P, r, readLen[r])
      BY <1>2 DEF slots
    <3>3. FI!Planned(P, r, at[r] + bl) = [i \in 1 .. at[r] + bl |-> FI!SlotOf(P, r, i - 1)]
      BY <3>1, PlannedFacts
    <3>4. QED
      BY <3>1, <3>2, <3>3
  <2>2. f.seen[r] = [i \in DOMAIN slots[r] |-> V[slots[r][i]]]
    BY <1>1, <1>2 DEF V
  <2>3. f.seen[r] = [i \in 1 .. at[r] + bl |-> V[FI!SlotOf(P, r, i - 1)]]
    BY <2>1, <2>2
  <2>4. all[r] = [i \in 1 .. at[r] + bl |-> all[r][i]]
    BY DEF Grown, GrownRow
  <2> HIDE DEF all
  <2>5. QED
    BY <1>7, <2>3, <2>4
<1>9. f.seen = all
  <2>1. DOMAIN f.seen = 1 .. R /\ f.seen = [r \in 1 .. R |-> f.seen[r]]
    BY <1>1, <1>2
  <2>2. all = [r \in 1 .. R |-> all[r]]
    BY DEF Grown
  <2> HIDE DEF all
  <2>3. QED
    BY <1>8, <2>1, <2>2
<1>10. Holds("flashinfer", f, FI!Ends(at, bl), all)
  <2>1. \A r \in 1 .. R : FI!Ends(at, bl)[r] = at[r] + bl
    BY DEF FI!Ends
  <2>2. DOMAIN all = 1 .. R
    BY DEF Grown
  <2> HIDE DEF all
  <2>3. InPages(f, FI!Ends(at, bl), all)
    BY <1>1, <1>7, <2>1, <2>2 DEF InPages, V
  <2>4. QED
    BY <2>3 DEF Holds
<1>11. QED
  BY <1>1, <1>3, <1>9, <1>10 DEF Ran, f

(* What the graph would write, read and encode, were it replayed for starts. *)
PlanFits(e, starts) ==
  e.planKey = starts => /\ e.writeAt = starts.at /\ e.rope = starts.at
                        /\ e.readLen = FI!Ends(starts.at, BlockSize)

\* Among equal numbers each is the largest.
LEMMA LargestOfEqual ==
  ASSUME NEW R \in Nat \ {0}, NEW at \in [1 .. R -> Nat \ {0}], AllEqual(at),
         NEW r \in 1 .. R
  PROVE  /\ Largest(at) = at[r] /\ Torch!Largest(at) = at[r]
         /\ Torch!AllEqual(at) /\ MLX!AllEqual(at)
<1> DEFINE V == {at[i] : i \in DOMAIN at}
<1>1. V = {at[r]} /\ at[r] <= at[r]
  BY DEF AllEqual
<1>2. \A i \in DOMAIN at : at[i] <= at[r]
  BY <1>1 DEF AllEqual
<1>3. Largest(at) = CHOOSE m \in V : \A i \in DOMAIN at : at[i] <= m
  BY DEF Largest
<1>4. Largest(at) = at[r]
  <2> HIDE DEF V
  <2>1. QED
    BY <1>1, <1>2, <1>3
<1>5. QED
  BY <1>4 DEF Largest, Torch!Largest, AllEqual, Torch!AllEqual, MLX!AllEqual

\* Whether the rows start together does not change with the block's length.
LEMMA EndsAlike ==
  ASSUME NEW R \in Nat, NEW at \in [1 .. R -> Nat], NEW bl \in Nat
  PROVE  /\ AllEqual(FI!Ends(at, bl)) <=> AllEqual(at)
         /\ \A r \in 1 .. R : FI!Ends(at, bl)[r] = at[r] + bl
BY DEF AllEqual, FI!Ends

(* Rows of columns, each cut where it starts and followed by its block. *)
Extended(cols, at, toks) ==
  [r \in DOMAIN at |-> SubSeq(cols[r], 1, at[r]) \o BlockAt(r, at[r], toks[r])]

\* Rows that hold their context hold it and their block after that.
LEMMA ColumnsContext ==
  ASSUME NEW R \in Nat \ {0}, NEW bl \in Nat \ {0}, NEW toks, Given(toks, R, bl),
         NEW at \in [1 .. R -> Nat \ {0}], NEW want, DOMAIN want = 1 .. R,
         NEW cols, InColumns(cols, at, want)
  PROVE  /\ Extended(cols, at, toks) = Grown(want, at, toks, bl)
         /\ InColumns(Extended(cols, at, toks), FI!Ends(at, bl), Grown(want, at, toks, bl))
<1> DEFINE new == Extended(cols, at, toks)
<1>1. \A r \in 1 .. R : /\ DOMAIN toks[r] = 1 .. bl
                        /\ \A i \in 1 .. bl : toks[r][i] \in Tokens
  BY GivenFacts
<1>2. ASSUME NEW r \in 1 .. R
      PROVE  /\ new[r] = GrownRow(want[r], at[r], r, toks[r], bl)
             /\ RowHolds(new[r], at[r] + bl, GrownRow(want[r], at[r], r, toks[r], bl))
  <2> DEFINE s == cols[r]
             n == at[r]
             w == want[r]
             t == toks[r]
  <2>1. new[r] = SubSeq(s, 1, n) \o BlockAt(r, n, t)
    BY DEF Extended
  <2>2. RowHolds(s, n, w) /\ n \in Nat /\ DOMAIN t = 1 .. bl /\ r \in Nat
        /\ (\A i \in 1 .. bl : t[i] \in Tokens)
    BY <1>1 DEF InColumns
  <2> HIDE DEF s, n, w, t
  <2>4. /\ SubSeq(s, 1, n) \o BlockAt(r, n, t) = GrownRow(w, n, r, t, bl)
        /\ RowHolds(SubSeq(s, 1, n) \o BlockAt(r, n, t), n + bl, GrownRow(w, n, r, t, bl))
    BY <2>2, RowGrows
  <2>5. QED
    BY <2>1, <2>4 DEF n, w, t
<1>3. new = Grown(want, at, toks, bl)
  <2>1. new = [r \in 1 .. R |-> new[r]]
    BY DEF Extended
  <2> HIDE DEF new
  <2>2. QED
    BY <1>2, <2>1 DEF Grown
<1> HIDE DEF new
<1>4. \A r \in 1 .. R : FI!Ends(at, bl)[r] = at[r] + bl
  BY DEF FI!Ends
<1>5. QED
  BY <1>2, <1>3, <1>4 DEF InColumns, Grown, new

\* The fallback engine, for rows that start together.
LEMMA TorchContext ==
  ASSUME NEW e, Shaped("torch", e), NEW R \in Nat \ {0}, NEW bl \in Nat \ {0},
         NEW toks, Given(toks, R, bl), NEW starts,
         starts.at \in [1 .. R -> Nat \ {0}], AllEqual(starts.at),
         NEW want, DOMAIN want = 1 .. R, InColumns(e.cache, starts.at, want)
  PROVE  LET f == Torch!BlockForward(e, toks, starts)
             all == Grown(want, starts.at, toks, bl)
         IN /\ f.seen = all /\ f.out = Fresh(toks, starts.at)
            /\ InColumns(f.cache, FI!Ends(starts.at, bl), all)
            /\ f.graph = e.graph
<1> DEFINE at == starts.at
           f == Torch!BlockForward(e, toks, starts)
           all == Grown(want, at, toks, bl)
           cells == [r \in DOMAIN at |-> Torch!BlockCells(r, toks[r], at[r])]
           top == Torch!Largest(at)
           cols == [r \in DOMAIN at |-> Torch!Crop(e.cache[r], top) \o cells[r]]
           new == Extended(e.cache, at, toks)
<1>1. \A r \in 1 .. R : Torch!Largest(at) = at[r] /\ Torch!AllEqual(at)
  BY LargestOfEqual
<1>2. 1 \in 1 .. R
  OBVIOUS
<1>3. Torch!AllEqual(at)
  BY <1>1, <1>2
<1>4. /\ f.cache = cols /\ f.out = cells /\ f.graph = e.graph
      /\ f.seen = [r \in DOMAIN at |-> cols[r]]
  <2> HIDE DEF cols, cells, at
  <2>1. f = [e EXCEPT !.cache = cols, !.out = cells,
                      !.seen = [r \in DOMAIN at |-> cols[r]]]
    BY <1>3 DEF Torch!BlockForward, cols, cells, at
  <2>2. DOMAIN e = {"maxSeq", "batch", "graph", "cache", "lens", "seen", "out"}
    BY DEF Shaped, Fields
  <2>3. QED
    BY <2>1, <2>2
<1>5. \A r \in 1 .. R : Torch!Crop(e.cache[r], top) = SubSeq(e.cache[r], 1, at[r])
  <2> SUFFICES ASSUME NEW r \in 1 .. R
               PROVE  Torch!Crop(e.cache[r], top) = SubSeq(e.cache[r], 1, at[r])
    OBVIOUS
  <2>1. top = at[r]
    BY <1>1
  <2>2. Len(e.cache[r]) >= at[r] /\ Len(e.cache[r]) \in Nat /\ at[r] \in Nat
    BY LenProperties DEF InColumns, RowHolds
  <2> HIDE DEF top
  <2>3. (IF Len(e.cache[r]) < at[r] THEN Len(e.cache[r]) ELSE at[r]) = at[r]
    BY <2>2
  <2>4. QED
    BY <2>1, <2>3 DEF Torch!Crop
<1>6. cells = Fresh(toks, at)
  BY CellsAlike DEF Fresh, Given
<1>7. cols = new
  <2> HIDE DEF top
  <2>1. \A r \in 1 .. R : cells[r] = BlockAt(r, at[r], toks[r])
    BY CellsAlike
  <2> HIDE DEF cells
  <2>2. QED
    BY <1>5, <2>1 DEF Extended
<1>8. cols = [r \in DOMAIN at |-> cols[r]]
  OBVIOUS
<1>9. /\ new = all
      /\ InColumns(new, FI!Ends(at, bl), all)
  <2> DEFINE c == e.cache
  <2>1. InColumns(c, at, want) /\ at \in [1 .. R -> Nat \ {0}]
    OBVIOUS
  <2> HIDE DEF at, c
  <2>2. QED
    BY <2>1, ColumnsContext DEF c
<1> HIDE DEF f, cells, cols, new, all, top
<1>10. QED
  BY <1>4, <1>6, <1>7, <1>8, <1>9 DEF f, all

\* The Apple-silicon engine.
LEMMA MlxContext ==
  ASSUME NEW e, Shaped("mlx", e), NEW R \in Nat \ {0}, NEW bl \in Nat \ {0},
         NEW toks, Given(toks, R, bl), NEW starts,
         starts.at \in [1 .. R -> Nat \ {0}],
         NEW want, DOMAIN want = 1 .. R,
         InColumns(Columns("mlx", e, starts.at), starts.at, want)
  PROVE  LET f == MLX!BlockForward(e, toks, starts)
             all == Grown(want, starts.at, toks, bl)
         IN /\ f.seen = all /\ f.out = Fresh(toks, starts.at)
            /\ InColumns(Columns("mlx", f, FI!Ends(starts.at, bl)), FI!Ends(starts.at, bl), all)
            /\ f.graph = e.graph
<1> DEFINE at == starts.at
           f == MLX!BlockForward(e, toks, starts)
           all == Grown(want, at, toks, bl)
           old == Columns("mlx", e, at)
           base == [r \in DOMAIN at |->
                      MLX!Crop(IF MLX!AllEqual(at) THEN e.cache[r] ELSE e.own[r], at[r])]
           cells == [r \in DOMAIN at |-> MLX!BlockCells(r, toks[r], Len(base[r]))]
           cols == [r \in DOMAIN at |-> base[r] \o cells[r]]
           new == Extended(old, at, toks)
<1>1. MLX!AllEqual(at) <=> AllEqual(at)
  BY DEF MLX!AllEqual, AllEqual
<1>2. /\ f.cache = IF AllEqual(at) THEN cols ELSE e.cache
      /\ f.own = IF AllEqual(at) THEN e.own ELSE cols
      /\ f.out = cells /\ f.graph = e.graph /\ f.seen = cols
  <2> HIDE DEF cols, cells, base, at
  <2>1. f = [e EXCEPT !.cache = IF MLX!AllEqual(at) THEN cols ELSE @,
                      !.own = IF MLX!AllEqual(at) THEN @ ELSE cols,
                      !.out = cells, !.seen = cols]
    BY DEF MLX!BlockForward, cols, cells, base, at
  <2>2. DOMAIN e = {"maxSeq", "batch", "graph", "cache", "own", "lens", "seen", "out"}
    BY DEF Shaped, Fields
  <2>3. QED
    BY <1>1, <2>1, <2>2
<1>3. ASSUME NEW r \in 1 .. R
      PROVE  base[r] = SubSeq(old[r], 1, at[r]) /\ Len(base[r]) = at[r]
  <2>1. base[r] = MLX!Crop(old[r], at[r])
    BY <1>1 DEF Columns
  <2>2. old[r] \in Seq(Cells) /\ Len(old[r]) >= at[r] /\ at[r] \in Nat \ {0}
    BY DEF InColumns, RowHolds
  <2> HIDE DEF base, old, at
  <2>3. Len(old[r]) \in Nat
    BY <2>2, LenProperties
  <2>4. (IF Len(old[r]) < at[r] THEN Len(old[r]) ELSE at[r]) = at[r]
    BY <2>2, <2>3
  <2>5. base[r] = SubSeq(old[r], 1, at[r])
    BY <2>1, <2>4 DEF MLX!Crop
  <2>6. \A i \in 1 .. at[r] : old[r][i] \in Cells
    BY <2>2, <2>3, ElementOfSeq
  <2>7. Len(SubSeq(old[r], 1, at[r])) = at[r] - 1 + 1
    BY <2>2, <2>6, SubSeqProperties
  <2>8. QED
    BY <2>2, <2>5, <2>7
<1>4. DOMAIN at = 1 .. R /\ at \in [1 .. R -> Nat \ {0}] /\ DOMAIN toks = 1 .. R
  BY DEF Given
<1> HIDE DEF base, at, old
<1>5. \A r \in 1 .. R : cells[r] = BlockAt(r, at[r], toks[r])
  BY <1>3, <1>4, CellsAlike
<1>6. cells = Fresh(toks, at)
  <2>1. cells = [r \in 1 .. R |-> cells[r]]
    BY <1>4
  <2> HIDE DEF cells
  <2>2. QED
    BY <1>4, <1>5, <2>1 DEF Fresh
<1>7. cols = new
  <2> HIDE DEF cells
  <2>1. QED
    BY <1>3, <1>4, <1>5 DEF Extended
<1>8. /\ new = all
      /\ InColumns(new, FI!Ends(at, bl), all)
  <2>1. InColumns(old, at, want)
    BY DEF old, at
  <2>2. QED
    BY <1>4, <2>1, ColumnsContext
<1> HIDE DEF f, cells, cols, new
<1>9. Columns("mlx", f, FI!Ends(at, bl)) = cols
  <2>1. AllEqual(FI!Ends(at, bl)) <=> AllEqual(at)
    BY <1>4, EndsAlike
  <2>2. QED
    BY <1>2, <2>1 DEF Columns
<1>10. QED
  BY <1>2, <1>6, <1>7, <1>8, <1>9 DEF f, at

\* What holds the context and the block holds the context.
LEMMA HoldsPart ==
  ASSUME NEW b, NEW f, NEW R \in Nat \ {0}, NEW bl \in Nat \ {0}, NEW toks,
         NEW at \in [1 .. R -> Nat \ {0}], NEW want, DOMAIN want = 1 .. R,
         Holds(b, f, FI!Ends(at, bl), Grown(want, at, toks, bl))
  PROVE  Holds(b, f, at, want)
<1> DEFINE all == Grown(want, at, toks, bl)
           ends == FI!Ends(at, bl)
<1>1. /\ AllEqual(ends) <=> AllEqual(at)
      /\ \A r \in 1 .. R : ends[r] = at[r] + bl
  <2>1. at \in [1 .. R -> Nat]
    OBVIOUS
  <2>2. QED
    BY <2>1, EndsAlike
<1>2. Columns(b, f, ends) = Columns(b, f, at)
  BY <1>1 DEF Columns
<1>3. DOMAIN all = 1 .. R
  BY DEF Grown
<1>4. ASSUME NEW r \in 1 .. R, NEW i \in 1 .. at[r]
      PROVE  i \in 1 .. ends[r] /\ all[r][i] = want[r][i]
  <2>1. i \in 1 .. at[r] + bl /\ i <= at[r] /\ ends[r] = at[r] + bl
    BY <1>1
  <2>2. QED
    BY <2>1 DEF Grown, GrownRow
<1> HIDE DEF all, ends
<1>5. CASE b = "flashinfer"
  BY <1>3, <1>4, <1>5 DEF Holds, InPages, all, ends
<1>6. CASE b # "flashinfer"
  <2> DEFINE cols == Columns(b, f, at)
  <2>1. InColumns(cols, ends, all)
    BY <1>2, <1>6 DEF Holds, all, ends
  <2> HIDE DEF cols
  <2>2. ASSUME NEW r \in 1 .. R PROVE RowHolds(cols[r], at[r], want[r])
    <3>1. RowHolds(cols[r], ends[r], all[r])
      BY <1>3, <2>1 DEF InColumns
    <3>2. Len(cols[r]) \in Nat /\ at[r] \in Nat /\ ends[r] = at[r] + bl
      BY <1>1, <3>1, LenProperties DEF RowHolds
    <3>3. Len(cols[r]) >= at[r]
      BY <3>1, <3>2 DEF RowHolds
    <3>4. QED
      BY <1>4, <3>1, <3>3 DEF RowHolds
  <2>3. InColumns(cols, at, want)
    BY <2>2 DEF InColumns
  <2>4. QED
    BY <1>6, <2>3 DEF Holds, cols
<1>7. QED
  BY <1>5, <1>6

\* A forward of each engine.
LEMMA ForwardContext ==
  ASSUME NEW b \in {"flashinfer", "torch", "mlx"}, NEW e, Shaped(b, e),
         NEW R \in Nat \ {0}, NEW bl \in Nat \ {0}, NEW toks, Given(toks, R, bl),
         NEW starts, starts.at \in [1 .. R -> Nat \ {0}],
         NEW want, DOMAIN want = 1 .. R, Holds(b, e, starts.at, want),
         b = "torch" => AllEqual(starts.at), Room(b, e, R, starts.at, bl)
  PROVE  LET f == BlockForward(b, e, toks, starts)
         IN /\ Ran(b, f, starts.at, toks, bl, want)
            /\ f.graph = e.graph
            /\ b = "flashinfer" => /\ f.gShift = e.gShift /\ f.planKey = e.planKey
                                   /\ PlanFits(e, starts) => PlanFits(f, starts)
<1>1. CASE b = "flashinfer"
  <2> DEFINE at == starts.at
             f == FI!Pass(e, toks, at, FI!Ends(at, bl), at)
  <2>1. Len(toks[1]) = bl /\ DOMAIN e = FIFields
    BY <1>1 DEF Given, Shaped, Fields
  <2>2. BlockForward(b, e, toks, starts) = f
    BY <1>1, <2>1 DEF BlockForward, FI!BlockForward
  <2>3. Room("flashinfer", e, R, at, bl) /\ InPages(e, at, want)
    BY <1>1 DEF Holds
  <2>4. at \in [1 .. R -> Nat \ {0}]
    OBVIOUS
  <2>5. /\ Ran("flashinfer", f, at, toks, bl, want)
        /\ f.graph = e.graph /\ f.gShift = e.gShift /\ f.readLen = e.readLen
        /\ f.rope = at
    <3> HIDE DEF at
    <3>1. QED
      BY <2>1, <2>3, <2>4, PassContext
  <2>6. f.planKey = e.planKey /\ f.writeAt = e.writeAt
    BY <2>1 DEF FI!Pass, FIFields
  <2>7. PlanFits(e, starts) => PlanFits(f, starts)
    BY <2>5, <2>6 DEF PlanFits
  <2>8. QED
    BY <1>1, <2>2, <2>5, <2>6, <2>7
<1>2. CASE b = "torch"
  <2> DEFINE f == Torch!BlockForward(e, toks, starts)
             all == Grown(want, starts.at, toks, bl)
  <2>1. BlockForward(b, e, toks, starts) = f /\ Shaped("torch", e)
    BY <1>2 DEF BlockForward
  <2>2. InColumns(e.cache, starts.at, want) /\ AllEqual(starts.at)
    BY <1>2 DEF Holds, Columns
  <2>3. /\ f.seen = all /\ f.out = Fresh(toks, starts.at)
        /\ InColumns(f.cache, FI!Ends(starts.at, bl), all)
        /\ f.graph = e.graph
    BY <2>1, <2>2, TorchContext
  <2> HIDE DEF f
  <2>4. Ran(b, f, starts.at, toks, bl, want)
    BY <1>2, <2>3 DEF Ran, Holds, Columns
  <2>5. QED
    BY <1>2, <2>1, <2>3, <2>4
<1>3. CASE b = "mlx"
  <2> DEFINE f == MLX!BlockForward(e, toks, starts)
             all == Grown(want, starts.at, toks, bl)
  <2>1. BlockForward(b, e, toks, starts) = f /\ Shaped("mlx", e)
    BY <1>3 DEF BlockForward
  <2>2. InColumns(Columns("mlx", e, starts.at), starts.at, want)
    BY <1>3 DEF Holds
  <2>3. /\ f.seen = all /\ f.out = Fresh(toks, starts.at)
        /\ InColumns(Columns("mlx", f, FI!Ends(starts.at, bl)), FI!Ends(starts.at, bl), all)
        /\ f.graph = e.graph
    BY <2>1, <2>2, MlxContext
  <2> HIDE DEF f
  <2>4. Ran(b, f, starts.at, toks, bl, want)
    BY <1>3, <2>3 DEF Ran, Holds
  <2>5. QED
    BY <1>3, <2>1, <2>3, <2>4
<1>4. QED
  BY <1>1, <1>2, <1>3

\* A replay, whether its plan is of this block or is made for it.
LEMMA GraphContext ==
  ASSUME NEW e, DOMAIN e = FIFields, NEW R \in Nat \ {0},
         NEW toks, Given(toks, R, BlockSize),
         NEW starts, starts.at \in [1 .. R -> Nat \ {0}],
         NEW want, DOMAIN want = 1 .. R, Holds("flashinfer", e, starts.at, want),
         Room("flashinfer", e, R, starts.at, BlockSize), PlanFits(e, starts)
  PROVE  LET f == FI!BlockForwardGraph(e, toks, starts)
         IN /\ Ran("flashinfer", f, starts.at, toks, BlockSize, want)
            /\ f.graph = e.graph /\ f.gShift = e.gShift
            /\ f.planKey = starts /\ PlanFits(f, starts)
<1> DEFINE at == starts.at
           p == IF starts # e.planKey THEN FI!PlanGraph(e, starts, Len(toks[1])) ELSE e
           f == FI!Pass(p, toks, p.writeAt, p.readLen, p.rope)
<1>1. FI!BlockForwardGraph(e, toks, starts) = f
  BY DEF FI!BlockForwardGraph, FI!GraphBody
<1>2. Len(toks[1]) = BlockSize /\ BlockSize \in Nat \ {0}
  BY BlockAssumption DEF Given
<1>3. /\ DOMAIN p = FIFields /\ p.maxSeq = e.maxSeq /\ p.batch = e.batch
      /\ p.perRow = e.perRow /\ p.kv = e.kv /\ p.planKey = starts
      /\ p.writeAt = at /\ p.rope = at /\ p.readLen = FI!Ends(at, BlockSize)
      /\ p.graph = e.graph /\ p.gShift = e.gShift
  <2>1. CASE starts # e.planKey
    BY <1>2, <2>1 DEF FI!PlanGraph, FIFields
  <2>2. CASE starts = e.planKey
    BY <2>2 DEF PlanFits
  <2>3. QED
    BY <2>1, <2>2
<1> HIDE DEF p
<1>4. Room("flashinfer", p, R, at, BlockSize) /\ InPages(p, at, want)
  BY <1>3 DEF Room, Holds, InPages, Paged
<1> DEFINE g == FI!Pass(p, toks, at, FI!Ends(at, BlockSize), at)
<1>5. at \in [1 .. R -> Nat \ {0}]
  OBVIOUS
<1>6. /\ Ran("flashinfer", g, at, toks, BlockSize, want)
      /\ g.graph = p.graph /\ g.gShift = p.gShift /\ g.readLen = p.readLen
      /\ g.rope = at
  <2> HIDE DEF at
  <2>1. QED
    BY <1>2, <1>3, <1>4, <1>5, PassContext
<1>7. g.planKey = p.planKey /\ g.writeAt = p.writeAt
  BY <1>3 DEF FI!Pass, FIFields
<1>8. f = g
  BY <1>3
<1> HIDE DEF g
<1>9. PlanFits(g, starts)
  BY <1>3, <1>6, <1>7 DEF PlanFits
<1> HIDE DEF f
<1>10. QED
  BY <1>1, <1>3, <1>6, <1>7, <1>8, <1>9

(* What the rows of a call hold after its prefixes. *)
Prefixed(c) == [r \in 1 .. Rows(c) |-> PrefixCells(Prefixes(c)[r])]
PrefixLens(c) == [r \in 1 .. Rows(c) |-> PrefixLen(c, r)]

(* Rows of the fallback engine start together; only then is their context    *)
(* clean, as SdpaRagged shows.                                               *)
RowsAlike == \A b \in DOMAIN Workload : b = "torch" =>
               \A c \in Workload[b] : AllEqual(c.prefix)

(* A block fits behind the longest prefix, whatever the speech is: where a   *)
(* graph is captured, its warm-up pass writes one there.  The code leaves 64  *)
(* positions beyond the speech (model.py:727) and decodes blocks of 16.       *)
WarmupFits == BlockSize <= Slack + 1

\* Where the rows of a call start.
LEMMA StartFacts ==
  ASSUME NEW b \in DOMAIN Workload, NEW c \in Workload[b], NEW r \in 1 .. Rows(c)
  PROVE  /\ PrefixLen(c, r) \in Nat \ {0} /\ TextOf(c, r) \in Nat
         /\ PrefixLen(c, r) + SpeechLen(c) + Slack <= Needed(c)
<1>1. /\ c.prefix \in Seq(Nat \ {0}) /\ c.speech \in Seq(Nat \ {0})
      /\ Len(c.prefix) = Len(c.speech) /\ Len(c.prefix) > 0
  BY WorkloadAssumption
<1>2. Len(c.prefix) \in Nat /\ \A i \in 1 .. Len(c.prefix) : c.prefix[i] \in Nat \ {0}
  BY <1>1, LenProperties, ElementOfSeq
<1>3. UserOf(c, r) \in 1 .. UserRows(c) /\ SpeechLen(c) \in Nat /\ UserRows(c) \in Nat
      /\ Rows(c) \in Nat
  BY CallFacts
<1>4. PrefixLen(c, r) \in Nat \ {0}
  BY <1>2, <1>3 DEF PrefixLen, UserRows
<1>5. /\ Largest(c.prefix) \in Nat \ {0}
      /\ \A i \in 1 .. Len(c.prefix) : c.prefix[i] <= Largest(c.prefix)
  BY <1>1, LargestFacts
<1>6. PrefixLen(c, r) <= Largest(c.prefix)
  BY <1>3, <1>5 DEF PrefixLen, UserRows
<1>7. Slack \in Nat
  BY BlockAssumption
<1>8. Needed(c) = Largest(c.prefix) + SpeechLen(c) + Slack
  BY DEF Needed
<1>9. TextOf(c, r) \in Nat
  BY <1>3 DEF TextOf
<1>10. QED
  BY <1>3, <1>4, <1>5, <1>6, <1>7, <1>8, <1>9

\* The prefixes of a call, a row each.
LEMMA PrefixesFacts ==
  ASSUME NEW b \in DOMAIN Workload, NEW c \in Workload[b]
  PROVE  /\ DOMAIN Prefixes(c) = 1 .. Rows(c) /\ Len(Prefixes(c)) = Rows(c)
         /\ \A r \in 1 .. Rows(c) :
              /\ Prefixes(c)[r].len = PrefixLen(c, r) /\ Prefixes(c)[r].src = TextOf(c, r)
              /\ ~ (PrefixIsList(c) /\ Len(Prefixes(c)) > 1) => Prefixes(c)[r] = Prefixes(c)[1]
<1>1. /\ Rows(c) \in Nat \ {0} /\ UserRows(c) \in Nat \ {0}
      /\ Rows(c) = IF c.guided THEN UserRows(c) + UserRows(c) ELSE UserRows(c)
  BY CallFacts
<1>2. Prefixes(c) \in [1 .. Rows(c) -> {Prefixes(c)[i] : i \in 1 .. Rows(c)}]
  BY DEF Prefixes
<1>3. DOMAIN Prefixes(c) = 1 .. Rows(c) /\ Len(Prefixes(c)) = Rows(c)
  <2>1. Prefixes(c) \in Seq({Prefixes(c)[i] : i \in 1 .. Rows(c)})
    BY <1>1, <1>2, SeqDef
  <2>2. QED
    BY <1>1, <1>2, <2>1, LenProperties
<1>4. ASSUME NEW r \in 1 .. Rows(c), ~ (PrefixIsList(c) /\ Len(Prefixes(c)) > 1)
      PROVE  Prefixes(c)[r] = Prefixes(c)[1]
  <2>1. CASE ~ PrefixIsList(c)
    <3>1. ~ c.cross /\ ~ c.guided /\ Rows(c) = UserRows(c)
      BY <1>1, <2>1 DEF PrefixIsList
    <3>2. AllEqual(c.prefix) /\ c.prefix \in Seq(Nat \ {0})
      BY <3>1, WorkloadAssumption
    <3>3. DOMAIN c.prefix = 1 .. UserRows(c)
      BY <3>2, LenProperties DEF UserRows
    <3>4. c.prefix[r] = c.prefix[1]
      BY <1>1, <3>1, <3>2, <3>3 DEF AllEqual
    <3>5. UserOf(c, r) = r /\ UserOf(c, 1) = 1 /\ TextOf(c, r) = 1 /\ TextOf(c, 1) = 1
      BY <1>1, <3>1 DEF UserOf, TextOf
    <3>6. QED
      BY <1>1, <3>4, <3>5 DEF Prefixes, PrefixLen
  <2>2. CASE PrefixIsList(c)
    <3>1. Rows(c) = 1
      BY <1>1, <1>3, <1>4, <2>2
    <3>2. r = 1
      BY <3>1
    <3>3. QED
      BY <3>2
  <2>3. QED
    BY <2>1, <2>2
<1>5. QED
  BY <1>3, <1>4 DEF Prefixes

\* The cells of a prefix, by any engine's name for them, and their number.
LEMMA PrefixCellsFacts ==
  ASSUME NEW p, p.len \in Nat, p.src \in Int
  PROVE  /\ FI!PrefixCells(p) = PrefixCells(p)
         /\ Torch!PrefixCells(p) = PrefixCells(p) /\ MLX!PrefixCells(p) = PrefixCells(p)
         /\ DOMAIN PrefixCells(p) = 1 .. p.len
         /\ PrefixCells(p) \in Seq(Cells) /\ Len(PrefixCells(p)) = p.len
<1>1. /\ FI!PrefixCells(p) = PrefixCells(p)
      /\ Torch!PrefixCells(p) = PrefixCells(p) /\ MLX!PrefixCells(p) = PrefixCells(p)
  BY DEF PrefixCells, Cell, FI!PrefixCells, FI!Cell, Torch!PrefixCells, Torch!Cell,
     MLX!PrefixCells, MLX!Cell
<1>2. PrefixCells(p) \in [1 .. p.len -> Cells]
  <2> DEFINE a == p.src
             n == p.len
  <2>0. PrefixCells(p) = [i \in 1 .. n |-> Cell(a, i - 1, "prefix")]
    BY DEF PrefixCells
  <2>1. a \in Int /\ n \in Nat
    OBVIOUS
  <2> HIDE DEF a, n
  <2>2. \A i \in 1 .. n : Cell(a, i - 1, "prefix") \in Cells
    <3> DEFINE t == "prefix"
    <3>1. t \in Tokens
      BY DEF Tokens
    <3> HIDE DEF t
    <3>2. \A i \in 1 .. n : Cell(a, i - 1, t) \in Cells
      BY <2>1, <3>1 DEF Cell, Cells
    <3>3. QED
      BY <3>2 DEF t
  <2>3. PrefixCells(p) \in [1 .. n -> Cells]
    BY <2>0, <2>2
  <2>4. QED
    BY <2>3 DEF n
<1>3. PrefixCells(p) \in Seq(Cells)
  BY <1>2, SeqDef
<1>4. QED
  BY <1>1, <1>2, <1>3, LenProperties

\* A prefix, padded or not, is held by the columns it starts.
LEMMA PaddedHolds ==
  ASSUME NEW p, p.len \in Nat, p.src \in Int, NEW m \in Int, NEW pads,
         pads \in [1 .. m -> Cells]
  PROVE  /\ RowHolds(PrefixCells(p) \o pads, p.len, PrefixCells(p))
         /\ RowHolds(PrefixCells(p), p.len, PrefixCells(p))
         /\ RowHolds(SubSeq(PrefixCells(p) \o pads, 1, p.len), p.len, PrefixCells(p))
<1> DEFINE q == PrefixCells(p)
           n == p.len
           s == q \o pads
<1>1. q \in Seq(Cells) /\ Len(q) = n /\ n \in Nat
  BY PrefixCellsFacts
<1>2. pads \in Seq(Cells) /\ Len(pads) \in Nat
  <2>1. CASE m \in Nat
    BY <2>1, SeqDef, LenProperties
  <2>2. CASE m \notin Nat
    <3>1. 1 .. m = 1 .. 0
      BY <2>2
    <3>2. QED
      BY <3>1, SeqDef, LenProperties
  <2>3. QED
    BY <2>1, <2>2
<1> HIDE DEF q, n
<1>3. /\ s \in Seq(Cells) /\ Len(s) = Len(q) + Len(pads)
      /\ \A i \in 1 .. Len(q) + Len(pads) : s[i] = IF i <= Len(q) THEN q[i] ELSE pads[i - Len(q)]
  BY <1>1, <1>2, ConcatProperties
<1> HIDE DEF s
<1>4. Len(s) >= n /\ \A i \in 1 .. n : s[i] = q[i]
  BY <1>1, <1>2, <1>3
<1>5. \A i \in 1 .. n : s[i] \in Cells
  BY <1>1, <1>4, ElementOfSeq
<1>6. /\ SubSeq(s, 1, n) \in Seq(Cells) /\ Len(SubSeq(s, 1, n)) = n - 1 + 1
      /\ \A i \in 1 .. n - 1 + 1 : SubSeq(s, 1, n)[i] = s[1 + i - 1]
  BY <1>1, <1>3, <1>5, SubSeqProperties
<1>7. n - 1 + 1 = n /\ \A i \in 1 .. n : 1 + i - 1 = i
  BY <1>1
<1>8. Len(SubSeq(s, 1, n)) >= n /\ \A i \in 1 .. n : SubSeq(s, 1, n)[i] = q[i]
  BY <1>1, <1>4, <1>6, <1>7
<1>9. RowHolds(s, n, q) /\ RowHolds(SubSeq(s, 1, n), n, q)
  BY <1>3, <1>4, <1>6, <1>8 DEF RowHolds
<1>10. RowHolds(q, n, q)
  BY <1>1 DEF RowHolds
<1>11. QED
  BY <1>9, <1>10 DEF q, n, s

(* Rows of prefixes, padded to the longest. *)
Padded(ps) ==
  [r \in DOMAIN ps |->
     PrefixCells(ps[r]) \o
       [i \in 1 .. Largest([x \in DOMAIN ps |-> ps[x].len]) - ps[r].len |->
          PadCell(ps[r].len + i - 1)]]
Cut(ps) == [r \in DOMAIN ps |-> SubSeq(Padded(ps)[r], 1, ps[r].len)]

\* Padded rows and rows cut to their prefix hold the prefix.
LEMMA PaddedRows ==
  ASSUME NEW b \in DOMAIN Workload, NEW c \in Workload[b]
  PROVE  /\ InColumns(Padded(Prefixes(c)), PrefixLens(c), Prefixed(c))
         /\ InColumns(Cut(Prefixes(c)), PrefixLens(c), Prefixed(c))
<1> DEFINE ps == Prefixes(c)
           R == Rows(c)
           lens == [x \in DOMAIN ps |-> ps[x].len]
           top == Largest(lens)
<1>1. /\ R \in Nat \ {0} /\ DOMAIN ps = 1 .. R
      /\ \A r \in 1 .. R : /\ ps[r].len = PrefixLen(c, r) /\ ps[r].src = TextOf(c, r)
                           /\ PrefixLen(c, r) \in Nat \ {0} /\ TextOf(c, r) \in Nat
  BY CallFacts, PrefixesFacts, StartFacts
<1>2. lens \in Seq(Nat \ {0}) /\ Len(lens) = R
  <2>1. lens \in [1 .. R -> Nat \ {0}]
    BY <1>1
  <2> HIDE DEF lens, R
  <2>2. lens \in Seq(Nat \ {0})
    BY <1>1, <2>1, SeqDef
  <2>3. QED
    BY <1>1, <2>1, <2>2, LenProperties
<1>3. top \in Nat \ {0}
  <2> HIDE DEF lens, R
  <2>1. QED
    BY <1>1, <1>2, LargestFacts
<1> HIDE DEF top
<1>4. ASSUME NEW r \in 1 .. R
      PROVE  /\ RowHolds(Padded(ps)[r], PrefixLens(c)[r], Prefixed(c)[r])
             /\ RowHolds(Cut(ps)[r], PrefixLens(c)[r], Prefixed(c)[r])
  <2> DEFINE p == ps[r]
             n == p.len
             m == top - n
             pads == [i \in 1 .. m |-> PadCell(n + i - 1)]
  <2>1. p.len \in Nat /\ p.src \in Int /\ n \in Nat /\ m \in Int
    BY <1>1, <1>3
  <2>2. /\ Padded(ps)[r] = PrefixCells(p) \o pads
        /\ Cut(ps)[r] = SubSeq(PrefixCells(p) \o pads, 1, p.len)
        /\ PrefixLens(c)[r] = p.len /\ Prefixed(c)[r] = PrefixCells(p)
    BY <1>1 DEF Padded, Cut, PrefixLens, Prefixed, top
  <2> HIDE DEF p
  <2>3. pads \in [1 .. m -> Cells]
    <3> HIDE DEF m, n
    <3> DEFINE t == "pad"
    <3>1. t \in Tokens /\ \A i \in Int : PadCell(i) = Cell(0, i, t)
      BY DEF Tokens, PadCell
    <3> HIDE DEF t
    <3>2. \A i \in 1 .. m : PadCell(n + i - 1) \in Cells
      BY <2>1, <3>1 DEF Cell, Cells
    <3>3. QED
      BY <3>2
  <2> HIDE DEF pads, m, n
  <2>4. /\ RowHolds(PrefixCells(p) \o pads, p.len, PrefixCells(p))
        /\ RowHolds(SubSeq(PrefixCells(p) \o pads, 1, p.len), p.len, PrefixCells(p))
    BY <2>1, <2>3, PaddedHolds
  <2>5. QED
    BY <2>2, <2>4
<1>5. DOMAIN Prefixed(c) = 1 .. R
  BY DEF Prefixed
<1>6. QED
  BY <1>4, <1>5 DEF InColumns

\* Rows of one prefix hold it.
LEMMA SharedRows ==
  ASSUME NEW b \in DOMAIN Workload, NEW c \in Workload[b],
         ~ (PrefixIsList(c) /\ Len(Prefixes(c)) > 1)
  PROVE  /\ InColumns([r \in 1 .. Rows(c) |-> PrefixCells(Prefixes(c)[1])],
                      PrefixLens(c), Prefixed(c))
         /\ AllEqual(PrefixLens(c))
<1> DEFINE ps == Prefixes(c)
           R == Rows(c)
<1>1. /\ R \in Nat \ {0} /\ DOMAIN ps = 1 .. R
      /\ \A r \in 1 .. R : /\ ps[r].len = PrefixLen(c, r) /\ ps[r].src = TextOf(c, r)
                           /\ PrefixLen(c, r) \in Nat \ {0} /\ TextOf(c, r) \in Nat
                           /\ ps[r] = ps[1]
  BY CallFacts, PrefixesFacts, StartFacts
<1>2. AllEqual(PrefixLens(c))
  <2> HIDE DEF ps
  <2>1. \A r \in 1 .. R : PrefixLens(c)[r] = ps[1].len
    BY <1>1 DEF PrefixLens
  <2>2. QED
    BY <2>1 DEF AllEqual, PrefixLens
<1>3. ASSUME NEW r \in 1 .. R
      PROVE  RowHolds(PrefixCells(ps[1]), PrefixLens(c)[r], Prefixed(c)[r])
  <2> DEFINE p == ps[r]
  <2>1. p.len \in Nat /\ p.src \in Int
    BY <1>1
  <2>2. ps[1] = p /\ PrefixLens(c)[r] = p.len /\ Prefixed(c)[r] = PrefixCells(p)
    BY <1>1 DEF PrefixLens, Prefixed
  <2> HIDE DEF p
  <2>3. PrefixCells(p) \in Seq(Cells) /\ Len(PrefixCells(p)) = p.len
    BY <2>1, PrefixCellsFacts
  <2>4. RowHolds(PrefixCells(p), p.len, PrefixCells(p))
    BY <2>1, <2>3 DEF RowHolds
  <2>5. QED
    BY <2>2, <2>4
<1>4. DOMAIN Prefixed(c) = 1 .. R
  BY DEF Prefixed
<1>5. QED
  BY <1>2, <1>3, <1>4 DEF InColumns

\* The prefixes of a call on an engine that keeps columns.
LEMMA ColumnsPrefixed ==
  ASSUME NEW b \in {"torch", "mlx"}, b \in DOMAIN Workload, NEW c \in Workload[b],
         NEW e, Shaped(b, e), e.batch = Rows(c)
  PROVE  LET f == PrefixForward(b, e, PrefixIsList(c), Prefixes(c))
         IN Holds(b, f, PrefixLens(c), Prefixed(c)) /\ f.graph = e.graph
<1> DEFINE ps == Prefixes(c)
           list == PrefixIsList(c) /\ Len(ps) > 1
           f == PrefixForward(b, e, PrefixIsList(c), ps)
           same == [r \in 1 .. Rows(c) |-> PrefixCells(ps[1])]
<1>1. CASE list
  <2>1. /\ Torch!PrefixRagged(e, ps) =
             [e EXCEPT !.cache = Padded(ps), !.lens = [r \in DOMAIN ps |-> ps[r].len]]
        /\ MLX!PrefixRagged(e, ps) =
             [e EXCEPT !.cache = Padded(ps), !.own = Cut(ps),
                       !.lens = [r \in DOMAIN ps |-> ps[r].len]]
    <3> HIDE DEF ps
    <3>1. QED
      BY DEF Torch!PrefixRagged, MLX!PrefixRagged, Padded, Cut, Largest, Torch!Largest,
         MLX!Largest, PrefixCells, Torch!PrefixCells, MLX!PrefixCells, PadCell,
         Torch!PadCell, MLX!PadCell, Cell, Torch!Cell, MLX!Cell
  <2>2. InColumns(Padded(ps), PrefixLens(c), Prefixed(c))
        /\ InColumns(Cut(ps), PrefixLens(c), Prefixed(c))
    BY PaddedRows
  <2>3. CASE b = "torch"
    <3>1. f = Torch!PrefixRagged(e, ps) /\ Shaped("torch", e)
      BY <1>1, <2>3 DEF PrefixForward, Torch!PrefixForward
    <3> HIDE DEF f, ps
    <3>2. f.cache = Padded(ps) /\ f.graph = e.graph
      BY <2>1, <3>1 DEF Shaped, Fields
    <3>3. QED
      BY <2>2, <2>3, <3>2 DEF Holds, Columns, f, ps
  <2>4. CASE b = "mlx"
    <3>1. f = MLX!PrefixRagged(e, ps) /\ Shaped("mlx", e)
      BY <1>1, <2>4 DEF PrefixForward, MLX!PrefixForward
    <3> HIDE DEF f, ps
    <3>2. f.cache = Padded(ps) /\ f.own = Cut(ps) /\ f.graph = e.graph
      BY <2>1, <3>1 DEF Shaped, Fields
    <3>3. QED
      BY <2>2, <2>4, <3>2 DEF Holds, Columns, f, ps
  <2>5. QED
    BY <2>3, <2>4
<1>2. CASE ~ list
  <2>1. InColumns(same, PrefixLens(c), Prefixed(c)) /\ AllEqual(PrefixLens(c))
    BY <1>2, SharedRows
  <2>2. same = [r \in 1 .. e.batch |-> Torch!PrefixCells(ps[1])]
        /\ same = [r \in 1 .. e.batch |-> MLX!PrefixCells(ps[1])]
    BY DEF PrefixCells, Torch!PrefixCells, MLX!PrefixCells, Cell, Torch!Cell, MLX!Cell
  <2>3. f = [e EXCEPT !.cache = same, !.lens = [r \in 1 .. e.batch |-> ps[1].len]]
    <3> HIDE DEF same
    <3>1. QED
      BY <1>2, <2>2 DEF PrefixForward, Torch!PrefixForward, MLX!PrefixForward
  <2> HIDE DEF f, same, ps
  <2>4. f.cache = same /\ f.graph = e.graph
    BY <2>3 DEF Shaped, Fields
  <2>5. QED
    BY <2>1, <2>4 DEF Holds, Columns, f, ps
<1>3. QED
  BY <1>1, <1>2

(* Every prefix of a call fits the pages of its row. *)
PrefixFits(e, c) ==
  /\ Paged(e) /\ e.perRow \in Nat \ {0} /\ e.batch = Rows(c)
  /\ \A r \in 1 .. Rows(c) : PrefixLen(c, r) <= e.perRow * PageSize

\* A list of prefixes is written to each row's pages.
LEMMA BatchedPrefixes ==
  ASSUME NEW b \in DOMAIN Workload, NEW c \in Workload[b], NEW e,
         DOMAIN e = FIFields, PrefixFits(e, c)
  PROVE  LET f == FI!PrefixBatched(e, Prefixes(c))
         IN /\ InPages(f, PrefixLens(c), Prefixed(c)) /\ f.lens = PrefixLens(c)
            /\ f.graph = e.graph /\ f.planKey = e.planKey
<1> DEFINE ps == Prefixes(c)
           R == Rows(c)
           at == [r \in DOMAIN ps |-> 0]
           cells == [r \in DOMAIN ps |-> FI!PrefixCells(ps[r])]
           f == FI!PrefixBatched(e, ps)
           P == e.perRow
           W == FI!Written(e, at, cells)
<1>1. /\ R \in Nat \ {0} /\ DOMAIN ps = 1 .. R
      /\ \A r \in 1 .. R : /\ ps[r].len = PrefixLen(c, r) /\ ps[r].src = TextOf(c, r)
                           /\ PrefixLen(c, r) \in Nat \ {0} /\ TextOf(c, r) \in Nat
  BY CallFacts, PrefixesFacts, StartFacts
<1>2. /\ f.kv = W /\ f.perRow = P /\ f.graph = e.graph /\ f.planKey = e.planKey
      /\ f.lens = [r \in DOMAIN ps |-> ps[r].len]
  <2> HIDE DEF ps
  <2>1. QED
    BY DEF FI!PrefixBatched, FIFields
<1> HIDE DEF f, W
<1>3. ASSUME NEW r \in 1 .. R
      PROVE  /\ cells[r] = Prefixed(c)[r] /\ DOMAIN cells[r] = 1 .. PrefixLens(c)[r]
             /\ PrefixLens(c)[r] \in Nat /\ at[r] = 0
             /\ PrefixLens(c)[r] <= P * PageSize
  <2> DEFINE p == ps[r]
  <2>1. p.len \in Nat /\ p.src \in Int
    BY <1>1
  <2>2. cells[r] = FI!PrefixCells(p) /\ Prefixed(c)[r] = PrefixCells(p)
        /\ PrefixLens(c)[r] = p.len /\ at[r] = 0
    BY <1>1 DEF PrefixLens, Prefixed
  <2>3. PrefixLens(c)[r] <= P * PageSize
    BY DEF PrefixFits, PrefixLens
  <2> HIDE DEF p, cells, at
  <2>4. FI!PrefixCells(p) = PrefixCells(p) /\ DOMAIN PrefixCells(p) = 1 .. p.len
    BY <2>1, PrefixCellsFacts
  <2>5. QED
    BY <2>1, <2>2, <2>3, <2>4
<1>4. DOMAIN cells = 1 .. R
  BY <1>1
<1> HIDE DEF cells, at
<1>5. RoomFor(e, at, cells)
  <2>1. ASSUME NEW r \in 1 .. R
        PROVE  /\ at[r] \in Nat
               /\ \E m \in Nat : DOMAIN cells[r] = 1 .. m /\ at[r] + m <= e.perRow * PageSize
    <3> DEFINE m == PrefixLens(c)[r]
               n == P * PageSize
    <3>1. m \in Nat /\ DOMAIN cells[r] = 1 .. m /\ m <= n /\ at[r] = 0
      BY <1>3
    <3> HIDE DEF m
    <3>2. at[r] + m <= n
      BY <3>1
    <3>3. QED
      BY <3>1, <3>2
  <2>2. QED
    BY <1>4, <2>1 DEF RoomFor
<1>6. Lies(e, at, cells, W)
  <2>1. DOMAIN cells \subseteq 1 .. e.batch /\ e.batch \in Nat
    BY <1>1, <1>4 DEF PrefixFits
  <2>2. QED
    BY <1>5, <2>1, WrittenCells DEF W, PrefixFits
<1>7. ASSUME NEW r \in 1 .. R, NEW i \in 1 .. PrefixLens(c)[r]
      PROVE  f.kv[FI!SlotOf(f.perRow, r, i - 1)] = Prefixed(c)[r][i]
  <2>1. W[FI!SlotOf(P, r, at[r] + i - 1)] = cells[r][i]
    BY <1>3, <1>4, <1>6 DEF Lies
  <2>2. at[r] + i - 1 = i - 1
    <3>1. at[r] = 0 /\ i \in Nat
      BY <1>3
    <3>2. QED
      BY <3>1
  <2>3. cells[r][i] = Prefixed(c)[r][i]
    BY <1>3
  <2>4. QED
    BY <1>2, <2>1, <2>2, <2>3
<1>8. InPages(f, PrefixLens(c), Prefixed(c))
  BY <1>7 DEF InPages, Prefixed
<1>9. f.lens = PrefixLens(c)
  <2>1. f.lens = [r \in 1 .. R |-> PrefixLen(c, r)]
    BY <1>1, <1>2
  <2>2. QED
    BY <2>1 DEF PrefixLens
<1>10. QED
  BY <1>2, <1>8, <1>9 DEF f

\* One prefix is written to the pages of row 1 and its pages are copied.
LEMMA SharedPrefix ==
  ASSUME NEW b \in DOMAIN Workload, NEW c \in Workload[b], NEW e,
         DOMAIN e = FIFields, PrefixFits(e, c),
         ~ (PrefixIsList(c) /\ Len(Prefixes(c)) > 1)
  PROVE  LET f == FI!PrefixShared(e, Prefixes(c)[1])
         IN /\ InPages(f, PrefixLens(c), Prefixed(c)) /\ f.lens = PrefixLens(c)
            /\ f.graph = e.graph /\ f.planKey = e.planKey
<1> DEFINE p == Prefixes(c)[1]
           R == Rows(c)
           at == [x \in {1} |-> 0]
           cells == [x \in {1} |-> FI!PrefixCells(p)]
           one == FI!PrefixRow(e, 1, p)
           f == FI!PrefixShared(e, p)
           P == e.perRow
           n == p.len
           W == FI!Written(e, at, cells)
           copied == FI!CeilDiv(n, PageSize)
<1>1. /\ R \in Nat \ {0} /\ n \in Nat \ {0} /\ p.src \in Int
      /\ \A r \in 1 .. R : PrefixLens(c)[r] = n /\ Prefixed(c)[r] = PrefixCells(p)
  <2>1. R \in Nat \ {0} /\ 1 \in 1 .. R
    BY CallFacts
  <2>2. \A r \in 1 .. R : /\ Prefixes(c)[r].len = PrefixLen(c, r)
                          /\ Prefixes(c)[r].src = TextOf(c, r)
                          /\ PrefixLen(c, r) \in Nat \ {0} /\ TextOf(c, r) \in Nat
                          /\ Prefixes(c)[r] = p
    BY PrefixesFacts, StartFacts
  <2> HIDE DEF p
  <2>3. \A r \in 1 .. R : PrefixLens(c)[r] = n /\ Prefixed(c)[r] = PrefixCells(p)
    BY <2>2 DEF PrefixLens, Prefixed
  <2>4. QED
    BY <2>1, <2>2, <2>3
<1>2. P \in Nat \ {0} /\ e.batch = R /\ n <= P * PageSize /\ PageSize \in Nat \ {0}
  <2>1. 1 \in 1 .. R
    BY <1>1
  <2>2. PrefixLen(c, 1) = n
    <3>1. PrefixLens(c)[1] = PrefixLen(c, 1)
      BY <2>1 DEF PrefixLens
    <3>2. QED
      BY <1>1, <2>1, <3>1
  <2>3. QED
    BY <2>1, <2>2, BlockAssumption DEF PrefixFits
<1> HIDE DEF p
<1>3. /\ one.kv = W /\ DOMAIN one = FIFields /\ one.perRow = P /\ one.graph = e.graph
      /\ one.planKey = e.planKey
  BY DEF FI!PrefixRow, FIFields
<1>4. /\ f.kv = [s \in DOMAIN e.kv |->
                   IF s[1] % P < copied THEN W[<<s[1] % P, s[2]>>] ELSE W[s]]
      /\ f.perRow = P /\ f.graph = e.graph /\ f.planKey = e.planKey
      /\ f.lens = [r \in 1 .. e.batch |-> n]
  <2> HIDE DEF one, W
  <2>1. f = [one EXCEPT
          !.kv = [s \in DOMAIN e.kv |->
                    IF s[1] % e.perRow < copied
                      THEN one.kv[<<s[1] % e.perRow, s[2]>>] ELSE one.kv[s]],
          !.lens = [r \in 1 .. e.batch |-> p.len]]
    BY DEF one, FI!PrefixShared
  <2>2. QED
    BY <1>3, <2>1 DEF FIFields
<1> HIDE DEF f, one, W, copied
<1>5. cells[1] = PrefixCells(p) /\ DOMAIN cells[1] = 1 .. n /\ at[1] = 0 /\ DOMAIN cells = {1}
  <2>1. FI!PrefixCells(p) = PrefixCells(p) /\ DOMAIN PrefixCells(p) = 1 .. n
    <3>1. p.len \in Nat /\ p.src \in Int
      BY <1>1
    <3>2. QED
      BY <3>1, PrefixCellsFacts
  <2>2. QED
    BY <2>1
<1> HIDE DEF cells, at
<1>6. Lies(e, at, cells, W)
  <2>1. DOMAIN cells \subseteq 1 .. e.batch /\ e.batch \in Nat
    BY <1>1, <1>2, <1>5
  <2>2. at[1] + n <= e.perRow * PageSize
    <3> DEFINE m == e.perRow * PageSize
    <3>1. n <= m /\ n \in Nat /\ at[1] = 0
      BY <1>1, <1>2, <1>5
    <3> HIDE DEF m, n
    <3>2. QED
      BY <3>1 DEF m
  <2>3. RoomFor(e, at, cells)
    BY <1>1, <1>5, <2>2 DEF RoomFor
  <2>4. QED
    BY <1>2, <2>1, <2>3, WrittenCells DEF W, PrefixFits
<1>7. ASSUME NEW r \in 1 .. R, NEW i \in 1 .. n
      PROVE  f.kv[FI!SlotOf(P, r, i - 1)] = PrefixCells(p)[i]
  <2> DEFINE q == (i - 1) \div PageSize
             o == (i - 1) % PageSize
             s == FI!SlotOf(P, r, i - 1)
  <2>1. i - 1 \in Nat /\ i - 1 < n /\ i - 1 < P * PageSize
    <3> DEFINE m == P * PageSize
    <3>1. m \in Nat /\ n <= m
      BY <1>2
    <3> HIDE DEF m, n
    <3>2. i - 1 \in Nat /\ i - 1 < n /\ i - 1 < m
      BY <1>1, <3>1
    <3>3. QED
      BY <3>2 DEF m
  <2>2. q \in Nat /\ q * PageSize <= i - 1
    BY <1>2, <2>1
  <2>3. q < P
    <3> HIDE DEF q
    <3>1. P \in Nat /\ PageSize \in Nat \ {0}
      BY <1>2
    <3>2. QED
      BY <2>1, <2>2, <3>1, PageBelow
  <2>4. q < copied
    <3>1. copied \in Nat /\ copied * PageSize >= n
      <4>1. n \in Nat
        BY <1>1
      <4>2. copied = CeilDiv(n, PageSize)
        BY DEF copied, FI!CeilDiv, CeilDiv
      <4>3. QED
        BY <1>2, <4>1, <4>2, CeilFacts
    <3> HIDE DEF q, n
    <3>2. QED
      BY <1>1, <1>2, <2>1, <2>2, <3>1
  <2>5. s = <<(r - 1) * P + q, o>>
    BY DEF FI!SlotOf
  <2>6. s \in DOMAIN e.kv
    <3>1. s \in (0 .. R * P - 1) \X (0 .. PageSize - 1)
      <4>1. i - 1 \in Nat /\ i - 1 < P * PageSize /\ R \in Nat
        BY <1>1, <2>1
      <4> HIDE DEF P
      <4>2. P \in Nat \ {0}
        BY <1>2
      <4>3. QED
        BY <4>1, <4>2, SlotFacts
    <3>2. QED
      BY <1>2, <3>1 DEF PrefixFits, Paged
  <2> HIDE DEF s, q, o
  <2>7. s[1] % P = q /\ s[2] = o
    <3>1. ((r - 1) * P + q) % P = q
      <4> DEFINE a == r - 1
                 x == a * P + q
      <4>0. a \in Nat /\ P \in Nat \ {0} /\ q \in Nat /\ q < P
        BY <1>1, <1>2, <2>2, <2>3
      <4> HIDE DEF a, P
      <4>1. x \div P = a /\ x \in Nat /\ a * P \in Nat
        BY <4>0
      <4>2. x = (x \div P) * P + (x % P) /\ x % P \in Nat
        <5> HIDE DEF x
        <5>1. QED
          BY <4>0, <4>1
      <4> DEFINE z == a * P
      <4>3. x = z + (x % P) /\ x = z + q
        BY <4>1, <4>2
      <4> HIDE DEF x, z
      <4>4. x % P = q
        BY <4>0, <4>1, <4>2, <4>3 DEF z
      <4>5. QED
        BY <4>4 DEF x, a
    <3>2. QED
      BY <2>5, <3>1
  <2>8. f.kv[s] = W[<<q, o>>]
    BY <1>4, <2>4, <2>6, <2>7
  <2>9. FI!SlotOf(P, 1, i - 1) = <<q, o>>
    <3>1. FI!SlotOf(P, 1, i - 1) = <<(1 - 1) * P + q, o>>
      BY DEF FI!SlotOf, q, o
    <3>2. (1 - 1) * P + q = q
      BY <1>2, <2>2
    <3>3. QED
      BY <3>1, <3>2
  <2>10. W[FI!SlotOf(P, 1, at[1] + i - 1)] = cells[1][i]
    BY <1>5, <1>6 DEF Lies
  <2>11. at[1] + i - 1 = i - 1
    BY <1>5, <2>1
  <2>12. QED
    BY <1>5, <2>8, <2>9, <2>10, <2>11 DEF s
<1>8. InPages(f, PrefixLens(c), Prefixed(c))
  <2>1. DOMAIN Prefixed(c) = 1 .. R
    BY DEF Prefixed
  <2>2. QED
    BY <1>1, <1>4, <1>7, <2>1 DEF InPages
<1>9. f.lens = PrefixLens(c)
  <2>1. PrefixLens(c) = [r \in 1 .. R |-> PrefixLens(c)[r]]
    BY DEF PrefixLens
  <2>2. QED
    BY <1>1, <1>2, <1>4, <2>1
<1>10. QED
  BY <1>4, <1>8, <1>9 DEF f, p

\* After its prefixes, each row of a call holds its own.
LEMMA PrefixContext ==
  ASSUME NEW b \in {"flashinfer", "torch", "mlx"}, b \in DOMAIN Workload,
         NEW c \in Workload[b], NEW e, Shaped(b, e), e.batch = Rows(c),
         b = "flashinfer" => PrefixFits(e, c)
  PROVE  LET f == PrefixForward(b, e, PrefixIsList(c), Prefixes(c))
         IN /\ Holds(b, f, PrefixLens(c), Prefixed(c)) /\ f.graph = e.graph
            /\ b = "flashinfer" => f.lens = PrefixLens(c) /\ f.planKey = e.planKey
<1>1. CASE b = "flashinfer"
  <2> DEFINE f == FI!PrefixForward(e, PrefixIsList(c), Prefixes(c))
             batched == FI!PrefixBatched(e, Prefixes(c))
             shared == FI!PrefixShared(e, Prefixes(c)[1])
  <2>1. /\ PrefixForward(b, e, PrefixIsList(c), Prefixes(c)) = f
        /\ DOMAIN e = FIFields /\ PrefixFits(e, c)
        /\ f = IF PrefixIsList(c) /\ Len(Prefixes(c)) > 1 THEN batched ELSE shared
    BY <1>1 DEF PrefixForward, FI!PrefixForward, Shaped, Fields
  <2>2. /\ InPages(f, PrefixLens(c), Prefixed(c)) /\ f.lens = PrefixLens(c)
        /\ f.graph = e.graph /\ f.planKey = e.planKey
    <3>1. CASE PrefixIsList(c) /\ Len(Prefixes(c)) > 1
      <4>1. f = batched
        BY <2>1, <3>1
      <4> HIDE DEF f
      <4>2. QED
        BY <2>1, <4>1, BatchedPrefixes
    <3>2. CASE ~ (PrefixIsList(c) /\ Len(Prefixes(c)) > 1)
      <4>1. f = shared
        BY <2>1, <3>2
      <4> HIDE DEF f
      <4>2. QED
        BY <2>1, <3>2, <4>1, SharedPrefix
    <3>3. QED
      BY <3>1, <3>2
  <2>3. QED
    BY <1>1, <2>1, <2>2 DEF Holds
<1>2. CASE b # "flashinfer"
  <2>1. b \in {"torch", "mlx"}
    BY <1>2
  <2>2. QED
    BY <1>2, <2>1, ColumnsPrefixed
<1>3. QED
  BY <1>1, <1>2

(* What the rows of a call c with tokens x hold at a position that is settled, *)
(* and what they hold in front of block b.                                     *)
SettledIn(c, x, r, pos) ==
  IF pos < PrefixLen(c, r) THEN Cell(TextOf(c, r), pos, "prefix")
  ELSE Cell(r, pos, x[r][pos - PrefixLen(c, r) + 1])
ContextOf(c, x, b) ==
  [r \in 1 .. Rows(c) |->
     [i \in 1 .. PrefixLen(c, r) + b * BlockSize |-> SettledIn(c, x, r, i - 1)]]
ShiftOf(c, x, b) ==
  [r \in 1 .. Rows(c) |-> SettledIn(c, x, r, PrefixLen(c, r) + b * BlockSize - 1)]

(* The graph's plan, if any, is of a block up to b of this call. *)
Behind(e, c, b) ==
  e.planKey = FI!NoKey \/ \E j \in 0 .. b : e.planKey.at = CacheStarts(c, j).at

(* What an engine with a graph is ready for at block b. *)
PlanReady(e, c, b) ==
  backend = "flashinfer" => PlanFits(e, CacheStarts(c, b)) /\ Behind(e, c, b)

(* The strengthening: the cache holds what is settled in front of the block, *)
(* the shift context is the token before it, the graph's plan is none or one *)
(* of this call, and the graph was given the shift context it replays with.  *)
ContextKept ==
  phase # "idle" =>
    /\ Holds(backend, engine, CacheStarts(call, blk).at, ContextOf(call, xt, blk))
    /\ shift = ShiftOf(call, xt, blk)
    /\ PlanReady(engine, call, blk)
    /\ engine.graph /\ BlockLen(call, blk) = BlockSize /\ k > 0 /\ phase = "step" =>
         engine.gShift = shift
ContextInv == ContextKept /\ SeesItsContext

\* No rows start nowhere.
LEMMA StartsAreSome ==
  ASSUME NEW R \in Nat \ {0}, NEW starts, DOMAIN starts.at = 1 .. R
  PROVE  starts # FI!NoKey
<1>1. FI!NoKey.at = << >> /\ DOMAIN << >> = {}
  BY DEF FI!NoKey
<1>2. 1 \in DOMAIN starts.at
  OBVIOUS
<1>3. QED
  BY <1>1, <1>2

\* The capture of a graph writes a block where the prefixes end: they are kept.
LEMMA CaptureContext ==
  ASSUME NEW e, DOMAIN e = FIFields, NEW R \in Nat \ {0},
         e.lens \in [1 .. R -> Nat \ {0}], NEW want, DOMAIN want = 1 .. R,
         InPages(e, e.lens, want), Room("flashinfer", e, R, e.lens, BlockSize),
         e.planKey = FI!NoKey
  PROVE  LET f == FI!CaptureGraph(e, BlockSize)
         IN /\ InPages(f, e.lens, want)
            /\ f.planKey = FI!NoKey \/ f.planKey.at = e.lens
            /\ \A starts : DOMAIN starts.at = 1 .. R => PlanFits(f, starts)
<1> DEFINE f == FI!CaptureGraph(e, BlockSize)
           at == e.lens
<1>1. CASE e.graph
  <2>1. f = e
    BY <1>1 DEF FI!CaptureGraph
  <2>2. ASSUME NEW starts, DOMAIN starts.at = 1 .. R PROVE PlanFits(e, starts)
    BY <2>2, StartsAreSome DEF PlanFits
  <2>3. QED
    BY <2>1, <2>2
<1>2. CASE ~ e.graph
  <2> DEFINE zeros == [r \in 1 .. e.batch |-> [i \in 1 .. BlockSize |-> "warmup"]]
             starts == [list |-> TRUE, at |-> at]
             ends == FI!Ends(at, BlockSize)
             p == FI!PlanGraph(e, starts, BlockSize)
             g == FI!Pass(p, zeros, at, ends, at)
             h == [g EXCEPT !.graph = TRUE]
  <2>1. starts.at = at /\ starts.list = TRUE
    OBVIOUS
  <2>2. /\ DOMAIN p = FIFields /\ p.maxSeq = e.maxSeq /\ p.batch = e.batch
        /\ p.perRow = e.perRow /\ p.kv = e.kv /\ p.planKey = starts
        /\ p.writeAt = at /\ p.readLen = ends /\ p.rope = at
    <3> HIDE DEF starts
    <3>1. p = [e EXCEPT !.writeAt = at, !.readLen = ends, !.rope = at, !.planKey = starts]
      BY <2>1 DEF FI!PlanGraph
    <3> HIDE DEF p, at, ends
    <3>2. QED
      BY <3>1 DEF FIFields
  <2>3. f = h
    <3>1. f = [FI!GraphBody(p, zeros) EXCEPT !.graph = TRUE]
      BY <1>2 DEF FI!CaptureGraph
    <3>2. FI!GraphBody(p, zeros) = g
      <4> HIDE DEF p, zeros
      <4>1. QED
        BY <2>2 DEF FI!GraphBody
    <3>3. QED
      BY <3>1, <3>2
  <2>4. BlockSize \in Nat \ {0} /\ e.batch = R
    BY BlockAssumption DEF Room
  <2>5. Given(zeros, R, BlockSize)
    <3> DEFINE n == BlockSize
               t == "warmup"
    <3>1. n \in Nat /\ t \in Tokens
      BY <2>4 DEF Tokens
    <3>2. zeros = [r \in 1 .. R |-> [i \in 1 .. n |-> t]]
      BY <2>4
    <3> HIDE DEF n, t, zeros
    <3>3. [i \in 1 .. n |-> t] \in [1 .. n -> Tokens]
      BY <3>1
    <3>4. [i \in 1 .. n |-> t] \in Seq(Tokens)
      BY <3>1, <3>3, SeqDef
    <3>5. Len([i \in 1 .. n |-> t]) = n
      BY <3>1, <3>3, <3>4, LenProperties
    <3>6. Given(zeros, R, n)
      BY <3>2, <3>4, <3>5 DEF Given
    <3>7. QED
      BY <3>6 DEF n
  <2> HIDE DEF p, zeros, starts
  <2>6. Room("flashinfer", p, R, at, BlockSize) /\ InPages(p, at, want)
    BY <2>2 DEF Room, InPages, Paged
  <2>7. at \in [1 .. R -> Nat \ {0}]
    OBVIOUS
  <2>8. Ran("flashinfer", g, at, zeros, BlockSize, want)
        /\ g.readLen = p.readLen /\ g.rope = at
    <3> HIDE DEF at, g
    <3>1. QED
      BY <2>2, <2>4, <2>5, <2>6, <2>7, PassContext DEF g, ends
  <2>9. /\ g.planKey = starts /\ g.writeAt = at /\ DOMAIN g = FIFields
        /\ g.perRow = p.perRow
    <3> HIDE DEF at, ends
    <3>1. QED
      BY <2>2 DEF FI!Pass, FIFields
  <2>10. Holds("flashinfer", g, at, want)
    <3>1. Holds("flashinfer", g, FI!Ends(at, BlockSize), Grown(want, at, zeros, BlockSize))
      BY <2>8 DEF Ran
    <3> HIDE DEF at, g
    <3>2. QED
      BY <2>4, <2>7, <3>1, HoldsPart
  <2> HIDE DEF g
  <2>11. /\ h.kv = g.kv /\ h.perRow = g.perRow /\ h.planKey = starts
         /\ h.writeAt = at /\ h.readLen = ends /\ h.rope = at
    BY <2>2, <2>8, <2>9 DEF FIFields
  <2> HIDE DEF h
  <2>12. InPages(h, at, want)
    BY <2>10, <2>11 DEF Holds, InPages
  <2>13. \A s : PlanFits(h, s)
    BY <2>1, <2>11 DEF PlanFits
  <2> HIDE DEF f, at
  <2>14. QED
    BY <2>1, <2>3, <2>11, <2>12, <2>13 DEF f, at
<1>3. QED
  BY <1>1, <1>2

\* Before the first block a row holds its prefix.
LEMMA FirstContext ==
  ASSUME NEW b \in DOMAIN Workload, NEW c \in Workload[b], NEW x
  PROVE  /\ ContextOf(c, x, 0) = Prefixed(c) /\ CacheStarts(c, 0).at = PrefixLens(c)
         /\ ShiftOf(c, x, 0) =
              [r \in 1 .. Rows(c) |-> Cell(TextOf(c, r), PrefixLen(c, r) - 1, "prefix")]
<1>1. \A r \in 1 .. Rows(c) : PrefixLen(c, r) \in Nat \ {0}
  BY StartFacts
<1>2. 0 * BlockSize = 0
  BY BlockAssumption
<1>3. \A r \in 1 .. Rows(c) : PrefixLen(c, r) + 0 * BlockSize = PrefixLen(c, r)
  BY <1>1, <1>2
<1>4. CacheStarts(c, 0).at = PrefixLens(c)
  BY <1>3 DEF CacheStarts, PrefixLens
<1>5. ASSUME NEW r \in 1 .. Rows(c) PROVE ContextOf(c, x, 0)[r] = Prefixed(c)[r]
  <2> DEFINE n == PrefixLen(c, r)
             a == TextOf(c, r)
  <2>1. ContextOf(c, x, 0)[r] = [i \in 1 .. n |-> SettledIn(c, x, r, i - 1)]
    BY <1>3 DEF ContextOf
  <2>2. Prefixed(c)[r] = [i \in 1 .. n |-> Cell(a, i - 1, "prefix")]
    BY DEF Prefixed, PrefixCells, Prefixes
  <2>3. ASSUME NEW i \in 1 .. n PROVE SettledIn(c, x, r, i - 1) = Cell(a, i - 1, "prefix")
    <3>1. i - 1 < n
      BY <1>1
    <3>2. QED
      BY <3>1 DEF SettledIn
  <2> HIDE DEF n, a
  <2>4. QED
    BY <2>1, <2>2, <2>3
<1>6. ContextOf(c, x, 0) = Prefixed(c)
  <2>1. ContextOf(c, x, 0) = [r \in 1 .. Rows(c) |-> ContextOf(c, x, 0)[r]]
    BY DEF ContextOf
  <2>2. Prefixed(c) = [r \in 1 .. Rows(c) |-> Prefixed(c)[r]]
    BY DEF Prefixed
  <2>3. QED
    BY <1>5, <2>1, <2>2
<1>7. ASSUME NEW r \in 1 .. Rows(c)
      PROVE  SettledIn(c, x, r, PrefixLen(c, r) + 0 * BlockSize - 1)
               = Cell(TextOf(c, r), PrefixLen(c, r) - 1, "prefix")
  <2>1. PrefixLen(c, r) - 1 < PrefixLen(c, r)
    BY <1>1
  <2>2. PrefixLen(c, r) + 0 * BlockSize - 1 = PrefixLen(c, r) - 1
    <3> DEFINE z == 0 * BlockSize
               n == PrefixLen(c, r)
    <3>1. z = 0 /\ n \in Nat
      BY <1>1, <1>2
    <3> HIDE DEF z, n
    <3>2. n + (z - 1) = n - 1
      BY <3>1
    <3>3. QED
      BY <3>2 DEF z, n
  <2>3. QED
    BY <2>1, <2>2 DEF SettledIn
<1>8. QED
  BY <1>4, <1>6, <1>7 DEF ShiftOf

\* An engine that is new or reset has no plan.
LEMMA EngineForPlan ==
  ASSUME BInv, NEW c \in Workload[backend], backend = "flashinfer"
  PROVE  EngineFor(c).planKey = FI!NoKey
<1>1. CASE engine # NoEngine /\ CanReuse(backend, engine, Needed(c), Rows(c))
  <2>1. EngineFor(c) = FI!Reset(engine)
    BY <1>1 DEF EngineFor, Reset
  <2>2. DOMAIN engine = FIFields
    BY <1>1 DEF BInv, EngineOK, Shaped, Fields
  <2>3. QED
    BY <2>1, <2>2 DEF FI!Reset, FIFields
<1>2. CASE ~ (engine # NoEngine /\ CanReuse(backend, engine, Needed(c), Rows(c)))
  <2>1. EngineFor(c) = FI!NewEngine(Allocated(c), Rows(c))
    BY <1>2 DEF EngineFor, Build
  <2>2. QED
    BY <2>1 DEF FI!NewEngine
<1>3. QED
  BY <1>1, <1>2

\* The pages of the engine a call starts with have room for its prefixes and,
\* where a graph is captured, for a block after each.
LEMMA RoomToStart ==
  ASSUME BInv, NEW c \in Workload[backend], NEW e, backend = "flashinfer", WarmupFits,
         Paged(e), e.batch = Rows(c), e.maxSeq \in Nat, e.maxSeq >= Needed(c)
  PROVE  PrefixFits(e, c) /\ Room("flashinfer", e, Rows(c), PrefixLens(c), BlockSize)
<1>1. backend \in DOMAIN Workload /\ BlockSize \in Nat /\ PageSize \in Nat /\ Slack \in Nat
      /\ BlockSize <= Slack + 1
  BY BlockAssumption DEF BInv, TypeOK, WarmupFits
<1>2. Needed(c) \in Nat \ {0} /\ SpeechLen(c) \in Nat \ {0}
  BY <1>1, CallFacts
<1>3. e.perRow \in Nat \ {0} /\ e.maxSeq <= e.perRow * PageSize
  BY <1>2, PagesFacts
<1>4. ASSUME NEW r \in 1 .. Rows(c)
      PROVE  /\ PrefixLen(c, r) <= e.perRow * PageSize
             /\ PrefixLens(c)[r] + BlockSize <= e.perRow * PageSize
  <2> DEFINE n == PrefixLen(c, r)
             m == e.perRow * PageSize
  <2>1. n \in Nat \ {0} /\ n + SpeechLen(c) + Slack <= Needed(c)
    BY <1>1, StartFacts
  <2>2. m \in Nat /\ PrefixLens(c)[r] = n
    BY <1>1, <1>3 DEF PrefixLens
  <2> HIDE DEF n, m
  <2>3. n <= m /\ n + BlockSize <= m
    BY <1>1, <1>2, <1>3, <2>1, <2>2 DEF m
  <2>4. QED
    BY <2>2, <2>3 DEF n, m
<1>5. QED
  BY <1>3, <1>4 DEF PrefixFits, Room

\* A call starts with its rows' prefixes and no plan of an earlier call.
LEMMA GenerateContext ==
  ASSUME BInv, Generate, WarmupFits
  PROVE  ContextInv'
<1>1. /\ backend' = backend /\ backend \in DOMAIN Workload
      /\ backend \in {"flashinfer", "torch", "mlx"}
  BY BackendAssumption DEF BInv, TypeOK, Generate
<1>2. PICK c \in Workload[backend] :
        /\ call' = c
        /\ engine' = LET seeded == PrefixForward(backend, EngineFor(c), PrefixIsList(c),
                                                 Prefixes(c))
                     IN IF c.graph THEN Capture(backend, seeded) ELSE seeded
        /\ shift' = [r \in 1 .. Rows(c) |->
                       Cell(TextOf(c, r), PrefixLen(c, r) - 1, "prefix")]
        /\ phase' = "step" /\ blk' = 0 /\ k' = 0
  BY DEF Generate
<1>3. UserRows(c) \in Nat \ {0} /\ Rows(c) \in Nat \ {0} /\ c # NoCall
      /\ Needed(c) \in Nat \ {0}
  BY <1>1, CallFacts
<1> DEFINE e == EngineFor(c)
           list == PrefixIsList(c)
           ps == Prefixes(c)
           seeded == PrefixForward(backend, e, list, ps)
           at == PrefixLens(c)
           want == Prefixed(c)
<1>4. /\ Shaped(backend, e) /\ e.batch = Rows(c)
      /\ e.maxSeq \in Nat /\ e.maxSeq >= Needed(c)
      /\ backend = "flashinfer" => Paged(e) /\ Plain(e) /\ PlanKept(e)
  BY EngineForFacts
<1>5. backend = "flashinfer" => e.planKey = FI!NoKey
  BY EngineForPlan
<1> HIDE DEF e
<1>6. backend = "flashinfer" => PrefixFits(e, c)
  BY <1>4, RoomToStart
<1>7. /\ Holds(backend, seeded, at, want) /\ seeded.graph = e.graph
      /\ backend = "flashinfer" => seeded.lens = at /\ seeded.planKey = e.planKey
  BY <1>1, <1>4, <1>6, PrefixContext
<1>8. /\ Sized(backend, e.maxSeq, e.batch, seeded)
      /\ backend = "flashinfer" => Paged(seeded)
  <2>1. backend = "flashinfer" => e.batch \in Nat \ {0} /\ e.perRow \in Nat \ {0}
    BY <1>3, <1>4, <1>6 DEF PrefixFits
  <2>2. QED
    BY <1>1, <1>4, <2>1, PrefixFacts
<1>9. engine' = IF c.graph THEN Capture(backend, seeded) ELSE seeded
  BY <1>2 DEF e
<1> HIDE DEF seeded, list, ps
<1>10. /\ at \in [1 .. Rows(c) -> Nat \ {0}] /\ DOMAIN want = 1 .. Rows(c)
  BY <1>1, StartFacts DEF PrefixLens, Prefixed
<1>11. /\ Holds(backend, engine', at, want)
       /\ backend = "flashinfer" =>
            /\ engine'.planKey = FI!NoKey \/ engine'.planKey.at = at
            /\ PlanFits(engine', CacheStarts(c, 0))
  <2>0. DOMAIN CacheStarts(c, 0).at = 1 .. Rows(c)
    BY DEF CacheStarts
  <2>1. CASE backend = "flashinfer" /\ c.graph
    <3>1. engine' = FI!CaptureGraph(seeded, BlockSize)
      BY <1>9, <2>1 DEF Capture
    <3>2. /\ DOMAIN seeded = FIFields /\ seeded.lens = at /\ seeded.planKey = FI!NoKey
          /\ Paged(seeded) /\ seeded.batch = Rows(c) /\ seeded.maxSeq = e.maxSeq
          /\ InPages(seeded, at, want)
      BY <1>4, <1>5, <1>7, <1>8, <2>1 DEF Sized, Shaped, Fields, Holds
    <3>3. Room("flashinfer", seeded, Rows(c), at, BlockSize)
      BY <1>4, <2>1, <3>2, RoomToStart
    <3> HIDE DEF at, want
    <3>4. /\ InPages(engine', at, want)
          /\ engine'.planKey = FI!NoKey \/ engine'.planKey.at = at
          /\ \A starts : DOMAIN starts.at = 1 .. Rows(c) => PlanFits(engine', starts)
      <4>1. /\ InPages(FI!CaptureGraph(seeded, BlockSize), seeded.lens, want)
            /\ \/ FI!CaptureGraph(seeded, BlockSize).planKey = FI!NoKey
               \/ FI!CaptureGraph(seeded, BlockSize).planKey.at = seeded.lens
            /\ \A starts : DOMAIN starts.at = 1 .. Rows(c) =>
                 PlanFits(FI!CaptureGraph(seeded, BlockSize), starts)
        <5>1. seeded.lens \in [1 .. Rows(c) -> Nat \ {0}] /\ InPages(seeded, seeded.lens, want)
              /\ Room("flashinfer", seeded, Rows(c), seeded.lens, BlockSize)
          BY <1>10, <3>2, <3>3
        <5>2. QED
          BY <1>3, <1>10, <3>2, <5>1, CaptureContext
      <4>2. QED
        BY <3>1, <3>2, <4>1
    <3>5. QED
      BY <2>0, <2>1, <3>4 DEF Holds
  <2>2. CASE ~ (backend = "flashinfer" /\ c.graph)
    <3>1. engine' = seeded
      BY <1>9, <2>2 DEF Capture
    <3>2. CacheStarts(c, 0) # FI!NoKey
      BY <1>3, <2>0, StartsAreSome
    <3>3. QED
      BY <1>5, <1>7, <3>1, <3>2 DEF PlanFits
  <2>3. QED
    BY <2>1, <2>2
<1>12. /\ CacheStarts(c, 0).at = at /\ ContextOf(c, xt', 0) = want
       /\ shift' = ShiftOf(c, xt', 0)
  BY <1>1, <1>2, FirstContext
<1>13. PlanReady(engine, call, blk)'
  <2>1. 0 \in 0 .. 0
    OBVIOUS
  <2>2. QED
    BY <1>1, <1>2, <1>11, <1>12, <2>1 DEF PlanReady, Behind
<1>14. ContextKept'
  BY <1>1, <1>2, <1>11, <1>12, <1>13 DEF ContextKept
<1>15. SeesItsContext'
  BY <1>2 DEF SeesItsContext
<1>16. QED
  BY <1>14, <1>15 DEF ContextInv

\* The block of a call that runs: where its rows start and what they are given.
LEMMA BlockNow ==
  ASSUME BInv, phase # "idle", RowsAlike
  PROVE  LET at == CacheStarts(call, blk).at
             bl == BlockLen(call, blk)
             toks == Blocks(xt, call, blk)
         IN /\ call # NoCall /\ backend \in DOMAIN Workload /\ call \in Workload[backend]
            /\ backend \in {"flashinfer", "torch", "mlx"} /\ Shaped(backend, engine)
            /\ Rows(call) \in Nat \ {0} /\ bl \in Nat \ {0}
            /\ blk \in Nat /\ blk < NumBlocks(call) /\ blk * BlockSize \in Nat
            /\ blk * BlockSize + bl <= SpeechLen(call) /\ SpeechLen(call) \in Nat
            /\ at \in [1 .. Rows(call) -> Nat \ {0}]
            /\ \A r \in 1 .. Rows(call) : at[r] = PrefixLen(call, r) + blk * BlockSize
                                          /\ PrefixLen(call, r) \in Nat \ {0}
            /\ Given(toks, Rows(call), bl)
            /\ \A r \in 1 .. Rows(call), j \in 1 .. bl : toks[r][j] = xt[r][blk * BlockSize + j]
            /\ backend = "torch" => AllEqual(at)
            /\ Room(backend, engine, Rows(call), at, bl)
<1> DEFINE at == CacheStarts(call, blk).at
           bl == BlockLen(call, blk)
           toks == Blocks(xt, call, blk)
           from == blk * BlockSize
           R == Rows(call)
<1>1. /\ call # NoCall /\ backend \in DOMAIN Workload /\ call \in Workload[backend]
      /\ backend \in {"flashinfer", "torch", "mlx"} /\ Shaped(backend, engine)
      /\ blk \in Nat /\ blk < NumBlocks(call)
      /\ xt \in [1 .. Rows(call) -> [1 .. SpeechLen(call) -> SpeechTokens]]
      /\ engine.batch = Rows(call) /\ engine.maxSeq >= Needed(call)
  <2>1. call # NoCall
    BY DEF BInv, TypeOK
  <2>2. QED
    BY <2>1, BackendAssumption DEF BInv, TypeOK, EngineOK, SpeechTokens
<1>2. /\ R \in Nat \ {0} /\ SpeechLen(call) \in Nat \ {0} /\ Needed(call) \in Nat \ {0}
      /\ \A r \in 1 .. R : UserOf(call, r) \in 1 .. UserRows(call)
      /\ \A r \in 1 .. R : PrefixLen(call, r) + SpeechLen(call) <= Needed(call)
  BY <1>1, CallFacts
<1>3. \A r \in 1 .. R : PrefixLen(call, r) \in Nat \ {0}
  BY <1>1, StartFacts
<1>4. from \in Nat /\ bl \in 1 .. BlockSize /\ from + bl <= SpeechLen(call)
  BY <1>1, BlockFacts
<1>5. bl \in Nat \ {0}
  BY <1>4, BlockAssumption
<1>6. at = [r \in 1 .. R |-> PrefixLen(call, r) + from]
  BY DEF CacheStarts
<1> HIDE DEF at, bl, from, R
<1>7. \A r \in 1 .. R : at[r] \in Nat \ {0} /\ at[r] = PrefixLen(call, r) + from
  BY <1>3, <1>4, <1>6
<1>8. at \in [1 .. R -> Nat \ {0}]
  BY <1>6, <1>7
<1>9. ASSUME NEW r \in 1 .. R
      PROVE  /\ toks[r] \in Seq(Tokens) /\ Len(toks[r]) = bl
             /\ \A j \in 1 .. bl : toks[r][j] = xt[r][from + j]
  <2> DEFINE s == xt[r]
  <2>1. toks[r] = SubSeq(s, from + 1, from + bl)
    BY DEF toks, Blocks, Block, from, bl, R
  <2>2. \A j \in 1 .. bl : s[from + j] \in Tokens
    <3>1. s \in [1 .. SpeechLen(call) -> SpeechTokens]
      BY <1>1 DEF R
    <3>2. \A j \in 1 .. bl : from + j \in 1 .. SpeechLen(call)
      BY <1>2, <1>4, <1>5
    <3>3. SpeechTokens \subseteq Tokens
      BY DEF SpeechTokens, Tokens
    <3> HIDE DEF s
    <3>4. QED
      BY <3>1, <3>2, <3>3
  <2> DEFINE x == SubSeq(s, from + 1, from + bl)
  <2> HIDE DEF s, toks
  <2>3. from \in Nat /\ bl \in Nat
    BY <1>4, <1>5
  <2>4. x \in Seq(Tokens) /\ Len(x) = bl
    BY <2>2, <2>3, CutFacts
  <2>5. \A j \in 1 .. bl : x[j] = s[from + j]
    BY <2>2, <2>3, CutFacts
  <2>6. QED
    BY <2>1, <2>4, <2>5 DEF s
<1>10. Given(toks, R, bl)
  <2>1. DOMAIN toks = 1 .. R
    BY DEF toks, Blocks, R
  <2>2. QED
    BY <1>9, <2>1 DEF Given
<1>11. ASSUME backend = "torch" PROVE AllEqual(at)
  <2>1. AllEqual(call.prefix) /\ call.prefix \in Seq(Nat \ {0})
    BY <1>1, <1>11, WorkloadAssumption DEF RowsAlike
  <2>2. DOMAIN call.prefix = 1 .. UserRows(call)
    BY <2>1, LenProperties DEF UserRows
  <2>3. \A r, x \in 1 .. R : PrefixLen(call, r) = PrefixLen(call, x)
    BY <1>2, <2>1, <2>2 DEF AllEqual, PrefixLen
  <2>4. \A r, x \in 1 .. R : at[r] = at[x]
    BY <1>6, <2>3
  <2>5. QED
    BY <1>6, <2>4 DEF AllEqual
<1>12. Room(backend, engine, R, at, bl)
  <2> SUFFICES ASSUME backend = "flashinfer"
               PROVE  /\ Paged(engine) /\ engine.perRow \in Nat \ {0} /\ engine.batch = R
                      /\ \A r \in 1 .. R : at[r] + bl <= engine.perRow * PageSize
    BY DEF Room
  <2>1. Paged(engine) /\ engine.maxSeq \in Nat
    BY <1>1 DEF BInv, EngineOK
  <2>2. engine.perRow \in Nat \ {0} /\ engine.maxSeq <= engine.perRow * PageSize
    BY <1>1, <1>2, <2>1, PagesFacts
  <2>3. PageSize \in Nat
    BY BlockAssumption
  <2>4. ASSUME NEW r \in 1 .. R PROVE at[r] + bl <= engine.perRow * PageSize
    <3> DEFINE m == engine.perRow * PageSize
               n == PrefixLen(call, r)
               a == at[r]
    <3>1. m \in Nat /\ n \in Nat /\ a = n + from /\ n + SpeechLen(call) <= Needed(call)
          /\ engine.maxSeq <= m
      BY <1>2, <1>3, <1>7, <2>2, <2>3
    <3> HIDE DEF m, n, a
    <3>2. a + bl <= m
      BY <1>1, <1>2, <1>4, <1>5, <2>1, <3>1
    <3>3. QED
      BY <3>2 DEF m, a
  <2>5. QED
    BY <1>1, <2>1, <2>2, <2>4 DEF R
<1>13. QED
  BY <1>1, <1>2, <1>3, <1>4, <1>5, <1>7, <1>8, <1>9, <1>10, <1>11, <1>12
     DEF at, bl, toks, from, R

(* What the rows hold once block b has been run with the tokens x. *)
After(c, x, b) ==
  [r \in 1 .. Rows(c) |->
     [i \in 1 .. PrefixLen(c, r) + b * BlockSize + BlockLen(c, b) |->
        SettledIn(c, x, r, i - 1)]]

\* Context and block are what is settled when the block's tokens are.
LEMMA GrownSettled ==
  ASSUME BInv, phase # "idle", RowsAlike
  PROVE  Grown(ContextOf(call, xt, blk), CacheStarts(call, blk).at,
               Blocks(xt, call, blk), BlockLen(call, blk)) = After(call, xt, blk)
<1> DEFINE at == CacheStarts(call, blk).at
           bl == BlockLen(call, blk)
           toks == Blocks(xt, call, blk)
           from == blk * BlockSize
           R == Rows(call)
           want == ContextOf(call, xt, blk)
           all == Grown(want, at, toks, bl)
<1>1. /\ bl \in Nat \ {0} /\ from \in Nat
      /\ \A r \in 1 .. R : at[r] = PrefixLen(call, r) + from /\ PrefixLen(call, r) \in Nat \ {0}
      /\ \A r \in 1 .. R, j \in 1 .. bl : toks[r][j] = xt[r][from + j]
  BY BlockNow
<1>2. ASSUME NEW r \in 1 .. R
      PROVE  all[r] = [i \in 1 .. PrefixLen(call, r) + from + bl |->
                         SettledIn(call, xt, r, i - 1)]
  <2> DEFINE n == PrefixLen(call, r)
             a == at[r]
             t == toks[r]
  <2>1. /\ n \in Nat \ {0} /\ a \in Nat /\ a = n + from
        /\ \A j \in 1 .. bl : t[j] = xt[r][from + j]
    BY <1>1
  <2>2. all[r] = [i \in 1 .. a + bl |-> IF i <= a THEN want[r][i] ELSE Cell(r, i - 1, t[i - a])]
    BY DEF Grown, GrownRow, ContextOf
  <2>3. want[r] = [i \in 1 .. a |-> SettledIn(call, xt, r, i - 1)]
    BY <2>1 DEF ContextOf
  <2> HIDE DEF a, t, all, want, from, bl, at, toks
  <2>4. ASSUME NEW i \in 1 .. a + bl
        PROVE  (IF i <= a THEN want[r][i] ELSE Cell(r, i - 1, t[i - a]))
                 = SettledIn(call, xt, r, i - 1)
    <3>1. CASE i <= a
      <4>1. i \in 1 .. a
        BY <2>1, <3>1
      <4>2. QED
        BY <2>3, <3>1, <4>1
    <3>2. CASE ~ (i <= a)
      <4>1. i - a \in 1 .. bl /\ from + (i - a) = (i - 1 - n) + 1 /\ ~ (i - 1 < n)
        <5> HIDE DEF n
        <5>1. QED
          BY <1>1, <2>1, <3>2
      <4>2. t[i - a] = xt[r][(i - 1 - n) + 1]
        BY <2>1, <4>1
      <4>3. SettledIn(call, xt, r, i - 1) = Cell(r, i - 1, xt[r][(i - 1 - n) + 1])
        BY <4>1 DEF SettledIn
      <4>4. QED
        BY <3>2, <4>2, <4>3
    <3>3. QED
      BY <3>1, <3>2
  <2>5. all[r] = [i \in 1 .. a + bl |-> SettledIn(call, xt, r, i - 1)]
    BY <2>2, <2>4
  <2>6. QED
    BY <2>1, <2>5
<1>3. all = [r \in 1 .. R |-> all[r]]
  BY DEF Grown, ContextOf
<1> HIDE DEF all
<1>4. all = [r \in 1 .. R |-> [i \in 1 .. PrefixLen(call, r) + from + bl |->
                                 SettledIn(call, xt, r, i - 1)]]
  BY <1>2, <1>3
<1>5. QED
  BY <1>4 DEF all, After

\* A denoising step attends to the context and the block, leaves the context
\* as it was, and, when it is a replay, uses the block's shift context.
LEMMA StepContext ==
  ASSUME BInv, phase = "step", RowsAlike, ContextKept
  PROVE  /\ Ran(backend, StepForward, CacheStarts(call, blk).at, Blocks(xt, call, blk),
                BlockLen(call, blk), ContextOf(call, xt, blk))
         /\ StepForward.graph = engine.graph
         /\ PlanReady(StepForward, call, blk)
         /\ engine.graph /\ BlockLen(call, blk) = BlockSize => StepForward.gShift = shift
<1> DEFINE starts == CacheStarts(call, blk)
           at == starts.at
           bl == BlockLen(call, blk)
           toks == Blocks(xt, call, blk)
           R == Rows(call)
           want == ContextOf(call, xt, blk)
           staged == IF k = 0 THEN FI!SetShiftCtx(engine, shift) ELSE engine
           F == StepForward
<1>1. /\ call # NoCall /\ backend \in {"flashinfer", "torch", "mlx"}
      /\ Shaped(backend, engine) /\ R \in Nat \ {0} /\ bl \in Nat \ {0}
      /\ at \in [1 .. R -> Nat \ {0}] /\ Given(toks, R, bl)
      /\ backend = "torch" => AllEqual(at)
      /\ Room(backend, engine, R, at, bl)
  BY BlockNow
<1>2. /\ Holds(backend, engine, at, want) /\ PlanReady(engine, call, blk)
      /\ engine.graph /\ bl = BlockSize /\ k > 0 => engine.gShift = shift
  BY DEF ContextKept
<1>3. DOMAIN want = 1 .. R
  BY DEF ContextOf
<1>4. k \in 0 .. NumSteps - 1 /\ NumSteps \in Nat
  BY BlockAssumption DEF BInv, TypeOK
<1>5. 0 \in Nat /\ blk \in Nat /\ blk \in 0 .. blk
  BY DEF BInv, TypeOK
<1>6. CASE engine.graph /\ bl = BlockSize
  <2>1. backend = "flashinfer" /\ DOMAIN engine = FIFields
    BY <1>1, <1>6 DEF Shaped, Fields
  <2>2. /\ DOMAIN staged = FIFields /\ staged.maxSeq = engine.maxSeq
        /\ staged.batch = engine.batch /\ staged.perRow = engine.perRow
        /\ staged.kv = engine.kv /\ staged.planKey = engine.planKey
        /\ staged.writeAt = engine.writeAt /\ staged.readLen = engine.readLen
        /\ staged.rope = engine.rope /\ staged.graph = engine.graph
    BY <2>1 DEF FI!SetShiftCtx, FIFields
  <2>3. staged.gShift = shift
    <3>1. CASE k = 0
      BY <2>1, <3>1 DEF FI!SetShiftCtx, FIFields
    <3>2. CASE k # 0
      <4>1. k > 0
        BY <1>4, <3>2
      <4>2. QED
        BY <1>2, <1>6, <3>2, <4>1
    <3>3. QED
      BY <3>1, <3>2
  <2>4. F = FI!BlockForwardGraph(staged, toks, starts)
    BY <1>6 DEF StepForward
  <2> HIDE DEF staged, toks, want, R, F, bl
  <2>5. /\ Holds("flashinfer", staged, at, want) /\ PlanFits(staged, starts)
        /\ Room("flashinfer", staged, R, at, BlockSize)
    BY <1>1, <1>2, <1>6, <2>1, <2>2 DEF Holds, InPages, PlanReady, PlanFits, Room, Paged
  <2>6. Given(toks, R, BlockSize)
    BY <1>1, <1>6
  <2> HIDE DEF starts
  <2>7. /\ Ran("flashinfer", F, at, toks, BlockSize, want)
        /\ F.graph = staged.graph /\ F.gShift = staged.gShift
        /\ F.planKey = starts /\ PlanFits(F, starts)
    BY <1>1, <1>3, <2>2, <2>4, <2>5, <2>6, GraphContext
  <2>8. PlanReady(F, call, blk)
    BY <1>5, <2>7 DEF PlanReady, Behind, starts
  <2>9. QED
    BY <1>6, <2>1, <2>2, <2>3, <2>7, <2>8 DEF starts, toks, want, R, F, bl
<1>7. CASE ~ (engine.graph /\ bl = BlockSize)
  <2>1. F = BlockForward(backend, engine, toks, starts)
    BY <1>7 DEF StepForward
  <2> HIDE DEF toks, want, R, F, bl, staged
  <2>2. /\ Ran(backend, F, at, toks, bl, want) /\ F.graph = engine.graph
        /\ backend = "flashinfer" => /\ F.planKey = engine.planKey
                                     /\ PlanFits(engine, starts) => PlanFits(F, starts)
    <3> HIDE DEF starts
    <3>1. QED
      BY <1>1, <1>2, <1>3, <2>1, ForwardContext
  <2>3. PlanReady(F, call, blk)
    BY <1>2, <2>2 DEF PlanReady, Behind
  <2>4. QED
    BY <1>7, <2>2, <2>3 DEF toks, want, R, F, bl
<1>8. QED
  BY <1>6, <1>7

\* What a forward of the block leaves, by position.
LEMMA SeenByPosition ==
  ASSUME BInv, phase # "idle", RowsAlike, NEW F,
         Ran(backend, F, CacheStarts(call, blk).at, Blocks(xt, call, blk),
             BlockLen(call, blk), ContextOf(call, xt, blk))
  PROVE  LET at == CacheStarts(call, blk).at
             bl == BlockLen(call, blk)
             start(r) == PrefixLen(call, r) + blk * BlockSize
         IN /\ F.seen = After(call, xt, blk)
            /\ \A r \in 1 .. Rows(call) :
                 /\ Len(F.seen[r]) = start(r) + bl
                 /\ DOMAIN F.seen[r] = 1 .. start(r) + bl
                 /\ \A i \in 1 .. start(r) + bl : F.seen[r][i] = SettledIn(call, xt, r, i - 1)
                 /\ F.out[r][bl] = SettledIn(call, xt, r, (start(r) + bl) - 1)
            /\ Holds(backend, F, at, ContextOf(call, xt, blk))
            /\ Holds(backend, F, FI!Ends(at, bl), After(call, xt, blk))
<1> DEFINE at == CacheStarts(call, blk).at
           bl == BlockLen(call, blk)
           toks == Blocks(xt, call, blk)
           from == blk * BlockSize
           R == Rows(call)
           want == ContextOf(call, xt, blk)
           all == After(call, xt, blk)
           start(r) == PrefixLen(call, r) + from
<1>1. /\ bl \in Nat \ {0} /\ from \in Nat /\ R \in Nat \ {0}
      /\ at \in [1 .. R -> Nat \ {0}]
      /\ \A r \in 1 .. R : at[r] = start(r) /\ PrefixLen(call, r) \in Nat \ {0}
      /\ \A r \in 1 .. R, j \in 1 .. bl : toks[r][j] = xt[r][from + j]
      /\ Given(toks, R, bl)
  BY BlockNow
<1>2. Grown(want, at, toks, bl) = all
  BY GrownSettled
<1>3. /\ F.seen = Grown(want, at, toks, bl) /\ F.out = Fresh(toks, at)
      /\ Holds(backend, F, FI!Ends(at, bl), Grown(want, at, toks, bl))
  BY DEF Ran
<1>4. DOMAIN want = 1 .. R
  BY DEF ContextOf
<1> HIDE DEF at, bl, toks, want, all
<1>5. Holds(backend, F, at, want)
  <2> HIDE DEF R
  <2>1. QED
    BY <1>1, <1>3, <1>4, HoldsPart
<1>6. ASSUME NEW r \in 1 .. R
      PROVE  /\ Len(F.seen[r]) = start(r) + bl
             /\ DOMAIN F.seen[r] = 1 .. start(r) + bl
             /\ \A i \in 1 .. start(r) + bl : F.seen[r][i] = SettledIn(call, xt, r, i - 1)
  <2> DEFINE n == start(r) + bl
             s == F.seen[r]
             S == {SettledIn(call, xt, r, i - 1) : i \in 1 .. n}
  <2>1. s = [i \in 1 .. n |-> SettledIn(call, xt, r, i - 1)]
    BY <1>2, <1>3 DEF all, After, bl
  <2>2. n \in Nat
    BY <1>1
  <2> HIDE DEF n, s
  <2>3. s \in [1 .. n -> S]
    BY <2>1
  <2> HIDE DEF S
  <2>4. s \in Seq(S)
    BY <2>2, <2>3, SeqDef
  <2>5. Len(s) = n /\ DOMAIN s = 1 .. n
    BY <2>2, <2>3, <2>4, LenProperties
  <2>6. QED
    BY <2>1, <2>5 DEF n, s
<1>7. ASSUME NEW r \in 1 .. R
      PROVE  F.out[r][bl] = SettledIn(call, xt, r, (start(r) + bl) - 1)
  <2> DEFINE n == PrefixLen(call, r)
             t == toks[r]
             a == at[r]
  <2>1. n \in Nat \ {0} /\ a = n + from /\ t[bl] = xt[r][from + bl] /\ DOMAIN t = 1 .. bl
        /\ DOMAIN toks = 1 .. R
    <3>1. bl \in 1 .. bl /\ bl \in Nat
      BY <1>1
    <3>2. DOMAIN toks[r] = 1 .. bl /\ DOMAIN toks = 1 .. R
      <4> HIDE DEF R
      <4>1. \A x \in 1 .. R : DOMAIN toks[x] = 1 .. bl
        BY <1>1, <3>1, GivenFacts
      <4>2. DOMAIN toks = 1 .. R
        BY <1>1 DEF Given
      <4>3. QED
        BY <4>1, <4>2
    <3>3. QED
      BY <1>1, <3>1, <3>2
  <2>2. F.out[r] = BlockAt(r, a, t)
    BY <1>3, <2>1 DEF Fresh
  <2>3. bl \in DOMAIN t
    BY <1>1, <2>1
  <2> HIDE DEF t, a, n
  <2>4. F.out[r][bl] = Cell(r, a + bl - 1, t[bl])
    BY <2>2, <2>3 DEF BlockAt
  <2> DEFINE pos == (start(r) + bl) - 1
  <2>5. ~ (pos < n) /\ (pos - n) + 1 = from + bl /\ a + bl - 1 = pos
    <3>1. start(r) = n + from
      BY DEF n
    <3>2. QED
      BY <1>1, <2>1, <3>1
  <2> HIDE DEF pos, start
  <2>6. SettledIn(call, xt, r, pos) = Cell(r, pos, xt[r][from + bl])
    <3>1. ~ (pos < PrefixLen(call, r)) /\ (pos - PrefixLen(call, r)) + 1 = from + bl
      BY <2>5 DEF n
    <3>2. SettledIn(call, xt, r, pos) = Cell(r, pos, xt[r][(pos - PrefixLen(call, r)) + 1])
      BY <3>1 DEF SettledIn
    <3>3. QED
      BY <3>1, <3>2
  <2>7. QED
    BY <2>1, <2>4, <2>5, <2>6 DEF pos
<1>8. QED
  BY <1>2, <1>3, <1>5, <1>6, <1>7 DEF at, bl, want, all

\* A step gives tokens to masked positions of the block only, in every row.
LEMMA TokensKept ==
  ASSUME BInv, DenoiseStep, RowsAlike
  PROVE  \A r \in 1 .. Rows(call), p \in 1 .. SpeechLen(call) :
           p \notin Positions(call, blk) \/ xt[r][p] # "mask" => xt'[r][p] = xt[r][p]
<1> DEFINE bl == BlockLen(call, blk)
           from == blk * BlockSize
           U == UserRows(call)
           R == Rows(call)
           S == SpeechLen(call)
           old == Blocks(xt, call, blk)
           active == {r \in 1 .. U : ~ blockDone[r]}
<1>1. phase = "step"
  BY DEF DenoiseStep
<1>2. /\ call # NoCall /\ backend \in DOMAIN Workload /\ call \in Workload[backend]
      /\ bl \in Nat \ {0} /\ from \in Nat /\ S \in Nat
      /\ \A r \in 1 .. R, j \in 1 .. bl : old[r][j] = xt[r][from + j]
      /\ Given(old, R, bl) /\ R \in Nat \ {0}
  BY <1>1, BlockNow
<1>3. /\ U \in Nat \ {0} /\ R = IF call.guided THEN U + U ELSE U
      /\ \A r \in 1 .. R : UserOf(call, r) \in 1 .. U
  BY <1>2, CallFacts
<1>4. xt \in [1 .. R -> [1 .. S -> SpeechTokens]]
  BY <1>2 DEF BInv, TypeOK
<1>5. PICK new \in [active -> [1 .. bl -> SpeechTokens]] :
        /\ \A r \in active : new[r] \in Unmasked(old[r], k)
        /\ xt' = Decoded(new)
  BY StepGives
<1>6. \A r \in 1 .. R : DOMAIN old[r] = 1 .. bl
  <2> HIDE DEF old, R, bl
  <2>1. Given(old, R, bl) /\ R \in Nat /\ bl \in Nat
    BY <1>2
  <2>2. QED
    BY <2>1, GivenFacts
<1>7. ASSUME NEW r \in 1 .. R, NEW p \in 1 .. S, p \notin Positions(call, blk) \/ xt[r][p] # "mask"
      PROVE  xt'[r][p] = xt[r][p]
  <2> DEFINE u == UserOf(call, r)
  <2>1. u \in 1 .. U /\ u \in 1 .. R /\ DOMAIN xt[r] = 1 .. S
    <3>1. u \in 1 .. U
      BY <1>3
    <3>2. DOMAIN xt[r] = 1 .. S
      BY <1>4
    <3> HIDE DEF u, U, R
    <3>3. u \in 1 .. R
      BY <1>3, <3>1
    <3>4. QED
      BY <3>1, <3>2, <3>3
  <2>2. xt[u] = xt[r]
    <3>1. CASE r > U
      <4>1. call.guided /\ u = r - U
        BY <1>3, <3>1 DEF UserOf
      <4>2. u + U = r
        BY <1>3, <4>1
      <4>3. xt[u + U] = xt[u]
        BY <1>2, <2>1, <4>1 DEF BInv, NullRowsMirror
      <4>4. QED
        BY <4>2, <4>3
    <3>2. CASE ~ (r > U)
      BY <3>2 DEF UserOf
    <3>3. QED
      BY <3>1, <3>2
  <2>3. xt'[r] = IF u \in DOMAIN new
                   THEN [q \in DOMAIN xt[r] |-> IF q \in Positions(call, blk)
                                                  THEN new[u][q - from] ELSE xt[r][q]]
                   ELSE xt[r]
    BY <1>5 DEF Decoded
  <2> HIDE DEF u
  <2>4. CASE u \notin DOMAIN new
    BY <2>3, <2>4
  <2>5. CASE u \in DOMAIN new /\ p \notin Positions(call, blk)
    <3> HIDE DEF from
    <3>1. QED
      BY <2>1, <2>3, <2>5
  <2>6. CASE u \in DOMAIN new /\ p \in Positions(call, blk)
    <3> DEFINE j == p - from
    <3>1. xt'[r][p] = new[u][j]
      BY <2>1, <2>3, <2>6
    <3>2. p \in from + 1 .. from + bl /\ xt[r][p] # "mask"
      BY <1>7, <2>6 DEF Positions
    <3>3. j \in 1 .. bl /\ from + j = p
      <4> HIDE DEF from, bl
      <4>1. QED
        BY <1>2, <3>2
    <3> HIDE DEF j
    <3>4. old[u][j] = xt[u][p]
      BY <1>2, <2>1, <3>3
    <3>5. j \in DOMAIN old[u] /\ old[u][j] # "mask"
      BY <1>6, <2>1, <2>2, <3>2, <3>3, <3>4
    <3> HIDE DEF old
    <3>6. j \in DOMAIN old[u] \ Masked(old[u])
      BY <3>5 DEF Masked
    <3>7. new[u] \in Unmasked(old[u], k)
      BY <1>5, <2>6
    <3>8. new[u][j] = old[u][j]
      BY <3>6, <3>7 DEF Unmasked
    <3>9. QED
      BY <2>2, <3>1, <3>4, <3>8
  <2>7. QED
    BY <2>4, <2>5, <2>6
<1>8. QED
  BY <1>7

\* What was settled stays so; what was not is the token or was masked.
LEMMA SettledKept ==
  ASSUME BInv, DenoiseStep, RowsAlike
  PROVE  /\ ContextOf(call, xt', blk) = ContextOf(call, xt, blk)
         /\ ShiftOf(call, xt', blk) = ShiftOf(call, xt, blk)
         /\ \A r \in 1 .. Rows(call) :
              \A i \in 1 .. PrefixLen(call, r) + blk * BlockSize + BlockLen(call, blk) :
                \/ SettledIn(call, xt, r, i - 1) = SettledIn(call, xt', r, i - 1)
                \/ /\ i > PrefixLen(call, r) + blk * BlockSize
                   /\ SettledIn(call, xt, r, i - 1) = Cell(r, i - 1, "mask")
<1> DEFINE bl == BlockLen(call, blk)
           from == blk * BlockSize
           R == Rows(call)
           S == SpeechLen(call)
<1>1. phase = "step"
  BY DEF DenoiseStep
<1>2. /\ bl \in Nat \ {0} /\ from \in Nat /\ S \in Nat /\ from + bl <= S
      /\ \A r \in 1 .. R : PrefixLen(call, r) \in Nat \ {0}
  BY <1>1, BlockNow
<1>3. \A r \in 1 .. R, p \in 1 .. S :
        p \notin Positions(call, blk) \/ xt[r][p] # "mask" => xt'[r][p] = xt[r][p]
  BY TokensKept
<1>4. Positions(call, blk) = from + 1 .. from + bl
  BY DEF Positions
<1> HIDE DEF bl, from, R, S
<1>5. ASSUME NEW r \in 1 .. R, NEW pos \in Nat, pos < PrefixLen(call, r) + from + bl
      PROVE  \/ SettledIn(call, xt, r, pos) = SettledIn(call, xt', r, pos)
             \/ /\ pos >= PrefixLen(call, r) + from
                /\ SettledIn(call, xt, r, pos) = Cell(r, pos, "mask")
  <2> DEFINE n == PrefixLen(call, r)
             q == (pos - n) + 1
  <2>1. n \in Nat \ {0}
    BY <1>2
  <2>2. CASE pos < n
    BY <2>2 DEF SettledIn
  <2>3. CASE ~ (pos < n)
    <3>1. /\ SettledIn(call, xt, r, pos) = Cell(r, pos, xt[r][q])
          /\ SettledIn(call, xt', r, pos) = Cell(r, pos, xt'[r][q])
      BY <2>3 DEF SettledIn
    <3>2. pos < n + from + bl
      BY <1>5
    <3> HIDE DEF n
    <3>3. q \in 1 .. S /\ (~ (pos >= n + from) => q \notin from + 1 .. from + bl)
      BY <1>2, <2>1, <2>3, <3>2
    <3> HIDE DEF q
    <3>4. CASE q \notin Positions(call, blk) \/ xt[r][q] # "mask"
      <4>1. xt'[r][q] = xt[r][q]
        BY <1>3, <3>3, <3>4
      <4>2. QED
        BY <3>1, <4>1
    <3>5. CASE ~ (q \notin Positions(call, blk) \/ xt[r][q] # "mask")
      <4>1. pos >= n + from
        BY <1>4, <3>3, <3>5
      <4>2. QED
        BY <3>1, <3>5, <4>1 DEF n
    <3>6. QED
      BY <3>4, <3>5
  <2>4. QED
    BY <2>2, <2>3
<1>6. ASSUME NEW r \in 1 .. R, NEW i \in 1 .. PrefixLen(call, r) + from + bl
      PROVE  \/ SettledIn(call, xt, r, i - 1) = SettledIn(call, xt', r, i - 1)
             \/ /\ i > PrefixLen(call, r) + from
                /\ SettledIn(call, xt, r, i - 1) = Cell(r, i - 1, "mask")
  <2> DEFINE n == PrefixLen(call, r)
             pos == i - 1
  <2>1. n \in Nat \ {0} /\ pos \in Nat /\ pos < n + from + bl
        /\ (pos >= n + from => i > n + from)
    <3>0. n \in Nat \ {0}
      BY <1>2
    <3> HIDE DEF n
    <3>1. i \in 1 .. n + from + bl
      BY DEF n
    <3>2. QED
      BY <1>2, <3>0, <3>1
  <2> HIDE DEF pos
  <2>2. \/ SettledIn(call, xt, r, pos) = SettledIn(call, xt', r, pos)
        \/ /\ pos >= PrefixLen(call, r) + from
           /\ SettledIn(call, xt, r, pos) = Cell(r, pos, "mask")
    BY <1>5, <2>1
  <2>3. QED
    BY <2>1, <2>2 DEF pos
<1>7. ASSUME NEW r \in 1 .. R, NEW i \in 1 .. PrefixLen(call, r) + from
      PROVE  SettledIn(call, xt, r, i - 1) = SettledIn(call, xt', r, i - 1)
  <2> DEFINE n == PrefixLen(call, r)
  <2>0. n \in Nat
    BY <1>2
  <2> HIDE DEF n
  <2>1. i \in 1 .. n + from + bl /\ ~ (i > n + from)
    BY <1>2, <2>0 DEF n
  <2>2. QED
    BY <1>6, <2>1 DEF n
<1>8. ContextOf(call, xt', blk) = ContextOf(call, xt, blk)
  BY <1>7 DEF ContextOf, R, from
<1>9. ShiftOf(call, xt', blk) = ShiftOf(call, xt, blk)
  <2>1. ASSUME NEW r \in 1 .. R
        PROVE  SettledIn(call, xt', r, PrefixLen(call, r) + from - 1)
                 = SettledIn(call, xt, r, PrefixLen(call, r) + from - 1)
    <3> DEFINE n == PrefixLen(call, r)
               i == n + from
    <3>0. n \in Nat \ {0}
      BY <1>2
    <3> HIDE DEF n
    <3>1. i \in 1 .. n + from /\ i - 1 = n + from - 1
      BY <1>2, <3>0
    <3> HIDE DEF i
    <3>2. SettledIn(call, xt, r, i - 1) = SettledIn(call, xt', r, i - 1)
      BY <1>7, <3>1 DEF n
    <3>3. QED
      BY <3>1, <3>2 DEF n
  <2>2. QED
    BY <2>1 DEF ShiftOf, R, from
<1>10. QED
  BY <1>6, <1>8, <1>9 DEF R, bl, from

\* A denoising step sees its context and keeps it for the next.
LEMMA DenoiseContext ==
  ASSUME BInv, ContextInv, DenoiseStep, RowsAlike
  PROVE  ContextInv'
<1> DEFINE at == CacheStarts(call, blk).at
           bl == BlockLen(call, blk)
           R == Rows(call)
           from == blk * BlockSize
           start(r) == PrefixLen(call, r) + from
           F == StepForward
<1>1. phase = "step" /\ phase # "idle" /\ ContextKept
  BY DEF DenoiseStep, ContextInv
<1>2. /\ backend' = backend /\ call' = call /\ blk' = blk /\ shift' = shift /\ engine' = F
      /\ used' = IF engine.graph /\ bl = BlockSize THEN F.gShift ELSE shift
      /\ \/ phase' = "blockEnd"
         \/ phase' = "step" /\ k' = k + 1
  BY DEF DenoiseStep
<1>3. k \in Nat
  BY BlockAssumption DEF BInv, TypeOK
<1>4. /\ Ran(backend, F, at, Blocks(xt, call, blk), bl, ContextOf(call, xt, blk))
      /\ F.graph = engine.graph /\ PlanReady(F, call, blk)
      /\ engine.graph /\ bl = BlockSize => F.gShift = shift
  BY <1>1, StepContext
<1> HIDE DEF F
<1>5. /\ \A r \in 1 .. R :
           /\ Len(F.seen[r]) = start(r) + bl
           /\ DOMAIN F.seen[r] = 1 .. start(r) + bl
           /\ \A i \in 1 .. start(r) + bl : F.seen[r][i] = SettledIn(call, xt, r, i - 1)
      /\ Holds(backend, F, at, ContextOf(call, xt, blk))
  BY <1>1, <1>4, SeenByPosition
<1>6. /\ ContextOf(call, xt', blk) = ContextOf(call, xt, blk)
      /\ ShiftOf(call, xt', blk) = ShiftOf(call, xt, blk)
      /\ \A r \in 1 .. R : \A i \in 1 .. start(r) + bl :
           \/ SettledIn(call, xt, r, i - 1) = SettledIn(call, xt', r, i - 1)
           \/ i > start(r) /\ SettledIn(call, xt, r, i - 1) = Cell(r, i - 1, "mask")
  BY SettledKept
<1>7. shift = ShiftOf(call, xt', blk)
  BY <1>1, <1>6 DEF ContextKept
<1>8. ContextKept'
  <2>1. Holds(backend, F, CacheStarts(call, blk).at, ContextOf(call, xt', blk))
    BY <1>5, <1>6
  <2>2. PlanReady(engine, call, blk)'
    BY <1>2, <1>4 DEF PlanReady
  <2>3. engine'.graph /\ bl = BlockSize => engine'.gShift = shift
    BY <1>2, <1>4
  <2>4. QED
    BY <1>2, <1>7, <2>1, <2>2, <2>3 DEF ContextKept
<1>9. ~ (phase' = "step" /\ k' = 0)
  <2>1. k + 1 # 0
    BY <1>3
  <2>2. QED
    BY <1>2, <2>1
<1>10. used' = shift
  BY <1>2, <1>4
<1>12. ASSUME NEW r \in 1 .. R PROVE used'[r] = SettledIn(call, xt', r, start(r) - 1)
  <2>1. shift[r] = SettledIn(call, xt', r, PrefixLen(call, r) + from - 1)
    BY <1>7 DEF ShiftOf
  <2>2. PrefixLen(call, r) + from - 1 = start(r) - 1
    <3> DEFINE n == PrefixLen(call, r)
    <3>1. n \in Nat /\ from \in Nat
      BY <1>1, BlockNow
    <3> HIDE DEF n, from
    <3>2. n + from - 1 = (n + from) - 1
      BY <3>1
    <3>3. QED
      BY <3>2 DEF n
  <2>3. QED
    BY <1>10, <2>1, <2>2
<1>13. ASSUME NEW r \in 1 .. R
       PROVE  /\ Len(engine'.seen[r]) = start(r) + bl
              /\ \A i \in DOMAIN engine'.seen[r] :
                   \/ engine'.seen[r][i] = SettledIn(call, xt', r, i - 1)
                   \/ i > start(r) /\ engine'.seen[r][i] = Cell(r, i - 1, "mask")
  <2> HIDE DEF start, bl
  <2>1. QED
    BY <1>2, <1>5, <1>6
<1>14. SeesItsContext'
  BY <1>2, <1>9, <1>12, <1>13 DEF SeesItsContext, Settled, SettledIn
<1>15. QED
  BY <1>8, <1>14 DEF ContextInv

\* AdvanceCache counts; what the rows hold and what was seen stays.
LEMMA AdvanceContext ==
  ASSUME NEW b \in {"flashinfer", "torch", "mlx"}, NEW e, Shaped(b, e), NEW n
  PROVE  LET f == AdvanceCache(b, e, n)
         IN /\ f.seen = e.seen /\ f.out = e.out /\ f.graph = e.graph
            /\ \A at, want : Holds(b, e, at, want) => Holds(b, f, at, want)
            /\ b = "flashinfer" => /\ f.planKey = e.planKey
                                   /\ \A s : PlanFits(e, s) => PlanFits(f, s)
<1> DEFINE f == AdvanceCache(b, e, n)
<1>1. CASE b = "flashinfer"
  <2>1. /\ f.seen = e.seen /\ f.out = e.out /\ f.graph = e.graph /\ f.kv = e.kv
        /\ f.perRow = e.perRow /\ f.planKey = e.planKey /\ f.writeAt = e.writeAt
        /\ f.rope = e.rope /\ f.readLen = e.readLen
    BY <1>1 DEF AdvanceCache, FI!AdvanceCache, Shaped, Fields, FIFields
  <2> HIDE DEF f
  <2>2. QED
    BY <1>1, <2>1 DEF Holds, InPages, PlanFits, f
<1>2. CASE b = "torch"
  <2>1. f.seen = e.seen /\ f.out = e.out /\ f.graph = e.graph /\ f.cache = e.cache
    BY <1>2 DEF AdvanceCache, Torch!AdvanceCache, Shaped, Fields
  <2> HIDE DEF f
  <2>2. QED
    BY <1>2, <2>1 DEF Holds, Columns, f
<1>3. CASE b = "mlx"
  <2>1. f.seen = e.seen /\ f.out = e.out /\ f.graph = e.graph /\ f.cache = e.cache
        /\ f.own = e.own
    BY <1>3 DEF AdvanceCache, MLX!AdvanceCache, Shaped, Fields
  <2> HIDE DEF f
  <2>2. QED
    BY <1>3, <2>1 DEF Holds, Columns, f
<1>4. QED
  BY <1>1, <1>2, <1>3

\* What is settled after a whole block is the context of the next.
LEMMA NextContext ==
  ASSUME BInv, phase # "idle", RowsAlike, blk # NumBlocks(call) - 1, NEW n, n = blk + 1
  PROVE  /\ BlockLen(call, blk) = BlockSize
         /\ CacheStarts(call, n).at = FI!Ends(CacheStarts(call, blk).at, BlockSize)
         /\ ContextOf(call, xt, n) = After(call, xt, blk)
         /\ \A j \in 0 .. blk : CacheStarts(call, j).at # CacheStarts(call, n).at
         /\ \A r \in 1 .. Rows(call) :
              PrefixLen(call, r) + n * BlockSize
                = PrefixLen(call, r) + blk * BlockSize + BlockSize
<1> DEFINE R == Rows(call)
           from == blk * BlockSize
<1>1. /\ blk \in Nat /\ from \in Nat /\ R \in Nat \ {0} /\ backend \in DOMAIN Workload
      /\ call \in Workload[backend] /\ blk < NumBlocks(call)
      /\ \A r \in 1 .. R : PrefixLen(call, r) \in Nat \ {0}
      /\ BlockSize \in Nat \ {0}
  BY BlockNow, BlockAssumption
<1>2. BlockLen(call, blk) = BlockSize
  BY <1>1, ReachedFacts
<1>3. n * BlockSize = from + BlockSize
  BY <1>1
<1> HIDE DEF from
<1>4. ASSUME NEW r \in 1 .. R
      PROVE  PrefixLen(call, r) + n * BlockSize = PrefixLen(call, r) + from + BlockSize
  <2> DEFINE a == PrefixLen(call, r)
             z == n * BlockSize
  <2>1. a \in Nat /\ z = from + BlockSize
    BY <1>1, <1>3
  <2> HIDE DEF a, z
  <2>2. a + z = a + from + BlockSize
    BY <1>1, <2>1
  <2>3. QED
    BY <2>2 DEF a, z
<1>5. CacheStarts(call, n).at = FI!Ends(CacheStarts(call, blk).at, BlockSize)
  BY <1>4 DEF CacheStarts, FI!Ends, from
<1>6. ContextOf(call, xt, n) = After(call, xt, blk)
  BY <1>2, <1>4 DEF ContextOf, After, from
<1>7. ASSUME NEW j \in 0 .. blk PROVE CacheStarts(call, j).at # CacheStarts(call, n).at
  <2> DEFINE a == PrefixLen(call, 1)
             y == j * BlockSize
             z == n * BlockSize
  <2>1. 1 \in 1 .. R
    BY <1>1
  <2>2. CacheStarts(call, j).at[1] = a + y /\ CacheStarts(call, n).at[1] = a + z
    BY <2>1 DEF CacheStarts
  <2>3. y <= from /\ y \in Nat
    BY <1>1 DEF from
  <2>4. a \in Nat /\ z = from + BlockSize
    BY <1>1, <1>3, <2>1
  <2> HIDE DEF a, y, z
  <2>5. a + y # a + z
    BY <1>1, <2>3, <2>4
  <2>6. QED
    BY <2>2, <2>5
<1>8. QED
  BY <1>2, <1>4, <1>5, <1>6, <1>7 DEF from

\* A block is committed as the context of the next, or ends the call.
LEMMA EndBlockContext ==
  ASSUME BInv, ContextInv, EndBlock, RowsAlike
  PROVE  ContextInv'
<1> DEFINE at == CacheStarts(call, blk).at
           bl == BlockLen(call, blk)
           R == Rows(call)
           from == blk * BlockSize
           start(r) == PrefixLen(call, r) + from
           toks == Blocks(xt, call, blk)
           starts == CacheStarts(call, blk)
           want == ContextOf(call, xt, blk)
           G == BlockForward(backend, engine, toks, starts)
           F == AdvanceCache(backend, G, bl)
<1>1. phase = "blockEnd" /\ phase # "idle" /\ ContextKept /\ SeesItsContext
  BY DEF EndBlock, ContextInv
<1>2. /\ backend' = backend /\ call' = call /\ xt' = xt /\ used' = << >>
      /\ IF blk < NumBlocks(call) - 1
           THEN engine' = F /\ shift' = [r \in 1 .. R |-> F.out[r][bl]]
           ELSE engine' = engine /\ shift' = shift
      /\ \/ phase' = "idle" /\ blk' = blk
         \/ blk # NumBlocks(call) - 1 /\ phase' = "step" /\ blk' = blk + 1 /\ k' = 0
  BY DEF EndBlock, Finalized
<1>3. /\ call # NoCall /\ backend \in {"flashinfer", "torch", "mlx"}
      /\ Shaped(backend, engine) /\ R \in Nat \ {0} /\ bl \in Nat \ {0}
      /\ blk \in Nat /\ blk < NumBlocks(call) /\ from \in Nat
      /\ at \in [1 .. R -> Nat \ {0}] /\ Given(toks, R, bl)
      /\ backend = "torch" => AllEqual(at)
      /\ Room(backend, engine, R, at, bl)
      /\ \A r \in 1 .. R : PrefixLen(call, r) \in Nat \ {0}
  BY <1>1, BlockNow
<1>4. NumBlocks(call) \in Nat \ {0}
  <2>1. backend \in DOMAIN Workload /\ call \in Workload[backend]
    BY <1>1, BlockNow
  <2>2. QED
    BY <2>1, CallFacts
<1>5. /\ Holds(backend, engine, at, want) /\ PlanReady(engine, call, blk)
  BY <1>1 DEF ContextKept
<1>6. DOMAIN want = 1 .. R
  BY DEF ContextOf
<1>7. /\ Ran(backend, G, at, toks, bl, want)
      /\ backend = "flashinfer" => /\ G.planKey = engine.planKey
                                   /\ PlanFits(engine, starts) => PlanFits(G, starts)
  <2> HIDE DEF toks, want, R, bl, starts
  <2>1. starts.at = at
    BY DEF starts
  <2> HIDE DEF at
  <2>2. starts.at \in [1 .. R -> Nat \ {0}] /\ Holds(backend, engine, starts.at, want)
        /\ (backend = "torch" => AllEqual(starts.at)) /\ Room(backend, engine, R, starts.at, bl)
    BY <1>3, <1>5, <2>1
  <2> HIDE DEF G
  <2>3. /\ Ran(backend, G, starts.at, toks, bl, want)
        /\ backend = "flashinfer" => /\ G.planKey = engine.planKey
                                     /\ PlanFits(engine, starts) => PlanFits(G, starts)
    BY <1>3, <1>6, <2>2, ForwardContext DEF G
  <2>4. QED
    BY <2>1, <2>3
<1>8. Shaped(backend, G)
  <2> HIDE DEF toks, starts
  <2>1. QED
    BY <1>3, ForwardFacts DEF Sized, Shaped
<1> HIDE DEF G
<1>9. /\ G.seen = After(call, xt, blk)
      /\ \A r \in 1 .. R :
           /\ Len(G.seen[r]) = start(r) + bl /\ DOMAIN G.seen[r] = 1 .. start(r) + bl
           /\ \A i \in 1 .. start(r) + bl : G.seen[r][i] = SettledIn(call, xt, r, i - 1)
           /\ G.out[r][bl] = SettledIn(call, xt, r, (start(r) + bl) - 1)
      /\ Holds(backend, G, FI!Ends(at, bl), After(call, xt, blk))
  BY <1>1, <1>7, SeenByPosition
<1>10. /\ F.seen = G.seen /\ F.out = G.out /\ F.graph = G.graph
       /\ \A a, w : Holds(backend, G, a, w) => Holds(backend, F, a, w)
       /\ backend = "flashinfer" => F.planKey = G.planKey
  BY <1>3, <1>8, AdvanceContext
<1> HIDE DEF F
<1>11. CASE blk = NumBlocks(call) - 1
  <2>1. /\ ~ (blk < NumBlocks(call) - 1) /\ engine' = engine /\ phase' = "idle"
        /\ blk' = blk
    BY <1>2, <1>3, <1>4, <1>11
  <2>2. ContextKept'
    BY <2>1 DEF ContextKept
  <2>3. SeesItsContext'
    BY <1>1, <1>2, <1>3, <2>1 DEF SeesItsContext, Settled
  <2>4. QED
    BY <2>2, <2>3 DEF ContextInv
<1>12. CASE blk # NumBlocks(call) - 1
  <2>1. blk < NumBlocks(call) - 1
    BY <1>3, <1>4, <1>12
  <2>2. engine' = F /\ shift' = [r \in 1 .. R |-> F.out[r][bl]]
    BY <1>2, <2>1
  <2> DEFINE n == blk + 1
  <2>3. /\ bl = BlockSize /\ CacheStarts(call, n).at = FI!Ends(at, BlockSize)
        /\ ContextOf(call, xt, n) = After(call, xt, blk)
        /\ \A j \in 0 .. blk : CacheStarts(call, j).at # CacheStarts(call, n).at
        /\ \A r \in 1 .. R : PrefixLen(call, r) + n * BlockSize = start(r) + BlockSize
    BY <1>1, <1>12, NextContext
  <2>4. CASE phase' = "idle" /\ blk' = blk
    <3>1. ContextKept'
      BY <2>4 DEF ContextKept
    <3>2. SeesItsContext'
      <4> HIDE DEF bl
      <4>1. QED
        BY <1>2, <1>9, <1>10, <2>2, <2>4 DEF SeesItsContext, Settled, SettledIn, bl
    <3>3. QED
      BY <3>1, <3>2 DEF ContextInv
  <2>5. CASE phase' = "step" /\ blk' = n /\ k' = 0
    <3>1. Holds(backend, F, CacheStarts(call, n).at, ContextOf(call, xt, n))
      BY <1>9, <1>10, <2>3
    <3>2. shift' = ShiftOf(call, xt, n)
      <4>1. ASSUME NEW r \in 1 .. R
            PROVE  F.out[r][bl] = SettledIn(call, xt, r, PrefixLen(call, r) + n * BlockSize - 1)
        <5> DEFINE a == PrefixLen(call, r)
                   z == n * BlockSize
        <5>1. a \in Nat /\ a + z = start(r) + bl
          BY <1>3, <2>3
        <5>2. z \in Int
          BY <1>3, BlockAssumption
        <5> HIDE DEF a, z, start
        <5>3. a + z - 1 = (start(r) + bl) - 1
          BY <5>1, <5>2
        <5>4. F.out[r][bl] = SettledIn(call, xt, r, (start(r) + bl) - 1)
          BY <1>9, <1>10
        <5>5. QED
          BY <5>3, <5>4 DEF a, z
      <4>2. QED
        BY <2>2, <4>1 DEF ShiftOf
    <3>3. PlanReady(F, call, n)
      <4> SUFFICES ASSUME backend = "flashinfer"
                   PROVE  PlanFits(F, CacheStarts(call, n)) /\ Behind(F, call, n)
        BY DEF PlanReady
      <4>1. F.planKey = engine.planKey /\ Behind(engine, call, blk)
        BY <1>5, <1>7, <1>10 DEF PlanReady
      <4>2. CASE F.planKey = FI!NoKey
        <5>1. DOMAIN CacheStarts(call, n).at = 1 .. R
          BY DEF CacheStarts
        <5>2. CacheStarts(call, n) # FI!NoKey
          BY <1>3, <5>1, StartsAreSome
        <5>3. QED
          BY <4>2, <5>2 DEF PlanFits, Behind
      <4>3. CASE F.planKey # FI!NoKey
        <5>1. PICK j \in 0 .. blk : F.planKey.at = CacheStarts(call, j).at
          BY <4>1, <4>3 DEF Behind
        <5>2. F.planKey # CacheStarts(call, n)
          BY <2>3, <5>1
        <5>3. j \in 0 .. n
          BY <1>3
        <5> HIDE DEF n
        <5>4. QED
          BY <5>1, <5>2, <5>3 DEF PlanFits, Behind
      <4>4. QED
        BY <4>2, <4>3
    <3>4. PlanReady(engine, call, blk)'
      BY <1>2, <2>2, <2>5, <3>3 DEF PlanReady
    <3> HIDE DEF n
    <3>5. ContextKept'
      BY <1>2, <2>2, <2>5, <3>1, <3>2, <3>4 DEF ContextKept
    <3>6. \A r \in 1 .. R : PrefixLen(call, r) + n * BlockSize = start(r) + bl
      BY <2>3
    <3>7. SeesItsContext'
      <4> HIDE DEF bl, start
      <4>1. \A r \in 1 .. R :
              /\ Len(F.seen[r]) = PrefixLen(call, r) + n * BlockSize
              /\ \A i \in DOMAIN F.seen[r] : F.seen[r][i] = SettledIn(call, xt, r, i - 1)
        BY <1>9, <1>10, <3>6
      <4>2. QED
        BY <1>2, <2>2, <2>5, <4>1 DEF SeesItsContext, Settled, SettledIn
    <3>8. QED
      BY <3>5, <3>7 DEF ContextInv
  <2>6. QED
    BY <1>2, <1>12, <2>4, <2>5
<1>13. QED
  BY <1>11, <1>12

\* Every step keeps the context.
LEMMA NextContextInv ==
  ASSUME BInv, ContextInv, [Next]_vars, RowsAlike, WarmupFits
  PROVE  ContextInv'
<1>1. CASE Generate
  BY <1>1, GenerateContext
<1>2. CASE DenoiseStep
  BY <1>2, DenoiseContext
<1>3. CASE EndBlock
  BY <1>3, EndBlockContext
<1>4. CASE UNCHANGED vars
  <2>1. ContextKept'
    BY <1>4 DEF ContextInv, ContextKept, vars, PlanReady
  <2>2. SeesItsContext'
    BY <1>4 DEF ContextInv, SeesItsContext, vars, Settled
  <2>3. QED
    BY <2>1, <2>2 DEF ContextInv
<1>5. QED
  BY <1>1, <1>2, <1>3, <1>4 DEF Next

-----------------------------------------------------------------------------
(* Every forward attends to the row's own prefix, its clean earlier blocks and *)
(* the block being decoded, and to nothing else, and a block's first logits    *)
(* come from the state before it (torch_sdpa.py:311, model.py:914): for any    *)
(* calls one after another, whatever engine and graph they take over, where    *)
(* the rows of the fallback engine start together and a warm-up block fits.    *)
THEOREM ContextSeen ==
  ASSUME RowsAlike, WarmupFits
  PROVE  Spec => []SeesItsContext
<1>1. Init => ContextInv
  BY DEF Init, ContextInv, ContextKept, SeesItsContext
<1>2. BInv /\ ContextInv /\ [Next]_vars => BInv' /\ ContextInv'
  BY NextBInv, NextContextInv
<1>3. ContextInv => SeesItsContext
  BY DEF ContextInv
<1>4. QED
  BY <1>1, <1>2, <1>3, InitBInv, PTL DEF Spec
=============================================================================
