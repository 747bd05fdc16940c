------------------------------ MODULE QueueOps ------------------------------
(***************************************************************************)
(* The selections of SchedulerQueue (server/scheduler.py) as operators on  *)
(* sequences. A queue is a sequence of distinct requests, oldest first; an *)
(* urgency is a function from requests to numbers, smaller is sooner: what *)
(* the engines order by (priority, time, rid), only its order matters.     *)
(***************************************************************************)
EXTENDS Integers, Sequences, FiniteSets

Members(q) == {q[i] : i \in DOMAIN q}
Distinct(q) == \A i, j \in DOMAIN q : q[i] = q[j] => i = j

\* enumerate() in the key makes the sort stable: FIFO among equals.
Position(q, r) == CHOOSE i \in DOMAIN q : q[i] = r
Before(q, urgency, r, s) ==
  \/ urgency[r] < urgency[s]
  \/ urgency[r] = urgency[s] /\ Position(q, r) < Position(q, s)

\* How many waiters go before r.
Rank(q, urgency, r) ==
  Cardinality({s \in Members(q) : Before(q, urgency, s, r)})

Seed(q, urgency) == CHOOSE r \in Members(q) : Rank(q, urgency, r) = 0

\* The elements of q that are in S, in the order of q.
Keep(q, S) ==
  LET kept[n \in 0 .. Len(q)] ==
        IF n = 0 THEN <<>>
        ELSE IF q[n] \in S THEN Append(kept[n - 1], q[n])
        ELSE kept[n - 1]
  IN  kept[Len(q)]

\* Mutants: the chosen stay in the queue; take ignores its select_key.
WithoutRemoval(q, chosen) == q
TakeFifo(q, urgency, limit) ==
  SubSeq(q, 1, IF Len(q) < limit THEN Len(q) ELSE limit)

Without(q, chosen) == Keep(q, Members(q) \ chosen)

\* take(limit, select_key): the limit most urgent, most urgent first.
Chosen(q, urgency, limit) ==
  {r \in Members(q) : Rank(q, urgency, r) < limit}
Take(q, urgency, limit) ==
  LET chosen == Chosen(q, urgency, limit)
  IN  [k \in 1 .. Cardinality(chosen) |->
         CHOOSE r \in chosen : Rank(q, urgency, r) = k - 1]

\* The first n elements that pass, in queue order.
FirstThat(q, Test(_), n) ==
  LET passing == Keep(q, {r \in Members(q) : Test(r)})
  IN  SubSeq(passing, 1, IF Len(passing) < n THEN Len(passing) ELSE n)

\* take_group: one walk over the queue keeps the seed and what is compatible
\* with it until the limit of the seed is reached.
Group(q, urgency, compatible, limitFor) ==
  LET groupOf == [seed \in Members(q) |->
        FirstThat(q, LAMBDA r : r = seed \/ <<seed, r>> \in compatible,
                  IF limitFor[seed] < 1 THEN 1 ELSE limitFor[seed])]
  IN  groupOf[Seed(q, urgency)]

\* Mutant: extend_group takes up to limit newcomers, however large the batch.
JoiningPastLimit(q, batch, compatible, limit) ==
  IF batch = <<>> \/ Len(batch) >= limit
  THEN <<>>
  ELSE FirstThat(q, LAMBDA r : <<batch[1], r>> \in compatible, limit)

\* extend_group: what joins a batch; its first member stands for the seed.
Joining(q, batch, compatible, limit) ==
  IF batch = <<>> \/ Len(batch) >= limit
  THEN <<>>
  ELSE FirstThat(q, LAMBDA r : <<batch[1], r>> \in compatible,
                 limit - Len(batch))
=============================================================================
