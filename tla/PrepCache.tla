----------------------------- MODULE PrepCache ------------------------------
(***************************************************************************)
(* prepare_cached (server/kokoro_app.py): a bounded cache of futures that  *)
(* the threads of the preparation pool share.  The first caller of a text  *)
(* puts a future in the cache and prepares the text outside the lock; the  *)
(* others wait for that future, each on a thread of the pool.  A critical  *)
(* section under prep_cache_lock is one action.                            *)
(*                                                                         *)
(* A future is named after the caller that created it, its leader.         *)
(***************************************************************************)
EXTENDS Integers, Sequences, FiniteSets

CONSTANTS
  Callers,
  Texts,
  TextOf,     \* [Callers -> Texts], the key of a caller
  PrepFails,  \* texts whose preparation may raise
  PoolSize,   \* threads of prep_pool
  CacheSize   \* entries kept, 1024 in the code

ASSUME PrepAssumption ==
  /\ IsFiniteSet(Callers)
  /\ TextOf \in [Callers -> Texts]
  /\ PrepFails \subseteq Texts
  /\ PoolSize \in Nat \ {0} /\ CacheSize \in Nat \ {0}

VARIABLES
  stage,    \* where the call of prepare_cached of each caller is
  pool,     \* callers no thread has taken up yet, in order
  cache,    \* prep_cache: [text, leader], oldest first
  future,   \* state of the future of each caller that led
  awaited   \* the leader a follower waits for, itself for a leader

prepVars == <<stage, pool, cache, future, awaited>>

Running == {"leading", "evicting", "dropping", "waiting"}
Finished == {"prepared", "raised"}

PrepTypeOK ==
  /\ stage \in [Callers -> {"idle", "pooled"} \cup Running \cup Finished]
  /\ pool \in Seq(Callers)
  /\ cache \in Seq([text : Texts, leader : Callers])
  /\ future \in [Callers -> {"none", "pending", "result", "exception"}]
  /\ awaited \in [Callers -> Callers]

PrepInit ==
  /\ stage = [c \in Callers |-> "idle"]
  /\ pool = << >> /\ cache = << >>
  /\ future = [c \in Callers |-> "none"]
  /\ awaited = [c \in Callers |-> c]

Done(c) == future[c] \in {"result", "exception"}
Busy == {c \in Callers : stage[c] \in Running}

(* The entries of a text: there is at most one, since the cache is a dict. *)
EntriesOf(t) == {i \in DOMAIN cache : cache[i].text = t}
EntryOf(t) == CHOOSE i \in EntriesOf(t) : TRUE

Removed(q, i) == SubSeq(q, 1, i - 1) \o SubSeq(q, i + 1, Len(q))
CacheWithout(t) ==
  IF EntriesOf(t) = {} THEN cache ELSE Removed(cache, EntryOf(t))

(* run_in_executor: the call waits for a thread. *)
Call(c) ==
  /\ stage[c] = "idle"
  /\ stage' = [stage EXCEPT ![c] = "pooled"]
  /\ pool' = Append(pool, c)
  /\ UNCHANGED <<cache, future, awaited>>

(* A thread takes the call and looks its text up under the lock. *)
Lookup(c) ==
  /\ pool # << >> /\ c = Head(pool) /\ Cardinality(Busy) < PoolSize
  /\ pool' = Tail(pool)
  /\ IF EntriesOf(TextOf[c]) = {}
       THEN /\ stage' = [stage EXCEPT ![c] = "leading"]
            /\ cache' = Append(cache, [text |-> TextOf[c], leader |-> c])
            /\ future' = [future EXCEPT ![c] = "pending"]
            /\ UNCHANGED awaited
       ELSE LET e == cache[EntryOf(TextOf[c])]
            IN /\ stage' = [stage EXCEPT ![c] = "waiting"]
               /\ cache' = Append(CacheWithout(TextOf[c]), e)  \* move_to_end
               /\ awaited' = [awaited EXCEPT ![c] = e.leader]
               /\ UNCHANGED future

Prepare(c) ==
  /\ stage[c] = "leading"
  /\ \/ /\ stage' = [stage EXCEPT ![c] = "evicting"]
        /\ future' = [future EXCEPT ![c] = "result"]
     \/ /\ TextOf[c] \in PrepFails
        /\ stage' = [stage EXCEPT ![c] = "dropping"]
        /\ future' = [future EXCEPT ![c] = "exception"]
  /\ UNCHANGED <<pool, cache, awaited>>

\* Mutant: the oldest entries go, whether or not they are done.
EvictedAny(q) ==
  IF Len(q) > CacheSize THEN SubSeq(q, Len(q) - CacheSize + 1, Len(q)) ELSE q

(* Oldest entries go while there are too many, up to one still prepared. *)
Evicted(q) ==
  LET excess == IF Len(q) > CacheSize THEN Len(q) - CacheSize ELSE 0
      stuck == {i \in 1 .. excess : ~ Done(q[i].leader)}
      n == IF stuck = {} THEN excess
           ELSE (CHOOSE i \in stuck : \A j \in stuck : i <= j) - 1
  IN SubSeq(q, n + 1, Len(q))

Evict(c) ==
  /\ stage[c] = "evicting"
  /\ cache' = Evicted(cache)
  /\ stage' = [stage EXCEPT ![c] = "prepared"]
  /\ UNCHANGED <<pool, future, awaited>>

\* Mutant: a failure is reported and left in the cache.
KeepFailure(c) ==
  /\ stage[c] = "dropping"
  /\ stage' = [stage EXCEPT ![c] = "raised"]
  /\ UNCHANGED <<cache, pool, future, awaited>>

(* A failed leader pops its text, whosever entry that is by then, and raises. *)
DropFailure(c) ==
  /\ stage[c] = "dropping"
  /\ cache' = CacheWithout(TextOf[c])
  /\ stage' = [stage EXCEPT ![c] = "raised"]
  /\ UNCHANGED <<pool, future, awaited>>

(* future.result() of a follower. *)
Resume(c) ==
  /\ stage[c] = "waiting" /\ Done(awaited[c])
  /\ stage' = [stage EXCEPT ![c] =
                 IF future[awaited[c]] = "result" THEN "prepared" ELSE "raised"]
  /\ UNCHANGED <<pool, cache, future, awaited>>

PrepStep(c) == Lookup(c) \/ Prepare(c) \/ Evict(c) \/ DropFailure(c) \/ Resume(c)

PrepNext == \E c \in Callers : Call(c) \/ PrepStep(c)
PrepSpec == PrepInit /\ [][PrepNext]_prepVars

-----------------------------------------------------------------------------
(* A future that can be found is answered.  Whoever waits, waits for a call    *)
(* that runs on a thread of the pool or has ended, never for one that is       *)
(* itself waiting or not taken up: a pool full of followers cannot block       *)
(* itself.  What is in the cache is running or has a result, or has failed     *)
(* and is about to be dropped, so that a later call prepares the text anew     *)
(* (kokoro_app.py:508-532).                                                    *)
FuturesAnswered ==
  /\ \A c \in Callers : stage[c] = "waiting" =>
       /\ TextOf[awaited[c]] = TextOf[c]
       /\ stage[awaited[c]] = "leading" \/ Done(awaited[c])
  /\ \A i \in DOMAIN cache :
       LET l == cache[i].leader
       IN /\ TextOf[l] = cache[i].text
          /\ stage[l] = "leading" \/ Done(l)
          /\ future[l] = "exception" => stage[l] = "dropping"

(* A text that is being prepared is in the cache, so that nobody prepares it a *)
(* second time: making room never takes it out.  Only the pop of a call that   *)
(* failed on the same text can, since it does not look whose entry it pops     *)
(* (kokoro_app.py:524).                                                        *)
PreparedOnce ==
  \A c \in Callers : stage[c] = "leading" =>
    \/ \E i \in DOMAIN cache : cache[i].leader = c
    \/ \E d \in Callers : TextOf[d] = TextOf[c] /\ future[d] = "exception"
                          /\ stage[d] = "raised"
=============================================================================
