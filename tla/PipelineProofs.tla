--------------------------- MODULE PipelineProofs ---------------------------
(***************************************************************************)
(* Theorems about BatchPipeline, with RateLimiter in it: the totals add up *)
(* and the debt of the rate limiter is bounded, for every number of users, *)
(* size of batch, concurrency, number of retries and rate.                 *)
(***************************************************************************)
EXTENDS BatchPipeline, FiniteSetTheorems, TLAPS

(* What Cut promises: no user is in two batches, the batches that are not  *)
(* empty come first, every user is in one, and none is too large.          *)
Disjoint == \A a, b \in Batch : a # b => members[a] \cap members[b] = {}
Covers   == \A u \in User : \E b \in Batch : b <= Batches /\ u \in members[b]
Small    == \A b \in Batch : Size(b) <= BatchSize

(* The pool holds the batches in flight, and the loop waits when it is     *)
(* full; the batches before `next`, and no others, have been launched.     *)
Pool ==
    /\ pool = InFlight
    /\ Cardinality(pool) <= Concurrency
    /\ main = "loop" => Cardinality(pool) < Concurrency
    /\ next <= Batches + 1
    /\ \A b \in Batch : pc[b] = "none" <=> b >= next
    /\ \A b \in Batch : wait[b] # Limiter!Awake => pc[b] = "acquire"
    /\ \A b \in Batch : pc[b] = "backoff" => attempt[b] < MaxRetries

(* With the waits w, the callers asleep and those that wake no later than  *)
(* c; the tokens there will be when c wakes, if nobody takes one before.   *)
Sleepers(w)  == {b \in Batch : w[b] # Limiter!Awake}
Before(w, c) == {b \in Sleepers(w) : w[b] <= w[c]}
Awaits(c)    == tokens + (elapsed + wait[c]) * Rate

(* What can be missing because a timer fired early.                        *)
Slack == Early * Rate

(* With P places the debt is below P tokens, Slack apart, and when c wakes *)
(* it can only be as deep as those that left the sleepers made it.         *)
Owes(P) ==
    /\ tokens >= (1 - P) * Cost - Slack
    /\ \A c \in Sleepers(wait) : Awaits(c) >= (1 - P + Cardinality(Before(wait, c))) * Cost - Slack

Debt == Owes(Concurrency) /\ Owes(Users)

(* The totals count the batches that are over, those that threw twice.     *)
UsersOf(B) == UNION {members[b] : b \in B}
Over       == {b \in Batch : pc[b] = "over"}

Counted ==
    /\ sent = reached
    /\ thrown \subseteq Over
    /\ sent + errors = Cardinality(UsersOf(Over)) + Cardinality(UsersOf(thrown))
    /\ main \in {"all", "returned"} => next > Batches \/ aborted
    /\ main = "returned" => pool = {}

Inv == TypeOK /\ Disjoint /\ Covers /\ Small /\ Pool /\ Debt /\ Counted

---------------------------------------------------------------------------
(* What is known of the constants.                                         *)
LEMMA Constants ==
    /\ Users \in Nat /\ BatchSize \in Nat \ {0} /\ Concurrency \in Nat \ {0} /\ MaxRetries \in Nat
    /\ Cost \in Nat \ {0} /\ Rate \in Nat \ {0} /\ MaxTokens \in Nat \ {0}
    /\ Early \in Nat /\ Slack \in Nat
    /\ Batch = User /\ IsFiniteSet(User) /\ Cardinality(User) = Users
<1>1. /\ Users \in Nat /\ BatchSize \in Nat \ {0} /\ Concurrency \in Nat \ {0} /\ MaxRetries \in Nat
      /\ Cost \in Nat \ {0} /\ Rate \in Nat \ {0} /\ MaxTokens \in Nat \ {0}
  BY PipelineAssumption
<1>2. IsFiniteSet(1 .. Users) /\ Cardinality(1 .. Users) = Users
  BY <1>1, FS_Interval
<1>3. Early \in Nat /\ Slack \in Nat
  <2>1. \A a, b \in Nat : a * b \in Nat
    OBVIOUS
  <2>2. Early \in Nat /\ Rate \in Nat
    BY PipelineAssumption
  <2> QED
    BY <2>1, <2>2 DEF Slack
<1> QED
  BY <1>1, <1>2, <1>3 DEF User, Batch

(* The order of the integers and products.                                 *)
LEMMA Times ==
  ASSUME NEW k \in Nat, NEW m \in Int, NEW n \in Int
  PROVE  /\ m * k \in Int /\ (m + 1) * k = m * k + k /\ (m - 1) * k = m * k - k
         /\ m >= 0 => m * k >= 0
         /\ m <= 0 => m * k <= 0
         /\ m <= 1 => m * k <= k
         /\ (m + n) * k = m * k + n * k
         /\ m <= n => m * k <= n * k
<1>1. \A a \in Nat : a * k >= 0
  OBVIOUS
<1>2. /\ m * k \in Int /\ (m + 1) * k = m * k + k /\ (m - 1) * k = m * k - k
      /\ (m + n) * k = m * k + n * k
  OBVIOUS
<1>3. m >= 0 => m * k >= 0
  BY <1>1
<1>4. m <= 0 => m * k <= 0
  <2>1. m <= 0 => (0 - m) * k >= 0
    BY <1>1
  <2>2. (0 - m) * k = 0 - m * k
    OBVIOUS
  <2> QED
    BY <1>2, <2>1, <2>2
<1>5. m <= n => m * k <= n * k
  <2>1. m <= n => (n - m) * k >= 0
    BY <1>1
  <2>2. (n - m) * k = n * k - m * k /\ n * k \in Int
    OBVIOUS
  <2> QED
    BY <1>2, <2>1, <2>2
<1>6. m <= 1 => m * k <= k
  <2>1. m <= 1 => (1 - m) * k >= 0
    BY <1>1
  <2>2. (1 - m) * k = k - m * k
    OBVIOUS
  <2> QED
    BY <1>2, <2>1, <2>2
<1> QED
  BY <1>2, <1>3, <1>4, <1>5, <1>6

(* Rounded up, a quotient is long enough.                                  *)
LEMMA CeilDivEnough ==
  ASSUME NEW a \in Nat \ {0}, NEW b \in Nat \ {0}
  PROVE  Limiter!CeilDiv(a, b) \in Nat /\ Limiter!CeilDiv(a, b) * b >= a
<1> DEFINE q == (a + b - 1) \div b
<1>1. q \in Int /\ b * q <= a + b - 1 /\ a + b - 1 < b * q + b
  OBVIOUS
<1>2. q >= 0
  OBVIOUS
<1>3. b * q = q * b /\ q * b \in Int
  BY <1>1
<1> QED
  BY <1>1, <1>2, <1>3 DEF Limiter!CeilDiv

(* The wait of a caller that misses a units, and what flows in during it.  *)
LEMMA WaitEnough ==
  ASSUME NEW a \in Nat \ {0}
  PROVE  /\ Limiter!Higher(0, Limiter!CeilDiv(a, Rate) - Early) \in Nat
         /\ Limiter!Higher(0, Limiter!CeilDiv(a, Rate) - Early) * Rate >= a - Slack
<1> DEFINE q == Limiter!CeilDiv(a, Rate)
<1>1. Rate \in Nat \ {0} /\ Early \in Nat /\ Slack \in Nat /\ Slack = Early * Rate
  BY Constants DEF Slack
<1>2. q \in Nat /\ q * Rate >= a /\ q * Rate \in Int
  BY <1>1, CeilDivEnough
<1> HIDE DEF q
<1>3. CASE q > Early
  <2>1. (q - Early) * Rate + Early * Rate = ((q - Early) + Early) * Rate
    BY <1>1, <1>2, Times
  <2>2. (q - Early) + Early = q /\ (q - Early) * Rate \in Int
    BY <1>1, <1>2, Times
  <2>3. Limiter!Higher(0, q - Early) = q - Early /\ q - Early \in Nat
    BY <1>1, <1>2, <1>3 DEF Limiter!Higher
  <2> QED
    BY <1>1, <1>2, <2>1, <2>2, <2>3 DEF q
<1>4. CASE q <= Early
  <2>1. q * Rate <= Early * Rate
    BY <1>1, <1>2, <1>4, Times
  <2>2. Limiter!Higher(0, q - Early) = 0 /\ 0 * Rate = 0
    BY <1>1, <1>2, <1>4 DEF Limiter!Higher
  <2> QED
    BY <1>1, <1>2, <2>1, <2>2 DEF q
<1> QED
  BY <1>1, <1>2, <1>3, <1>4

(* The bucket holds a token at least, and the time that is told apart is   *)
(* enough to fill it, whatever is owed.                                    *)
LEMMA BucketFacts ==
    /\ Limiter!Cap \in Nat /\ Limiter!Cap >= Cost
    /\ Limiter!MaxElapsed \in Nat /\ Limiter!MaxElapsed * Rate >= Limiter!Cap + Users * Cost + Slack
<1> DEFINE c == Limiter!Cap + Users * Cost
           q == c \div Rate
<1>1. Limiter!Cap \in Nat /\ Limiter!Cap >= Cost
  <2>1. MaxTokens \in Int /\ 1 <= MaxTokens /\ Cost \in Nat
    BY Constants
  <2>2. 1 * Cost <= MaxTokens * Cost /\ 1 * Cost = Cost /\ MaxTokens * Cost \in Int
    BY <2>1, Times
  <2> QED
    BY <2>1, <2>2 DEF Limiter!Cap
<1>2. c \in Nat
  BY <1>1, Constants, Times
<1>3. Rate \in Nat \ {0}
  BY Constants
<1> HIDE DEF c
<1>4. q \in Int /\ Rate * q <= c /\ c < Rate * q + Rate /\ q >= 0
  BY <1>2, <1>3
<1>5. (q + 1 + Early) * Rate = Rate * q + Rate + Slack
  <2>1. Early \in Nat /\ Slack = Early * Rate /\ Slack \in Nat
    BY Constants DEF Slack
  <2>2. (q + 1 + Early) * Rate = (q + 1) * Rate + Early * Rate
    BY <1>3, <1>4, <2>1, Times
  <2>3. (q + 1) * Rate = Rate * q + Rate
    BY <1>3, <1>4
  <2> QED
    BY <2>1, <2>2, <2>3
<1>6. Limiter!Cardinality(Batch) = Cardinality(Batch)
  BY DEF Limiter!Cardinality, Limiter!IsFiniteSet, Cardinality, IsFiniteSet
<1>7. Limiter!MaxElapsed = q + 1 + Early /\ Early \in Nat /\ Slack \in Nat
  BY <1>6, Constants DEF Limiter!MaxElapsed, c
<1> QED
  BY <1>1, <1>2, <1>3, <1>4, <1>5, <1>7 DEF c

---------------------------------------------------------------------------
(* The rate limiter alone, with at most P callers at a time. Below, its    *)
(* type as the provers use it, and the sets and numbers of Owes.           *)
Bucket ==
    /\ tokens \in Int /\ tokens <= Limiter!Cap
    /\ elapsed \in Nat /\ elapsed <= Limiter!MaxElapsed
    /\ wait \in [Batch -> Nat \cup {Limiter!Awake}]

LEMMA BucketType == Limiter!LimiterTypeOK <=> Bucket
<1>1. Limiter!MaxElapsed \in Nat
  BY BucketFacts
<1>2. elapsed \in 0 .. Limiter!MaxElapsed <=> elapsed \in Nat /\ elapsed <= Limiter!MaxElapsed
  BY <1>1
<1> QED
  BY <1>2 DEF Limiter!LimiterTypeOK, Bucket

(* A caller asleep has a time to wait, and is among those before it.       *)
LEMMA SleepersFacts ==
  ASSUME NEW w \in [Batch -> Nat \cup {Limiter!Awake}]
  PROVE  /\ IsFiniteSet(Sleepers(w)) /\ Cardinality(Sleepers(w)) \in Nat
         /\ \A c \in Sleepers(w) : c \in Batch /\ w[c] \in Nat /\ w[c] * Rate \in Nat
         /\ \A c \in Sleepers(w) : /\ c \in Before(w, c) /\ Before(w, c) \subseteq Sleepers(w)
                                 /\ IsFiniteSet(Before(w, c)) /\ Cardinality(Before(w, c)) \in Nat
                                 /\ 1 <= Cardinality(Before(w, c))
                                 /\ Cardinality(Before(w, c)) <= Cardinality(Sleepers(w))
<1>1. IsFiniteSet(Batch)
  BY Constants
<1>2. Sleepers(w) \subseteq Batch
  BY DEF Sleepers
<1>3. IsFiniteSet(Sleepers(w)) /\ Cardinality(Sleepers(w)) \in Nat
  BY <1>1, <1>2, FS_Subset, FS_CardinalityType
<1>4. \A c \in Sleepers(w) : c \in Batch /\ w[c] \in Nat
  BY DEF Sleepers
<1>5. ASSUME NEW c \in Sleepers(w)
      PROVE  /\ w[c] * Rate \in Nat
             /\ c \in Before(w, c) /\ Before(w, c) \subseteq Sleepers(w)
             /\ IsFiniteSet(Before(w, c)) /\ Cardinality(Before(w, c)) \in Nat
             /\ 1 <= Cardinality(Before(w, c))
             /\ Cardinality(Before(w, c)) <= Cardinality(Sleepers(w))
  <2>1. w[c] \in Nat /\ Rate \in Nat
    BY <1>4, Constants
  <2>2. c \in Before(w, c) /\ Before(w, c) \subseteq Sleepers(w)
    BY <2>1 DEF Before
  <2>3. IsFiniteSet(Before(w, c)) /\ Cardinality(Before(w, c)) <= Cardinality(Sleepers(w))
    BY <1>3, <2>2, FS_Subset
  <2>4. Cardinality(Before(w, c)) \in Nat /\ Cardinality(Before(w, c)) # 0
    BY <2>2, <2>3, FS_CardinalityType, FS_EmptySet
  <2>5. w[c] * Rate \in Nat
    BY <2>1, Times
  <2> QED
    BY <2>2, <2>3, <2>4, <2>5
<1> QED
  BY <1>3, <1>4, <1>5

(* After a step that leaves no debt, nobody sleeps for more than is owed.  *)
LEMMA NoDebtOwes ==
  ASSUME Bucket', NEW P \in Nat \ {0}, tokens' >= 0, Cardinality(Sleepers(wait')) < P
  PROVE  Owes(P)'
<1>1. Cost \in Nat /\ Rate \in Nat /\ Slack \in Nat /\ elapsed' \in Nat /\ tokens' \in Int
  BY Constants DEF Bucket
<1>2. (1 - P) * Cost \in Int /\ (1 - P) * Cost <= 0
  BY <1>1, Times
<1>3. ASSUME NEW c \in Sleepers(wait')
      PROVE  Awaits(c)' >= (1 - P + Cardinality(Before(wait', c))) * Cost - Slack
  <2>1. /\ wait'[c] \in Nat /\ Cardinality(Before(wait', c)) \in Nat
        /\ Cardinality(Before(wait', c)) <= Cardinality(Sleepers(wait'))
        /\ Cardinality(Sleepers(wait')) \in Nat
    BY SleepersFacts DEF Bucket
  <2>2. 1 - P + Cardinality(Before(wait', c)) \in Int /\ 1 - P + Cardinality(Before(wait', c)) <= 0
    BY <2>1
  <2>3. /\ (1 - P + Cardinality(Before(wait', c))) * Cost <= 0
        /\ (1 - P + Cardinality(Before(wait', c))) * Cost \in Int
    BY <1>1, <2>2, Times
  <2>4. (elapsed' + wait'[c]) * Rate >= 0 /\ (elapsed' + wait'[c]) * Rate \in Int
    BY <1>1, <2>1, Times
  <2> QED
    BY <1>1, <2>3, <2>4 DEF Awaits
<1> QED
  BY <1>1, <1>2, <1>3 DEF Owes

(* The bucket refilled is as full as the time gone by made it, or full.    *)
LEMMA RefilledFacts ==
  ASSUME Bucket
  PROVE  /\ Limiter!Refilled \in Int /\ elapsed * Rate \in Nat
         /\ \/ Limiter!Refilled = tokens + elapsed * Rate
            \/ Limiter!Refilled = Limiter!Cap /\ Limiter!Cap >= Cost
<1>1. elapsed * Rate \in Nat
  BY Constants, Times DEF Bucket
<1> QED
  BY <1>1, BucketFacts DEF Bucket, Limiter!Refilled, Limiter!Lower

LEMMA TakesTokenOwes ==
  ASSUME Bucket, Bucket', NEW P \in Nat \ {0}, NEW b \in Batch, Limiter!TakesToken(b),
         Cardinality(Sleepers(wait)) < P
  PROVE  Owes(P)'
<1>1. tokens' >= 0 /\ wait' = wait
  BY RefilledFacts, Constants DEF Limiter!TakesToken
<1> QED
  BY <1>1, NoDebtOwes

(* A caller that wakes takes its place, and what it owes, with it.         *)
LEMMA WakesOwes ==
  ASSUME Bucket, Bucket', NEW P \in Nat \ {0}, Owes(P), NEW b \in Batch, Limiter!WakesAndTakes(b),
         Cardinality(Sleepers(wait)) <= P
  PROVE  Owes(P)'
<1>1. /\ wait[b] = 0 /\ wait' = [wait EXCEPT ![b] = Limiter!Awake] /\ elapsed' = 0
      /\ tokens' = Limiter!Refilled - Cost
  BY DEF Limiter!WakesAndTakes
<1>2. b \in Sleepers(wait) /\ Sleepers(wait') = Sleepers(wait) \ {b}
  BY <1>1 DEF Sleepers, Bucket, Limiter!Awake
<1>3. Cardinality(Sleepers(wait')) < P
  <2>1. IsFiniteSet(Sleepers(wait)) /\ Cardinality(Sleepers(wait)) \in Nat
    BY SleepersFacts DEF Bucket
  <2> QED
    BY <1>2, <2>1, FS_RemoveElement
<1>4. Cost \in Nat /\ Rate \in Nat /\ Slack \in Nat /\ elapsed \in Nat /\ tokens \in Int
  BY Constants DEF Bucket
<1>5. CASE Limiter!Refilled = Limiter!Cap /\ Limiter!Cap >= Cost
  <2>1. tokens' >= 0
    BY <1>1, <1>4, <1>5, BucketFacts
  <2> QED
    BY <1>3, <2>1, NoDebtOwes
<1>6. CASE Limiter!Refilled = tokens + elapsed * Rate
  <2>1. tokens' >= (1 - P) * Cost - Slack
    <3>1. Awaits(b) = Limiter!Refilled /\ Limiter!Refilled \in Int
      BY <1>1, <1>4, <1>6, RefilledFacts DEF Awaits
    <3>2. Cardinality(Before(wait, b)) \in Nat /\ 1 <= Cardinality(Before(wait, b))
      BY <1>2, SleepersFacts DEF Bucket
    <3> DEFINE n == Cardinality(Before(wait, b))
    <3>3. (1 - P + 1) * Cost <= (1 - P + n) * Cost /\ (1 - P + n) * Cost \in Int
      BY <1>4, <3>2, Times
    <3>4. (1 - P + 1) * Cost = (1 - P) * Cost + Cost /\ (1 - P) * Cost \in Int
      BY <1>4, Times
    <3>5. Awaits(b) >= (1 - P + n) * Cost - Slack
      BY <1>2 DEF Owes
    <3> QED
      BY <1>1, <1>4, <3>1, <3>3, <3>4, <3>5
  <2>2. ASSUME NEW c \in Sleepers(wait')
        PROVE  Awaits(c)' >= (1 - P + Cardinality(Before(wait', c))) * Cost - Slack
    <3>1. c \in Sleepers(wait) /\ c # b /\ c \in Batch /\ wait'[c] = wait[c] /\ wait[c] \in Nat
      BY <1>1, <1>2, <2>2, SleepersFacts DEF Sleepers, Bucket
    <3> DEFINE n == Cardinality(Before(wait, c))
    <3>2. Before(wait', c) = Before(wait, c) \ {b} /\ b \in Before(wait, c)
      BY <1>1, <1>2, <3>1 DEF Before, Sleepers, Bucket
    <3>3. IsFiniteSet(Before(wait, c)) /\ n \in Nat
      BY <3>1, SleepersFacts DEF Bucket
    <3>4. Cardinality(Before(wait', c)) = n - 1
      BY <3>2, <3>3, FS_RemoveElement
    <3>5. Awaits(c)' = Awaits(c) - Cost /\ Awaits(c) \in Int
      <4>1. (elapsed + wait[c]) * Rate = elapsed * Rate + wait[c] * Rate
        BY <1>4, <3>1, Times
      <4>2. elapsed * Rate \in Int /\ wait[c] * Rate \in Int /\ 0 + wait[c] = wait[c]
        BY <1>4, <3>1, Times
      <4>3. Awaits(c)' = tokens' + wait[c] * Rate
        BY <1>1, <3>1, <4>2 DEF Awaits
      <4> QED
        BY <1>1, <1>4, <1>6, <4>1, <4>2, <4>3 DEF Awaits
    <3>6. Awaits(c) >= (1 - P + n) * Cost - Slack
      BY <3>1 DEF Owes
    <3>7. /\ (1 - P + n) - 1 = 1 - P + (n - 1) /\ (1 - P + n) * Cost \in Int
          /\ ((1 - P + n) - 1) * Cost = (1 - P + n) * Cost - Cost
      BY <1>4, <3>3, Times
    <3> QED
      BY <1>4, <3>4, <3>5, <3>6, <3>7
  <2> QED
    BY <2>1, <2>2 DEF Owes
<1> QED
  BY <1>5, <1>6, RefilledFacts

(* A caller that falls asleep will find its own token when it wakes.       *)
LEMMA SleepsOwes ==
  ASSUME Bucket, Bucket', NEW P \in Nat \ {0}, Owes(P), NEW b \in Batch, Limiter!Sleeps(b),
         Cardinality(Sleepers(wait)) < P
  PROVE  Owes(P)'
<1> DEFINE w == Limiter!Higher(0, Limiter!CeilDiv(Cost - Limiter!Refilled, Rate) - Early)
<1>1. Cost \in Nat \ {0} /\ Rate \in Nat \ {0} /\ Slack \in Nat /\ elapsed \in Nat /\ tokens \in Int
  BY Constants DEF Bucket
<1>2. /\ wait[b] = Limiter!Awake /\ wait' = [wait EXCEPT ![b] = w] /\ elapsed' = 0
      /\ tokens' = Limiter!Refilled /\ Limiter!Refilled < Cost
  BY DEF Limiter!Sleeps
<1>3. tokens' = tokens + elapsed * Rate /\ elapsed * Rate \in Nat
  BY <1>1, <1>2, RefilledFacts, BucketFacts
<1>4. w \in Nat /\ w * Rate >= Cost - tokens' - Slack /\ w * Rate \in Int
  <2>1. Cost - tokens' \in Nat \ {0}
    BY <1>1, <1>2, <1>3
  <2>2. w \in Nat /\ w * Rate >= Cost - Limiter!Refilled - Slack
    BY <1>1, <1>2, <2>1, WaitEnough
  <2> QED
    BY <1>1, <1>2, <2>2, Times
<1> HIDE DEF w
<1>5. Sleepers(wait') = Sleepers(wait) \cup {b} /\ b \notin Sleepers(wait) /\ wait'[b] = w
  BY <1>2, <1>4 DEF Sleepers, Bucket, Limiter!Awake
<1>6. Cardinality(Sleepers(wait')) <= P /\ Cardinality(Sleepers(wait')) \in Nat
  <2>1. IsFiniteSet(Sleepers(wait)) /\ Cardinality(Sleepers(wait)) \in Nat
    BY SleepersFacts DEF Bucket
  <2> QED
    BY <1>5, <2>1, FS_AddElement
<1>7. tokens' >= (1 - P) * Cost - Slack
  BY <1>1, <1>3, Times DEF Owes
<1>8. Awaits(b)' >= Cost - Slack /\ Awaits(b)' \in Int
  <2>1. 0 + w = w
    BY <1>4
  <2> QED
    BY <1>1, <1>2, <1>3, <1>4, <1>5, <2>1 DEF Awaits
<1>9. \A c \in Sleepers(wait') : /\ (1 - P + Cardinality(Before(wait', c))) * Cost <= Cost
                                /\ (1 - P + Cardinality(Before(wait', c))) * Cost \in Int
  <2> SUFFICES ASSUME NEW c \in Sleepers(wait')
               PROVE  /\ (1 - P + Cardinality(Before(wait', c))) * Cost <= Cost
                      /\ (1 - P + Cardinality(Before(wait', c))) * Cost \in Int
    OBVIOUS
  <2>1. /\ Cardinality(Before(wait', c)) \in Nat
        /\ Cardinality(Before(wait', c)) <= Cardinality(Sleepers(wait'))
    BY SleepersFacts DEF Bucket
  <2>2. 1 - P + Cardinality(Before(wait', c)) \in Int /\ 1 - P + Cardinality(Before(wait', c)) <= 1
    BY <1>6, <2>1
  <2> QED
    BY <1>1, <2>2, Times
<1>10. ASSUME NEW c \in Sleepers(wait'), c # b
       PROVE  Awaits(c)' >= (1 - P + Cardinality(Before(wait', c))) * Cost - Slack
  <2>1. c \in Sleepers(wait) /\ c \in Batch /\ wait'[c] = wait[c] /\ wait[c] \in Nat
    BY <1>2, <1>5, <1>10, SleepersFacts DEF Bucket
  <2>2. Awaits(c)' = Awaits(c) /\ Awaits(c) \in Int
    <3>1. (elapsed + wait[c]) * Rate = elapsed * Rate + wait[c] * Rate
      BY <1>1, <2>1, Times
    <3>2. wait[c] * Rate \in Int /\ 0 + wait[c] = wait[c]
      BY <1>1, <2>1, Times
    <3> QED
      BY <1>1, <1>2, <1>3, <2>1, <3>1, <3>2 DEF Awaits
  <2>3. CASE w <= wait[c]
    <3>1. w * Rate <= wait[c] * Rate /\ wait[c] * Rate \in Int
      BY <1>1, <1>4, <2>1, <2>3, Times
    <3>2. Awaits(c)' = tokens' + wait[c] * Rate
      <4>1. 0 + wait[c] = wait[c]
        BY <2>1
      <4> QED
        BY <1>2, <2>1, <4>1 DEF Awaits
    <3> QED
      BY <1>1, <1>3, <1>4, <1>9, <3>1, <3>2
  <2>4. CASE ~(w <= wait[c])
    <3>1. Before(wait', c) = Before(wait, c)
      BY <1>2, <1>5, <2>1, <2>4 DEF Before, Sleepers, Bucket
    <3> QED
      BY <2>1, <2>2, <3>1 DEF Owes
  <2> QED
    BY <2>3, <2>4
<1>11. \A c \in Sleepers(wait') : Awaits(c)' >= (1 - P + Cardinality(Before(wait', c))) * Cost - Slack
  <2>1. (1 - P + Cardinality(Before(wait', b))) * Cost - Slack <= Awaits(b)'
    BY <1>1, <1>5, <1>8, <1>9
  <2> QED
    BY <1>10, <2>1
<1> QED
  BY <1>7, <1>11 DEF Owes

(* The clock: two callers that were to wake one after the other may now    *)
(* wake in either order; the bucket is full when time is not counted.      *)
LEMMA TickOwes ==
  ASSUME Bucket, Bucket', NEW P \in Nat, Owes(P), Owes(Users), Limiter!Tick,
         Cardinality(Sleepers(wait)) <= P
  PROVE  Owes(P)'
<1>1. /\ Cost \in Nat \ {0} /\ Rate \in Nat \ {0} /\ Slack \in Nat /\ Users \in Nat
      /\ elapsed \in Nat /\ tokens \in Int
  BY Constants DEF Bucket
<1>2. /\ elapsed' = IF elapsed + 1 < Limiter!MaxElapsed THEN elapsed + 1 ELSE Limiter!MaxElapsed
      /\ wait' = [c \in Batch |-> IF wait[c] > 0 THEN wait[c] - 1 ELSE wait[c]]
      /\ tokens' = tokens
  BY DEF Limiter!Tick, Limiter!Lower
<1>3. Sleepers(wait') = Sleepers(wait)
  BY <1>2 DEF Sleepers, Bucket, Limiter!Awake
<1>4. ASSUME NEW c \in Sleepers(wait)
      PROVE  /\ c \in Batch /\ wait[c] \in Nat
             /\ wait'[c] = IF wait[c] > 0 THEN wait[c] - 1 ELSE 0
  BY <1>2, SleepersFacts DEF Bucket
<1>5. elapsed' = elapsed + 1 \/ (elapsed' = elapsed /\ elapsed = Limiter!MaxElapsed)
  BY <1>1, <1>2, BucketFacts DEF Bucket
<1>6. CASE elapsed' = elapsed /\ elapsed = Limiter!MaxElapsed
  <2>1. tokens + elapsed * Rate >= Cost
    <3>1. (1 - Users) * Cost = Cost - Users * Cost /\ Users * Cost \in Int
      <4>1. (1 + (0 - Users)) * Cost = 1 * Cost + (0 - Users) * Cost /\ (0 - Users) * Cost \in Int
        BY <1>1, Times
      <4>2. (0 - Users) * Cost = 0 - Users * Cost /\ 1 * Cost = Cost /\ Users * Cost \in Int
        BY <1>1
      <4>3. 1 + (0 - Users) = 1 - Users
        BY <1>1
      <4> QED
        BY <1>1, <4>1, <4>2, <4>3
    <3>2. tokens >= Cost - Users * Cost - Slack
      BY <3>1 DEF Owes
    <3>3. elapsed * Rate >= Cost + Users * Cost + Slack /\ elapsed * Rate \in Int
      BY <1>1, <1>6, <3>1, BucketFacts, Times
    <3> QED
      BY <1>1, <3>1, <3>2, <3>3
  <2>2. ASSUME NEW c \in Sleepers(wait)
        PROVE  Awaits(c)' >= (1 - P + Cardinality(Before(wait', c))) * Cost - Slack
    <3>1. wait'[c] \in Nat
      BY <1>4
    <3>2. /\ (elapsed + wait'[c]) * Rate = elapsed * Rate + wait'[c] * Rate
          /\ elapsed * Rate \in Int /\ wait'[c] * Rate \in Int /\ wait'[c] * Rate >= 0
      BY <1>1, <3>1, Times
    <3>3. Awaits(c)' >= Cost /\ Awaits(c)' \in Int
      BY <1>1, <1>2, <1>6, <2>1, <3>2 DEF Awaits
    <3>4. /\ Cardinality(Before(wait', c)) \in Nat /\ Cardinality(Sleepers(wait)) \in Nat
          /\ Cardinality(Before(wait', c)) <= Cardinality(Sleepers(wait))
      BY <1>3, SleepersFacts DEF Bucket
    <3>5. 1 - P + Cardinality(Before(wait', c)) \in Int /\ 1 - P + Cardinality(Before(wait', c)) <= 1
      BY <3>4
    <3>6. /\ (1 - P + Cardinality(Before(wait', c))) * Cost <= Cost
          /\ (1 - P + Cardinality(Before(wait', c))) * Cost \in Int
      BY <1>1, <3>5, Times
    <3> QED
      BY <1>1, <3>3, <3>6
  <2> QED
    BY <1>2, <1>3, <2>2 DEF Owes
<1>7. CASE elapsed' = elapsed + 1
  <2>1. \A c \in Sleepers(wait) : wait[c] > 0 => Awaits(c)' = Awaits(c)
    <3> SUFFICES ASSUME NEW c \in Sleepers(wait), wait[c] > 0
                 PROVE  Awaits(c)' = Awaits(c)
      OBVIOUS
    <3>1. elapsed' + wait'[c] = elapsed + wait[c]
      BY <1>1, <1>4, <1>7
    <3> QED
      BY <1>2, <3>1 DEF Awaits
  <2>2. ASSUME NEW c \in Sleepers(wait), wait[c] > 0
        PROVE  Awaits(c)' >= (1 - P + Cardinality(Before(wait', c))) * Cost - Slack
    <3>1. \A d \in Sleepers(wait) : wait'[d] <= wait'[c] <=> wait[d] <= wait[c]
      BY <1>4, <2>2
    <3>2. Before(wait', c) = Before(wait, c)
      BY <1>3, <3>1 DEF Before
    <3> QED
      BY <2>1, <2>2, <3>2 DEF Owes
  <2>3. ASSUME NEW c \in Sleepers(wait), wait[c] = 0
        PROVE  Awaits(c)' >= (1 - P + Cardinality(Before(wait', c))) * Cost - Slack
    <3>1. CASE \E d \in Sleepers(wait) : wait[d] = 1
      <4> PICK d \in Sleepers(wait) : wait[d] = 1
        BY <3>1
      <4>1. wait'[d] = 0 /\ wait'[c] = 0
        BY <1>4, <2>3
      <4>2. Before(wait', c) = Before(wait', d)
        BY <4>1 DEF Before
      <4>3. Awaits(c)' = Awaits(d)'
        BY <4>1 DEF Awaits
      <4> QED
        BY <2>2, <4>2, <4>3
    <3>2. CASE ~ \E d \in Sleepers(wait) : wait[d] = 1
      <4>1. \A d \in Sleepers(wait) : wait'[d] <= wait'[c] <=> wait[d] <= wait[c]
        BY <1>4, <2>3, <3>2
      <4>2. Before(wait', c) = Before(wait, c)
        BY <1>3, <4>1 DEF Before
      <4>3. Awaits(c)' >= Awaits(c) /\ Awaits(c) \in Int /\ Awaits(c)' \in Int
        <5>1. elapsed' + wait'[c] = elapsed + wait[c] + 1 /\ elapsed + wait[c] \in Int
          BY <1>1, <1>4, <1>7, <2>3
        <5>2. (elapsed + wait[c] + 1) * Rate = (elapsed + wait[c]) * Rate + Rate
          BY <1>1, <5>1, Times
        <5>3. (elapsed + wait[c]) * Rate \in Int
          BY <1>1, <5>1, Times
        <5> QED
          BY <1>1, <1>2, <5>1, <5>2, <5>3 DEF Awaits
      <4>4. (1 - P + Cardinality(Before(wait, c))) * Cost \in Int
        <5>1. 1 - P + Cardinality(Before(wait, c)) \in Int
          BY SleepersFacts DEF Bucket
        <5> QED
          BY <1>1, <5>1, Times
      <4>5. Awaits(c) >= (1 - P + Cardinality(Before(wait, c))) * Cost - Slack
        BY DEF Owes
      <4> QED
        BY <1>1, <4>2, <4>3, <4>4, <4>5
    <3> QED
      BY <3>1, <3>2
  <2>4. \A c \in Sleepers(wait) : wait[c] > 0 \/ wait[c] = 0
    BY <1>4
  <2> QED
    BY <1>2, <1>3, <2>2, <2>3, <2>4 DEF Owes
<1> QED
  BY <1>5, <1>6, <1>7

---------------------------------------------------------------------------
(* Cut numbers the slices in their order: the place of a slice is one more *)
(* than the number of those before it.                                     *)
Slices(group)   == {s \in User \X (0 .. Users) : Slice(group, s[1], s[2]) # {}}
Precedes(s, t)  == s[1] < t[1] \/ (s[1] = t[1] /\ s[2] < t[2])
Earlier(group, s) == {t \in Slices(group) : Precedes(t, s)}

LEMMA SlicesFinite ==
  ASSUME NEW group
  PROVE  /\ IsFiniteSet(Slices(group)) /\ Cardinality(Slices(group)) \in Nat
         /\ \A s \in Slices(group) : /\ IsFiniteSet(Earlier(group, s))
                                   /\ Cardinality(Earlier(group, s)) \in Nat
                                   /\ Cardinality(Earlier(group, s)) < Cardinality(Slices(group))
<1>1. IsFiniteSet(0 .. Users)
  BY Constants, FS_Interval
<1>2. IsFiniteSet(User \X (0 .. Users))
  BY <1>1, Constants, FS_Product
<1>3. Slices(group) \subseteq User \X (0 .. Users)
  BY DEF Slices
<1>4. IsFiniteSet(Slices(group)) /\ Cardinality(Slices(group)) \in Nat
  BY <1>2, <1>3, FS_Subset, FS_CardinalityType
<1>5. ASSUME NEW s \in Slices(group)
      PROVE  /\ IsFiniteSet(Earlier(group, s)) /\ Cardinality(Earlier(group, s)) \in Nat
             /\ Cardinality(Earlier(group, s)) < Cardinality(Slices(group))
  <2>1. s \notin Earlier(group, s)
    <3>1. s[1] \in Int /\ s[2] \in Int
      BY <1>3, Constants DEF User
    <3> QED
      BY <3>1 DEF Earlier, Precedes
  <2>2. Earlier(group, s) \subseteq Slices(group)
    BY DEF Earlier
  <2>3. IsFiniteSet(Earlier(group, s)) /\ Cardinality(Earlier(group, s)) \in Nat
    BY <1>4, <2>2, FS_Subset, FS_CardinalityType
  <2>4. /\ Cardinality(Earlier(group, s)) <= Cardinality(Slices(group))
        /\ Cardinality(Earlier(group, s)) # Cardinality(Slices(group))
    BY <1>4, <2>1, <2>2, FS_Subset
  <2> QED
    BY <1>4, <2>3, <2>4
<1> QED
  BY <1>4, <1>5

(* No two slices have the same place.                                      *)
LEMMA PlacesDiffer ==
  ASSUME NEW group, NEW s \in Slices(group), NEW t \in Slices(group),
         Cardinality(Earlier(group, s)) = Cardinality(Earlier(group, t))
  PROVE  s = t
<1>1. /\ s = <<s[1], s[2]>> /\ s[1] \in Int /\ s[2] \in Int
      /\ t = <<t[1], t[2]>> /\ t[1] \in Int /\ t[2] \in Int
  BY Constants DEF Slices, User
<1>2. ASSUME NEW u \in Slices(group), NEW v \in Slices(group), Precedes(u, v)
      PROVE  Cardinality(Earlier(group, u)) # Cardinality(Earlier(group, v))
  <2>1. \A x \in Slices(group) : x[1] \in Int /\ x[2] \in Int
    BY Constants DEF Slices, User
  <2>2. Earlier(group, u) \subseteq Earlier(group, v)
    BY <1>2, <2>1 DEF Earlier, Precedes
  <2>3. u \in Earlier(group, v) /\ u \notin Earlier(group, u)
    BY <1>2, <2>1 DEF Earlier, Precedes
  <2>4. IsFiniteSet(Earlier(group, v))
    BY SlicesFinite
  <2> QED
    BY <2>2, <2>3, <2>4, FS_Subset
<1>3. Precedes(s, t) \/ Precedes(t, s) \/ s = t
  BY <1>1 DEF Precedes
<1> QED
  BY <1>2, <1>3

(* Every user is in one slice.                                             *)
LEMMA SliceOfUser ==
  ASSUME NEW group \in [User -> User], NEW u \in User
  PROVE  \E s \in Slices(group) :
            /\ u \in Slice(group, s[1], s[2])
            /\ \A t \in Slices(group) : u \in Slice(group, t[1], t[2]) => t = s
<1> DEFINE r == Rank(group, u)
           s == <<group[u], r \div BatchSize>>
<1>1. r \in 0 .. Users
  <2>1. {v \in User : v < u /\ group[v] = group[u]} \subseteq User
    OBVIOUS
  <2>2. r \in Nat /\ r <= Users
    BY <2>1, Constants, FS_Subset, FS_CardinalityType DEF Rank
  <2> QED
    BY <2>2, Constants
<1> HIDE DEF r
<1>2. r \div BatchSize \in 0 .. Users
  <2>1. BatchSize \in Nat \ {0} /\ r \in Nat /\ r <= Users /\ Users \in Nat
    BY <1>1, Constants
  <2> DEFINE q == r \div BatchSize
  <2>2. q \in Int /\ q >= 0 /\ BatchSize * q <= r
    BY <2>1
  <2>3. q <= BatchSize * q
    BY <2>1, <2>2
  <2> QED
    BY <2>1, <2>2, <2>3
<1>3. u \in Slice(group, s[1], s[2])
  BY DEF Slice, r
<1>4. s \in Slices(group)
  BY <1>2, <1>3 DEF Slices
<1>5. ASSUME NEW t \in Slices(group), u \in Slice(group, t[1], t[2])
      PROVE  t = s
  <2>1. t = <<t[1], t[2]>>
    BY DEF Slices
  <2> QED
    BY <1>5, <2>1 DEF Slice, r
<1> QED
  BY <1>3, <1>4, <1>5

(* So there are no more slices than users.                                 *)
LEMMA SlicesAreFew ==
  ASSUME NEW group \in [User -> User]
  PROVE  Cardinality(Slices(group)) <= Users
<1> DEFINE f == [s \in Slices(group) |-> CHOOSE u \in User : u \in Slice(group, s[1], s[2])]
<1>1. ASSUME NEW s \in Slices(group)
      PROVE  f[s] \in User /\ f[s] \in Slice(group, s[1], s[2])
  <2>1. \E u \in User : u \in Slice(group, s[1], s[2])
    BY DEF Slices, Slice
  <2> QED
    BY <2>1
<1> HIDE DEF f
<1>2. ASSUME NEW s \in Slices(group), NEW t \in Slices(group), f[s] = f[t]
      PROVE  s = t
  BY <1>1, <1>2, SliceOfUser
<1>3. f \in [Slices(group) -> User]
  BY <1>1 DEF f
<1>4. f \in Injection(Slices(group), User)
  BY <1>2, <1>3 DEF Injection, IsInjective
<1> QED
  BY <1>4, Constants, FS_Injection

(* No slice is larger than batchSize: its users have different ranks, all  *)
(* with the same quotient.                                                 *)
LEMMA SlicesAreSmall ==
  ASSUME NEW group \in [User -> User], NEW g \in User, NEW i \in Nat
  PROVE  Cardinality(Slice(group, g, i)) <= BatchSize
<1> DEFINE S == Slice(group, g, i)
           low == i * BatchSize
           Ranks == low .. low + BatchSize - 1
           f == [u \in S |-> Rank(group, u)]
<1>1. BatchSize \in Nat \ {0} /\ low \in Nat
  BY Constants, Times
<1>2. IsFiniteSet(Ranks) /\ Cardinality(Ranks) = BatchSize
  BY <1>1, FS_Interval
<1>3. ASSUME NEW u \in S
      PROVE  Rank(group, u) \in Ranks
  <2>1. {v \in User : v < u /\ group[v] = group[u]} \subseteq User
    OBVIOUS
  <2>2. Rank(group, u) \in Nat
    BY <2>1, Constants, FS_Subset, FS_CardinalityType DEF Rank
  <2>3. Rank(group, u) \div BatchSize = i
    BY DEF Slice
  <2> DEFINE r == Rank(group, u)
  <2> HIDE DEF r
  <2>4. r \in Nat /\ r \div BatchSize = i
    BY <2>2, <2>3 DEF r
  <2>5. BatchSize * i <= r /\ r < BatchSize * i + BatchSize
    BY <1>1, <2>4
  <2>6. BatchSize * i = low
    BY <1>1
  <2> QED
    BY <1>1, <2>4, <2>5, <2>6 DEF r
<1>4. ASSUME NEW u \in S, NEW v \in S, u < v
      PROVE  Rank(group, u) # Rank(group, v)
  <2> DEFINE A == {w \in User : w < u /\ group[w] = group[u]}
             B == {w \in User : w < v /\ group[w] = group[v]}
  <2>1. /\ u \in User /\ v \in User /\ group[u] = group[v]
        /\ \A w \in User : w \in Int
    BY Constants DEF Slice, User
  <2>2. A \subseteq B /\ u \in B /\ u \notin A
    BY <1>4, <2>1
  <2>3. IsFiniteSet(B)
    BY Constants, FS_Subset
  <2> QED
    BY <2>2, <2>3, FS_Subset DEF Rank
<1>5. f \in Injection(S, Ranks)
  <2>1. \A u, v \in S : Rank(group, u) = Rank(group, v) => u = v
    <3>1. \A u \in S : u \in Int
      BY Constants DEF Slice, User
    <3>2. \A u, v \in S : u < v \/ v < u \/ u = v
      BY <3>1
    <3> QED
      BY <1>4, <3>2
  <2>2. f \in [S -> Ranks]
    BY <1>3
  <2> QED
    BY <2>1, <2>2 DEF Injection, IsInjective
<1> HIDE DEF f
<1> QED
  BY <1>2, <1>5, FS_Injection

(* What Cut promises.                                                      *)
LEMMA CutFacts ==
  ASSUME NEW group \in [User -> User], members = Cut(group)
  PROVE  members \in [Batch -> SUBSET User] /\ Disjoint /\ Covers /\ Small
<1> DEFINE Place(s) == Cardinality(Earlier(group, s)) + 1
           Nonempty == {b \in Batch : members[b] # {}}
<1>1. members = [b \in Batch |-> UNION {Slice(group, s[1], s[2]) :
                     s \in {t \in Slices(group) : Cardinality(Earlier(group, t)) = b - 1}}]
  BY DEF Cut, Slices, Earlier, Precedes
<1>2. ASSUME NEW b \in Batch, NEW u
      PROVE  u \in members[b] <=> \E s \in Slices(group) :
                                    u \in Slice(group, s[1], s[2]) /\ Cardinality(Earlier(group, s)) = b - 1
  BY <1>1
<1>3. members \in [Batch -> SUBSET User]
  <2>1. \A b \in Batch : members[b] \subseteq User
    BY <1>2 DEF Slice
  <2> QED
    BY <1>1, <2>1
<1>4. ASSUME NEW s \in Slices(group)
      PROVE  /\ Place(s) \in Batch /\ Place(s) <= Cardinality(Slices(group))
             /\ Cardinality(Earlier(group, s)) = Place(s) - 1
             /\ members[Place(s)] # {}
  <2>1. /\ Cardinality(Earlier(group, s)) \in Nat /\ Cardinality(Slices(group)) \in Nat
        /\ Cardinality(Earlier(group, s)) < Cardinality(Slices(group))
        /\ Cardinality(Slices(group)) <= Users /\ Users \in Nat
    BY SlicesFinite, SlicesAreFew, Constants
  <2>2. /\ Place(s) \in Batch /\ Place(s) <= Cardinality(Slices(group))
        /\ Cardinality(Earlier(group, s)) = Place(s) - 1
    BY <2>1 DEF Batch
  <2> HIDE DEF Place
  <2>3. PICK u : u \in Slice(group, s[1], s[2])
    BY DEF Slices
  <2>4. u \in members[Place(s)]
    BY <1>2, <2>2, <2>3
  <2> QED
    BY <2>2, <2>4
<1>5. Disjoint
  <2> SUFFICES ASSUME NEW a \in Batch, NEW b \in Batch, NEW u \in User, u \in members[a], u \in members[b]
               PROVE  a = b
    BY <1>3 DEF Disjoint
  <2>1. PICK s \in Slices(group) : u \in Slice(group, s[1], s[2]) /\ Cardinality(Earlier(group, s)) = a - 1
    BY <1>2
  <2>2. PICK t \in Slices(group) : u \in Slice(group, t[1], t[2]) /\ Cardinality(Earlier(group, t)) = b - 1
    BY <1>2
  <2>3. s = t
    BY <2>1, <2>2, SliceOfUser
  <2>4. a \in Int /\ b \in Int /\ a - 1 = b - 1
    BY <2>1, <2>2, <2>3, Constants DEF User
  <2> QED
    BY <2>4
<1>6. Batches = Cardinality(Slices(group))
  <2> DEFINE f == [s \in Slices(group) |-> Place(s)]
  <2>1. f \in [Slices(group) -> Nonempty]
    BY <1>4
  <2>2. \A s, t \in Slices(group) : f[s] = f[t] => s = t
    <3> SUFFICES ASSUME NEW s \in Slices(group), NEW t \in Slices(group), Place(s) = Place(t)
                 PROVE  s = t
      OBVIOUS
    <3>1. Cardinality(Earlier(group, s)) = Cardinality(Earlier(group, t))
      <4>1. Cardinality(Earlier(group, s)) = Place(s) - 1 /\ Cardinality(Earlier(group, t)) = Place(t) - 1
        BY <1>4
      <4> HIDE DEF Place
      <4> QED
        BY <4>1
    <3> QED
      BY <3>1, PlacesDiffer
  <2>3. \A b \in Nonempty : \E s \in Slices(group) : f[s] = b
    <3> SUFFICES ASSUME NEW b \in Batch, NEW u, u \in members[b]
                 PROVE  \E s \in Slices(group) : Place(s) = b
      OBVIOUS
    <3>1. PICK s \in Slices(group) : Cardinality(Earlier(group, s)) = b - 1
      BY <1>2
    <3>2. b \in Int
      BY Constants DEF User
    <3> QED
      BY <3>1, <3>2
  <2> HIDE DEF f
  <2>4. f \in Bijection(Slices(group), Nonempty)
    BY <2>1, <2>2, <2>3 DEF Bijection, Injection, IsInjective, Surjection
  <2>5. ExistsBijection(Slices(group), Nonempty)
    BY <2>4 DEF ExistsBijection
  <2> QED
    BY <2>5, SlicesFinite, FS_Bijection DEF Batches
<1>7. Covers
  <2> SUFFICES ASSUME NEW u \in User
               PROVE  \E b \in Batch : b <= Batches /\ u \in members[b]
    BY DEF Covers
  <2>1. PICK s \in Slices(group) : u \in Slice(group, s[1], s[2])
    BY SliceOfUser
  <2>2. /\ Place(s) \in Batch /\ Place(s) <= Batches
        /\ Cardinality(Earlier(group, s)) = Place(s) - 1
    BY <1>4, <1>6
  <2> HIDE DEF Place
  <2>3. u \in members[Place(s)]
    BY <1>2, <2>1, <2>2
  <2> QED
    BY <2>2, <2>3
<1>8. Small
  <2> SUFFICES ASSUME NEW b \in Batch
               PROVE  Size(b) <= BatchSize
    BY DEF Small
  <2>1. CASE members[b] = {}
    BY <2>1, FS_EmptySet, Constants DEF Size
  <2>2. ASSUME NEW u \in members[b]
        PROVE  Size(b) <= BatchSize
    <3>1. PICK s \in Slices(group) : Cardinality(Earlier(group, s)) = b - 1
      BY <1>2
    <3>2. \A t \in Slices(group) : Cardinality(Earlier(group, t)) = b - 1 => t = s
      BY <3>1, PlacesDiffer
    <3>3. members[b] = Slice(group, s[1], s[2])
      BY <1>2, <3>1, <3>2
    <3>4. s[1] \in User /\ s[2] \in Nat
      BY Constants DEF Slices
    <3> QED
      BY <3>3, <3>4, SlicesAreSmall DEF Size
  <2> QED
    BY <2>1, <2>2
<1> QED
  BY <1>3, <1>5, <1>7, <1>8

---------------------------------------------------------------------------
(* The invariant in the parts that a step disturbs or leaves alone.        *)
Groups  == members \in [Batch -> SUBSET User] /\ Disjoint /\ Covers /\ Small
Control ==
    /\ main \in {"loop", "race", "all", "returned", "threw"}
    /\ next \in 1 .. Users + 1
    /\ pc \in [Batch -> {"none", "acquire", "send", "backoff", "over"}]
    /\ attempt \in [Batch -> 0 .. MaxRetries]
    /\ pool \subseteq Batch /\ aborted \in BOOLEAN
Sums    == thrown \subseteq Batch /\ sent \in Nat /\ errors \in Nat /\ reached \in Nat

LEMMA InvParts == Inv <=> Groups /\ Bucket /\ Control /\ Sums /\ Pool /\ Debt /\ Counted
<1>1. TypeOK <=> members \in [Batch -> SUBSET User] /\ Bucket /\ Control /\ Sums
  BY BucketType DEF TypeOK, Control, Sums
<1> QED
  BY <1>1 DEF Inv, Groups

(* A step that leaves the variables of a part alone keeps it.              *)
LEMMA Untouched ==
  /\ Groups /\ UNCHANGED members => Groups' /\ Batches' = Batches
  /\ Bucket /\ Debt /\ UNCHANGED limiter => Bucket' /\ Debt'
  /\ Sums /\ UNCHANGED totals => Sums'
<1>1. Groups /\ UNCHANGED members => Groups' /\ Batches' = Batches
  BY DEF Groups, Disjoint, Covers, Small, Size, Batches
<1>2. Bucket /\ UNCHANGED limiter => Bucket'
  BY DEF Bucket, limiter
<1>3. Debt /\ UNCHANGED limiter => Debt'
  BY DEF Debt, Owes, Awaits, limiter
<1>4. Sums /\ UNCHANGED totals => Sums'
  BY DEF Sums, totals
<1> QED
  BY <1>1, <1>2, <1>3, <1>4

LEMMA BatchesFacts ==
  /\ Batches \in Nat /\ Batches <= Users /\ IsFiniteSet(Batch)
  /\ \A b \in Batch : b \in Nat /\ 1 <= b /\ b <= Users
<1>1. {b \in Batch : members[b] # {}} \subseteq Batch
  OBVIOUS
<1>2. Batches \in Nat /\ Batches <= Users /\ IsFiniteSet(Batch)
  BY <1>1, Constants, FS_Subset, FS_CardinalityType DEF Batches
<1>3. \A b \in Batch : b \in Nat /\ 1 <= b /\ b <= Users
  BY Constants DEF Batch
<1> QED
  BY <1>2, <1>3

(* The users of a set of batches, and of one batch more.                   *)
LEMMA UsersFacts ==
  ASSUME Groups, NEW B \in SUBSET Batch
  PROVE  /\ UsersOf(B) \subseteq User /\ IsFiniteSet(UsersOf(B)) /\ Cardinality(UsersOf(B)) \in Nat
         /\ \A b \in Batch : Size(b) \in Nat
         /\ \A b \in Batch \ B :
               Cardinality(UsersOf(B \cup {b})) = Cardinality(UsersOf(B)) + Size(b)
<1>1. UsersOf(B) \subseteq User
  BY DEF UsersOf, Groups
<1>2. IsFiniteSet(UsersOf(B)) /\ Cardinality(UsersOf(B)) \in Nat
  BY <1>1, Constants, FS_Subset, FS_CardinalityType
<1>3. ASSUME NEW b \in Batch
      PROVE  IsFiniteSet(members[b]) /\ Size(b) \in Nat
  <2>1. members[b] \subseteq User
    BY DEF Groups
  <2> QED
    BY <2>1, Constants, FS_Subset, FS_CardinalityType DEF Size
<1>4. ASSUME NEW b \in Batch \ B
      PROVE  Cardinality(UsersOf(B \cup {b})) = Cardinality(UsersOf(B)) + Size(b)
  <2>1. UsersOf(B \cup {b}) = UsersOf(B) \cup members[b]
    BY DEF UsersOf
  <2>2. UsersOf(B) \cap members[b] = {}
    BY DEF UsersOf, Groups, Disjoint
  <2>3. Cardinality(UsersOf(B) \cap members[b]) = 0
    BY <2>2, FS_EmptySet
  <2>4. Cardinality(UsersOf(B \cup {b})) = Cardinality(UsersOf(B)) + Cardinality(members[b]) - 0
    BY <1>2, <1>3, <2>1, <2>3, FS_Union
  <2>5. Cardinality(members[b]) \in Nat
    BY <1>3 DEF Size
  <2> QED
    BY <1>2, <2>4, <2>5 DEF Size
<1> QED
  BY <1>1, <1>2, <1>3, <1>4

(* A caller asleep is in the pool, and so there is room for one awake.     *)
LEMMA SleepersInPool ==
  ASSUME Bucket, Control, Pool
  PROVE  /\ IsFiniteSet(pool) /\ Cardinality(pool) \in Nat
         /\ Cardinality(Sleepers(wait)) <= Concurrency /\ Cardinality(Sleepers(wait)) <= Users
         /\ \A b \in InFlight : wait[b] = Limiter!Awake =>
               Cardinality(Sleepers(wait)) < Concurrency /\ Cardinality(Sleepers(wait)) < Users
<1>1. Sleepers(wait) \subseteq pool /\ pool \subseteq Batch
  BY DEF Sleepers, Pool, InFlight, Control
<1>2. IsFiniteSet(pool) /\ Cardinality(pool) \in Nat /\ Cardinality(pool) <= Users
  BY <1>1, Constants, FS_Subset, FS_CardinalityType
<1>3. /\ Cardinality(Sleepers(wait)) <= Cardinality(pool)
      /\ Cardinality(Sleepers(wait)) \in Nat
      /\ Sleepers(wait) # pool => Cardinality(Sleepers(wait)) # Cardinality(pool)
  BY <1>1, <1>2, FS_Subset, FS_CardinalityType
<1>4. \A b \in InFlight : wait[b] = Limiter!Awake => Sleepers(wait) # pool
  BY DEF Sleepers, Pool
<1>5. Cardinality(pool) <= Concurrency /\ Concurrency \in Nat /\ Users \in Nat
  BY Constants DEF Pool
<1> QED
  BY <1>2, <1>3, <1>4, <1>5

---------------------------------------------------------------------------
(* The steps of the rate limiter keep its part of the invariant.           *)
LEMMA BucketSteps ==
  ASSUME Bucket, NEW b \in Batch,
         Limiter!TakesToken(b) \/ Limiter!WakesAndTakes(b) \/ Limiter!Sleeps(b)
  PROVE  Bucket'
<1>1. /\ Cost \in Nat \ {0} /\ Rate \in Nat \ {0} /\ Limiter!Refilled \in Int
      /\ Limiter!Refilled <= Limiter!Cap /\ Limiter!Cap \in Nat /\ Limiter!MaxElapsed \in Nat
  BY Constants, RefilledFacts, BucketFacts DEF Bucket, Limiter!Refilled, Limiter!Lower
<1>2. CASE Limiter!TakesToken(b)
  BY <1>1, <1>2 DEF Limiter!TakesToken, Bucket
<1>3. CASE Limiter!WakesAndTakes(b)
  BY <1>1, <1>3 DEF Limiter!WakesAndTakes, Bucket
<1>4. CASE Limiter!Sleeps(b)
  <2>1. Cost - Limiter!Refilled \in Nat \ {0}
    BY <1>1, <1>4 DEF Limiter!Sleeps
  <2>2. Limiter!Higher(0, Limiter!CeilDiv(Cost - Limiter!Refilled, Rate) - Early) \in Nat
    BY <1>1, <2>1, WaitEnough
  <2> QED
    BY <1>1, <1>4, <2>2 DEF Limiter!Sleeps, Bucket
<1> QED
  BY <1>2, <1>3, <1>4

LEMMA TickBucket ==
  ASSUME Bucket, Limiter!Tick
  PROVE  Bucket'
<1>1. wait' \in [Batch -> Nat \cup {Limiter!Awake}]
  BY DEF Limiter!Tick, Bucket, Limiter!Awake
<1>2. elapsed' \in Nat /\ elapsed' <= Limiter!MaxElapsed /\ tokens' = tokens
  BY BucketFacts DEF Limiter!Tick, Bucket, Limiter!Lower
<1> QED
  BY <1>1, <1>2 DEF Bucket

(* acquire() of an awake caller, while there is a place for it.            *)
LEMMA AcquiresKeeps ==
  ASSUME Bucket, Debt, NEW b \in Batch, Acquires(b),
         Cardinality(Sleepers(wait)) < Concurrency, Cardinality(Sleepers(wait)) < Users
  PROVE  /\ Bucket' /\ Debt'
         /\ \/ pc' = [pc EXCEPT ![b] = "send"] /\ wait'[b] = Limiter!Awake
            \/ pc' = [pc EXCEPT ![b] = "acquire"]
         /\ \A c \in Batch : c # b => wait'[c] = wait[c]
<1>1. Users \in Nat \ {0} /\ Concurrency \in Nat \ {0}
  BY Constants, BatchesFacts
<1>2. CASE Limiter!TakesToken(b) /\ pc' = [pc EXCEPT ![b] = "send"]
  <2>1. Bucket'
    BY <1>2, BucketSteps
  <2>2. Debt'
    BY <1>1, <1>2, <2>1, TakesTokenOwes DEF Debt
  <2> QED
    BY <1>2, <2>1, <2>2 DEF Limiter!TakesToken
<1>3. CASE Limiter!Sleeps(b) /\ pc' = [pc EXCEPT ![b] = "acquire"]
  <2>1. Bucket'
    BY <1>3, BucketSteps
  <2>2. Debt'
    BY <1>1, <1>3, <2>1, SleepsOwes DEF Debt
  <2>3. \A c \in Batch : c # b => wait'[c] = wait[c]
    BY <1>3 DEF Limiter!Sleeps, Bucket
  <2> QED
    BY <1>3, <2>1, <2>2, <2>3
<1> QED
  BY <1>2, <1>3 DEF Acquires

(* The steps of processBatches and of the signal.                          *)
LEMMA AbortKeeps == Inv /\ Abort => Inv'
<1> SUFFICES ASSUME Inv, Abort PROVE Inv'
  OBVIOUS
<1>1. Groups /\ Bucket /\ Control /\ Sums /\ Pool /\ Debt /\ Counted
  BY InvParts
<1>2. UNCHANGED <<members, main, next, pc, attempt, pool, totals, limiter>> /\ aborted' = TRUE
  BY DEF Abort
<1>3. Groups' /\ Batches' = Batches /\ Bucket' /\ Debt' /\ Sums'
  BY <1>1, <1>2, Untouched
<1>4. Control'
  BY <1>1, <1>2 DEF Control
<1>5. Pool'
  BY <1>1, <1>2, <1>3 DEF Pool, InFlight, limiter
<1>6. Counted'
  BY <1>1, <1>2 DEF Counted, Over, UsersOf, totals
<1> QED
  BY <1>3, <1>4, <1>5, <1>6, InvParts, PTL

LEMMA LaunchBatchKeeps == Inv /\ LaunchBatch => Inv'
<1> SUFFICES ASSUME Inv, LaunchBatch PROVE Inv'
  OBVIOUS
<1>1. Groups /\ Bucket /\ Control /\ Sums /\ Pool /\ Debt /\ Counted
  BY InvParts
<1>2. /\ main = "loop" /\ next <= Batches
      /\ Acquires(next) /\ pool' = pool \cup {next} /\ next' = next + 1
      /\ main' = IF Cardinality(pool') >= Concurrency THEN "race" ELSE "loop"
      /\ UNCHANGED <<members, attempt, totals, aborted>>
  BY DEF LaunchBatch
<1>4. next \in Nat /\ next \in Batch /\ next' \in 1 .. Users + 1 /\ next' <= Batches + 1
  BY <1>1, <1>2, BatchesFacts, Constants DEF Control, Batch
<1>6. pc[next] = "none" /\ wait[next] = Limiter!Awake /\ next \notin pool
  BY <1>1, <1>4, BatchesFacts DEF Pool, InFlight
<1>3. /\ Groups' /\ Batches' = Batches /\ Bucket' /\ Debt' /\ Sums'
      /\ \/ pc' = [pc EXCEPT ![next] = "send"] /\ wait'[next] = Limiter!Awake
         \/ pc' = [pc EXCEPT ![next] = "acquire"]
      /\ \A c \in Batch : c # next => wait'[c] = wait[c]
  <2>1. Sleepers(wait) \subseteq pool /\ pool \subseteq Batch \ {next}
    BY <1>1, <1>6 DEF Sleepers, Pool, InFlight, Control
  <2>2. /\ IsFiniteSet(Batch \ {next}) /\ Cardinality(Batch \ {next}) = Users - 1
        /\ Users \in Nat
    BY <1>4, Constants, FS_RemoveElement
  <2>3. /\ IsFiniteSet(pool) /\ Cardinality(pool) <= Users - 1
        /\ Cardinality(Sleepers(wait)) <= Cardinality(pool)
        /\ Cardinality(pool) \in Nat /\ Cardinality(Sleepers(wait)) \in Nat
    BY <2>1, <2>2, FS_Subset, FS_CardinalityType
  <2>4. Cardinality(pool) < Concurrency /\ Concurrency \in Nat
    BY <1>1, <1>2, Constants DEF Pool
  <2>5. Cardinality(Sleepers(wait)) < Concurrency /\ Cardinality(Sleepers(wait)) < Users
    BY <2>2, <2>3, <2>4
  <2>6. Groups' /\ Batches' = Batches /\ Sums'
    BY <1>1, <1>2, Untouched
  <2> QED
    BY <1>1, <1>2, <1>4, <2>5, <2>6, AcquiresKeeps
<1>5. Control'
  BY <1>1, <1>2, <1>3, <1>4 DEF Control
<1>7. Pool'
  <2>1. pool' = InFlight'
    BY <1>1, <1>2, <1>3, <1>4 DEF Pool, InFlight, Control
  <2>2. Cardinality(pool') <= Concurrency
    <3>2. IsFiniteSet(pool) /\ Cardinality(pool) \in Nat /\ Cardinality(pool) < Concurrency
      BY <1>1, <1>2, SleepersInPool DEF Pool
    <3>3. Cardinality(pool') = Cardinality(pool) + 1
      BY <1>2, <1>6, <3>2, FS_AddElement
    <3> QED
      BY <3>2, <3>3, Constants
  <2>3. main' = "loop" => Cardinality(pool') < Concurrency
    <3>1. IsFiniteSet(pool')
      BY <1>2, <1>1, SleepersInPool, FS_AddElement
    <3>2. Cardinality(pool') \in Nat
      BY <3>1, FS_CardinalityType
    <3> QED
      BY <1>2, <3>2, Constants
  <2>4. \A b \in Batch : pc'[b] = "none" <=> b >= next'
    BY <1>1, <1>2, <1>3, <1>4, BatchesFacts DEF Pool, Control
  <2>5. \A b \in Batch : wait'[b] # Limiter!Awake => pc'[b] = "acquire"
    BY <1>1, <1>3, <1>4, <1>6 DEF Pool, Control
  <2>6. \A b \in Batch : pc'[b] = "backoff" => attempt'[b] < MaxRetries
    BY <1>1, <1>2, <1>3, <1>4 DEF Pool, Control
  <2> QED
    BY <1>3, <1>4, <2>1, <2>2, <2>3, <2>4, <2>5, <2>6 DEF Pool
<1>8. Counted'
  <2>1. Over' = Over
    BY <1>1, <1>3, <1>6 DEF Over, Control
  <2>2. main' \notin {"all", "returned"}
    BY <1>2
  <2> QED
    BY <1>1, <1>2, <2>1, <2>2 DEF Counted, UsersOf, totals
<1> QED
  BY <1>3, <1>5, <1>7, <1>8, InvParts, PTL

LEMMA LoopEndsKeeps == Inv /\ LoopEnds => Inv'
<1> SUFFICES ASSUME Inv, LoopEnds PROVE Inv'
  OBVIOUS
<1>1. Groups /\ Bucket /\ Control /\ Sums /\ Pool /\ Debt /\ Counted
  BY InvParts
<1>2. /\ main = "loop" /\ (next > Batches \/ aborted) /\ main' = "all"
      /\ UNCHANGED <<members, next, pc, attempt, pool, totals, aborted, limiter>>
  BY DEF LoopEnds
<1>3. Groups' /\ Batches' = Batches /\ Bucket' /\ Debt' /\ Sums'
  BY <1>1, <1>2, Untouched
<1>4. Control'
  BY <1>1, <1>2 DEF Control
<1>5. Pool'
  BY <1>1, <1>2, <1>3 DEF Pool, InFlight, limiter
<1>6. Counted'
  BY <1>1, <1>2, <1>3 DEF Counted, Over, UsersOf, totals
<1> QED
  BY <1>3, <1>4, <1>5, <1>6, InvParts, PTL

LEMMA ReturnsKeeps == Inv /\ Returns => Inv'
<1> SUFFICES ASSUME Inv, Returns PROVE Inv'
  OBVIOUS
<1>1. Groups /\ Bucket /\ Control /\ Sums /\ Pool /\ Debt /\ Counted
  BY InvParts
<1>2. /\ main = "all" /\ pool = {} /\ main' \in {"returned", "threw"}
      /\ UNCHANGED <<members, next, pc, attempt, pool, totals, aborted, limiter>>
  BY DEF Returns
<1>3. Groups' /\ Batches' = Batches /\ Bucket' /\ Debt' /\ Sums'
  BY <1>1, <1>2, Untouched
<1>4. Control'
  BY <1>1, <1>2 DEF Control
<1>5. Pool'
  BY <1>1, <1>2, <1>3 DEF Pool, InFlight, limiter
<1>6. Counted'
  BY <1>1, <1>2, <1>3 DEF Counted, Over, UsersOf, totals
<1> QED
  BY <1>3, <1>4, <1>5, <1>6, InvParts, PTL

---------------------------------------------------------------------------
(* The steps of a batch.                                                   *)
LEMMA GetsTokenKeeps == \A b \in Batch : Inv /\ GetsToken(b) => Inv'
<1> SUFFICES ASSUME NEW b \in Batch, Inv, GetsToken(b) PROVE Inv'
  OBVIOUS
<1>1. Groups /\ Bucket /\ Control /\ Sums /\ Pool /\ Debt /\ Counted
  BY InvParts
<1>2. /\ pc[b] = "acquire" /\ pc' = [pc EXCEPT ![b] = "send"]
      /\ Limiter!WakesAndTakes(b)
      /\ UNCHANGED <<members, main, next, attempt, pool, totals, aborted>>
  BY DEF GetsToken
<1>3. Groups' /\ Batches' = Batches /\ Sums' /\ Bucket'
  BY <1>1, <1>2, Untouched, BucketSteps
<1>4. wait' = [wait EXCEPT ![b] = Limiter!Awake]
  BY <1>2 DEF Limiter!WakesAndTakes
<1>5. Debt'
  <2>1. Users \in Nat \ {0} /\ Concurrency \in Nat \ {0}
    BY Constants, BatchesFacts
  <2>2. Cardinality(Sleepers(wait)) <= Concurrency /\ Cardinality(Sleepers(wait)) <= Users
    BY <1>1, SleepersInPool
  <2> QED
    BY <1>1, <1>2, <1>3, <2>1, <2>2, WakesOwes DEF Debt
<1>6. Control'
  BY <1>1, <1>2 DEF Control
<1>7. Pool'
  <2>1. InFlight' = InFlight
    BY <1>1, <1>2 DEF InFlight, Control
  <2>2. \A c \in Batch : pc'[c] = "none" <=> c >= next'
    BY <1>1, <1>2 DEF Pool, Control
  <2>3. \A c \in Batch : wait'[c] # Limiter!Awake => pc'[c] = "acquire"
    BY <1>1, <1>2, <1>4 DEF Pool, Control, Bucket
  <2>4. \A c \in Batch : pc'[c] = "backoff" => attempt'[c] < MaxRetries
    BY <1>1, <1>2 DEF Pool, Control
  <2> QED
    BY <1>1, <1>2, <1>3, <2>1, <2>2, <2>3, <2>4 DEF Pool
<1>8. Counted'
  <2>1. Over' = Over
    BY <1>1, <1>2 DEF Over, Control
  <2> QED
    BY <1>1, <1>2, <1>3, <2>1 DEF Counted, UsersOf, totals
<1> QED
  BY <1>3, <1>5, <1>6, <1>7, <1>8, InvParts, PTL

LEMMA TickKeeps == Inv /\ Tick => Inv'
<1> SUFFICES ASSUME Inv, Tick PROVE Inv'
  OBVIOUS
<1>1. Groups /\ Bucket /\ Control /\ Sums /\ Pool /\ Debt /\ Counted
  BY InvParts
<1>2. Limiter!Tick /\ UNCHANGED <<members, main, next, pc, attempt, pool, totals, aborted>>
  BY DEF Tick
<1>3. Groups' /\ Batches' = Batches /\ Sums'
  BY <1>1, <1>2, Untouched
<1>4. Bucket'
  BY <1>1, <1>2, TickBucket
<1>5. Debt'
  <2>1. Users \in Nat /\ Concurrency \in Nat
    BY Constants
  <2>2. Cardinality(Sleepers(wait)) <= Concurrency /\ Cardinality(Sleepers(wait)) <= Users
    BY <1>1, SleepersInPool
  <2> QED
    BY <1>1, <1>2, <1>4, <2>1, <2>2, TickOwes DEF Debt
<1>6. Control'
  BY <1>1, <1>2 DEF Control
<1>7. Pool'
  <2>1. \A c \in Batch : wait'[c] # Limiter!Awake => pc'[c] = "acquire"
    BY <1>1, <1>2 DEF Pool, Limiter!Tick, Bucket, Limiter!Awake
  <2> QED
    BY <1>1, <1>2, <1>3, <2>1 DEF Pool, InFlight
<1>8. Counted'
  BY <1>1, <1>2, <1>3 DEF Counted, Over, UsersOf, totals
<1> QED
  BY <1>3, <1>4, <1>5, <1>6, <1>7, <1>8, InvParts, PTL

LEMMA RetriesKeeps == \A b \in Batch : Inv /\ Retries(b) => Inv'
<1> SUFFICES ASSUME NEW b \in Batch, Inv, Retries(b) PROVE Inv'
  OBVIOUS
<1>1. Groups /\ Bucket /\ Control /\ Sums /\ Pool /\ Debt /\ Counted
  BY InvParts
<1>2. /\ pc[b] = "backoff" /\ attempt' = [attempt EXCEPT ![b] = @ + 1] /\ Acquires(b)
      /\ UNCHANGED <<members, main, next, pool, totals, aborted>>
  BY DEF Retries
<1>3. /\ Groups' /\ Batches' = Batches /\ Bucket' /\ Debt' /\ Sums'
      /\ \/ pc' = [pc EXCEPT ![b] = "send"] /\ wait'[b] = Limiter!Awake
         \/ pc' = [pc EXCEPT ![b] = "acquire"]
      /\ \A c \in Batch : c # b => wait'[c] = wait[c]
  <2>1. Groups' /\ Batches' = Batches /\ Sums'
    BY <1>1, <1>2, Untouched
  <2>2. b \in InFlight /\ wait[b] = Limiter!Awake
    BY <1>1, <1>2 DEF InFlight, Pool
  <2>3. Cardinality(Sleepers(wait)) < Concurrency /\ Cardinality(Sleepers(wait)) < Users
    BY <1>1, <2>2, SleepersInPool
  <2> QED
    BY <1>1, <1>2, <2>1, <2>3, AcquiresKeeps
<1>4. Control'
  <2>1. attempt[b] < MaxRetries /\ attempt[b] \in 0 .. MaxRetries
    BY <1>1, <1>2 DEF Pool, Control
  <2>2. attempt[b] + 1 \in 0 .. MaxRetries
    BY <2>1, Constants
  <2> QED
    BY <1>1, <1>2, <1>3, <2>2 DEF Control
<1>5. Pool'
  <2>1. InFlight' = InFlight
    BY <1>1, <1>2, <1>3 DEF InFlight, Control
  <2>2. \A c \in Batch : pc'[c] = "none" <=> c >= next'
    BY <1>1, <1>2, <1>3 DEF Pool, Control
  <2>3. \A c \in Batch : wait'[c] # Limiter!Awake => pc'[c] = "acquire"
    BY <1>1, <1>3 DEF Pool, Control
  <2>4. \A c \in Batch : pc'[c] = "backoff" => attempt'[c] < MaxRetries
    BY <1>1, <1>2, <1>3 DEF Pool, Control
  <2> QED
    BY <1>1, <1>2, <1>3, <2>1, <2>2, <2>3, <2>4 DEF Pool
<1>6. Counted'
  <2>1. Over' = Over
    BY <1>1, <1>2, <1>3 DEF Over, Control
  <2> QED
    BY <1>1, <1>2, <1>3, <2>1 DEF Counted, UsersOf, totals
<1> QED
  BY <1>3, <1>4, <1>5, <1>6, InvParts, PTL

(* A promise that settles leaves the pool, and its batch is over. If it is *)
(* rejected processBatches fails, unless it has not come to wait yet.      *)
LEMMA SettlesKeeps ==
  ASSUME Inv, NEW b \in Batch, pc[b] = "send", Settles(b)
  PROVE  /\ Groups' /\ Batches' = Batches /\ Bucket' /\ Debt' /\ Control' /\ Pool'
         /\ Over' = Over \cup {b} /\ b \notin Over
         /\ (main \in {"all", "returned"} => next > Batches \/ aborted)'
         /\ (main = "returned" => pool = {})'
<1>1. Groups /\ Bucket /\ Control /\ Sums /\ Pool /\ Debt /\ Counted
  BY InvParts
<1>2. /\ pc' = [pc EXCEPT ![b] = "over"] /\ pool' = pool \ {b}
      /\ \/ main \in {"race", "all"} /\ main' = "threw"
         \/ main' = IF main = "race" THEN "loop" ELSE main
      /\ UNCHANGED <<members, next, attempt, aborted, limiter>>
  BY DEF Settles
<1>3. Groups' /\ Batches' = Batches /\ Bucket' /\ Debt'
  BY <1>1, <1>2, Untouched
<1>4. \/ main' = main
      \/ main' = "threw"
      \/ main' = "loop" /\ main = "race"
  BY <1>2
<1>5. Control'
  BY <1>1, <1>2, <1>4 DEF Control
<1>6. b \in pool /\ main # "returned"
  BY <1>1 DEF Pool, InFlight, Counted
<1>7. Pool'
  <2>1. pool' = InFlight'
    BY <1>1, <1>2 DEF Pool, InFlight, Control
  <2>2. Cardinality(pool') < Concurrency
    <3>1. IsFiniteSet(pool) /\ Cardinality(pool) \in Nat /\ Cardinality(pool) <= Concurrency
      BY <1>1, SleepersInPool DEF Pool
    <3>2. Cardinality(pool') = Cardinality(pool) - 1
      BY <1>2, <1>6, <3>1, FS_RemoveElement
    <3> QED
      BY <3>1, <3>2, Constants
  <2>3. Cardinality(pool') <= Concurrency
    <3>1. IsFiniteSet(pool')
      BY <1>1, <1>2, SleepersInPool, FS_RemoveElement
    <3>2. Cardinality(pool') \in Nat
      BY <3>1, FS_CardinalityType
    <3> QED
      BY <2>2, <3>2, Constants
  <2>4. \A c \in Batch : pc'[c] = "none" <=> c >= next'
    BY <1>1, <1>2 DEF Pool, Control
  <2>5. \A c \in Batch : wait'[c] # Limiter!Awake => pc'[c] = "acquire"
    BY <1>1, <1>2 DEF Pool, Control, limiter
  <2>6. \A c \in Batch : pc'[c] = "backoff" => attempt'[c] < MaxRetries
    BY <1>1, <1>2 DEF Pool, Control
  <2> QED
    BY <1>1, <1>2, <1>3, <2>1, <2>2, <2>3, <2>4, <2>5, <2>6 DEF Pool
<1>8. Over' = Over \cup {b} /\ b \notin Over
  BY <1>1, <1>2 DEF Over, Control
<1>9. /\ (main \in {"all", "returned"} => next > Batches \/ aborted)'
      /\ (main = "returned" => pool = {})'
  BY <1>1, <1>2, <1>3, <1>4, <1>6 DEF Counted
<1> QED
  BY <1>3, <1>5, <1>7, <1>8, <1>9

LEMMA SendSucceedsKeeps == \A b \in Batch : Inv /\ SendSucceeds(b) => Inv'
<1> SUFFICES ASSUME NEW b \in Batch, Inv, SendSucceeds(b) PROVE Inv'
  OBVIOUS
<1>1. Groups /\ Bucket /\ Control /\ Sums /\ Pool /\ Debt /\ Counted
  BY InvParts
<1>2. PICK n \in 0 .. Size(b) :
        /\ pc[b] = "send" /\ reached' = reached + n /\ sent' = sent + n
        /\ \/ errors' = errors + (Size(b) - n) /\ Settles(b) /\ UNCHANGED thrown
           \/ thrown' = thrown \cup {b} /\ CountsAsError(b, errors + (Size(b) - n))
  BY DEF SendSucceeds
<1>3. Size(b) \in Nat /\ n \in Nat /\ Size(b) - n \in Nat
  <2>1. Size(b) \in Nat
    BY <1>1, UsersFacts
  <2> QED
    BY <2>1
<1>4. /\ Settles(b)
      /\ \/ errors' = errors + (Size(b) - n) /\ UNCHANGED thrown
         \/ errors' = errors + (Size(b) - n) + Size(b) /\ thrown' = thrown \cup {b}
  BY <1>2 DEF CountsAsError
<1>5. /\ Groups' /\ Batches' = Batches /\ Bucket' /\ Debt' /\ Control' /\ Pool'
      /\ Over' = Over \cup {b} /\ b \notin Over
      /\ (main \in {"all", "returned"} => next > Batches \/ aborted)'
      /\ (main = "returned" => pool = {})'
  BY <1>2, <1>4, SettlesKeeps
<1>6. Sums'
  BY <1>1, <1>2, <1>3, <1>4 DEF Sums
<1>7. Counted'
  <2>1. Over \subseteq Batch /\ thrown \subseteq Batch /\ b \notin thrown /\ thrown \subseteq Over
    BY <1>1, <1>5 DEF Over, Counted
  <2>2. /\ Cardinality(UsersOf(Over)) \in Nat /\ Cardinality(UsersOf(thrown)) \in Nat
        /\ Cardinality(UsersOf(Over \cup {b})) = Cardinality(UsersOf(Over)) + Size(b)
        /\ Cardinality(UsersOf(thrown \cup {b})) = Cardinality(UsersOf(thrown)) + Size(b)
    BY <1>1, <1>5, <2>1, UsersFacts
  <2>3. members' = members
    BY <1>4 DEF Settles
  <2>4. /\ UsersOf(Over)' = UsersOf(Over \cup {b})
        /\ UNCHANGED thrown => UsersOf(thrown)' = UsersOf(thrown)
        /\ thrown' = thrown \cup {b} => UsersOf(thrown)' = UsersOf(thrown \cup {b})
    BY <1>5, <2>3 DEF UsersOf
  <2>5. sent' + errors' = Cardinality(UsersOf(Over)') + Cardinality(UsersOf(thrown)')
    <3>1. sent + errors = Cardinality(UsersOf(Over)) + Cardinality(UsersOf(thrown))
      BY <1>1 DEF Counted
    <3>2. sent \in Nat /\ errors \in Nat
      BY <1>1 DEF Sums
    <3> QED
      BY <1>2, <1>3, <1>4, <2>2, <2>4, <3>1, <3>2
  <2>6. thrown' \subseteq Over' /\ sent' = reached'
    BY <1>1, <1>2, <1>4, <1>5, <2>1 DEF Counted
  <2> QED
    BY <1>5, <2>5, <2>6 DEF Counted
<1> QED
  BY <1>5, <1>6, <1>7, InvParts, PTL

LEMMA SendFailsKeeps == \A b \in Batch : Inv /\ SendFails(b) => Inv'
<1> SUFFICES ASSUME NEW b \in Batch, Inv, SendFails(b) PROVE Inv'
  OBVIOUS
<1>1. Groups /\ Bucket /\ Control /\ Sums /\ Pool /\ Debt /\ Counted
  BY InvParts
<1>2. CASE /\ pc[b] = "send" /\ attempt[b] < MaxRetries /\ pc' = [pc EXCEPT ![b] = "backoff"]
           /\ UNCHANGED <<members, main, next, attempt, pool, totals, aborted, limiter>>
  <2>1. Groups' /\ Batches' = Batches /\ Bucket' /\ Debt' /\ Sums'
    BY <1>1, <1>2, Untouched
  <2>2. Control'
    BY <1>1, <1>2 DEF Control
  <2>3. Pool'
    <3>1. InFlight' = InFlight
      BY <1>1, <1>2 DEF InFlight, Control
    <3>2. \A c \in Batch : pc'[c] = "none" <=> c >= next'
      BY <1>1, <1>2 DEF Pool, Control
    <3>3. \A c \in Batch : wait'[c] # Limiter!Awake => pc'[c] = "acquire"
      BY <1>1, <1>2 DEF Pool, Control, limiter
    <3>4. \A c \in Batch : pc'[c] = "backoff" => attempt'[c] < MaxRetries
      BY <1>1, <1>2 DEF Pool, Control
    <3> QED
      BY <1>1, <1>2, <2>1, <3>1, <3>2, <3>3, <3>4 DEF Pool
  <2>4. Counted'
    <3>1. Over' = Over
      BY <1>1, <1>2 DEF Over, Control
    <3> QED
      BY <1>1, <1>2, <2>1, <3>1 DEF Counted, UsersOf, totals
  <2> QED
    BY <2>1, <2>2, <2>3, <2>4, InvParts, PTL
<1>3. CASE pc[b] = "send" /\ CountsAsError(b, errors) /\ UNCHANGED <<sent, reached, thrown>>
  <2>1. errors' = errors + Size(b) /\ Settles(b)
    BY <1>3 DEF CountsAsError
  <2>2. /\ Groups' /\ Batches' = Batches /\ Bucket' /\ Debt' /\ Control' /\ Pool'
        /\ Over' = Over \cup {b} /\ b \notin Over
        /\ (main \in {"all", "returned"} => next > Batches \/ aborted)'
        /\ (main = "returned" => pool = {})'
    BY <1>3, <2>1, SettlesKeeps
  <2>3. Size(b) \in Nat
    BY <1>1, UsersFacts
  <2>4. Sums'
    BY <1>1, <1>3, <2>1, <2>3 DEF Sums
  <2>5. Counted'
    <3>1. Over \subseteq Batch /\ thrown \subseteq Batch
      BY <1>1 DEF Over, Sums
    <3>2. /\ Cardinality(UsersOf(Over)) \in Nat /\ Cardinality(UsersOf(thrown)) \in Nat
          /\ Cardinality(UsersOf(Over \cup {b})) = Cardinality(UsersOf(Over)) + Size(b)
      BY <1>1, <2>2, <3>1, UsersFacts
    <3>3. members' = members
      BY <2>1 DEF Settles
    <3>4. UsersOf(Over)' = UsersOf(Over \cup {b}) /\ UsersOf(thrown)' = UsersOf(thrown)
      BY <1>3, <2>2, <3>3 DEF UsersOf
    <3>5. sent' + errors' = Cardinality(UsersOf(Over)') + Cardinality(UsersOf(thrown)')
      <4>1. sent + errors = Cardinality(UsersOf(Over)) + Cardinality(UsersOf(thrown))
        BY <1>1 DEF Counted
      <4>2. sent \in Nat /\ errors \in Nat
        BY <1>1 DEF Sums
      <4> QED
        BY <1>3, <2>1, <2>3, <3>2, <3>4, <4>1, <4>2
    <3>6. thrown' \subseteq Over' /\ sent' = reached'
      BY <1>1, <1>3, <2>2 DEF Counted
    <3> QED
      BY <2>2, <3>5, <3>6 DEF Counted
  <2> QED
    BY <2>2, <2>4, <2>5, InvParts, PTL
<1> QED
  BY <1>2, <1>3 DEF SendFails

LEMMA InitInv == Init => Inv
<1> SUFFICES ASSUME Init PROVE Inv
  OBVIOUS
<1>1. Groups
  <2>1. PICK group \in [User -> User] : members = Cut(group)
    BY DEF Init
  <2> QED
    BY <2>1, CutFacts DEF Groups
<1>2. /\ main = "loop" /\ next = 1 /\ pool = {} /\ aborted = FALSE
      /\ pc = [b \in Batch |-> "none"] /\ attempt = [b \in Batch |-> 0]
      /\ sent = 0 /\ errors = 0 /\ reached = 0 /\ thrown = {}
      /\ tokens = Limiter!Cap /\ elapsed = 0 /\ wait = [b \in Batch |-> Limiter!Awake]
  BY DEF Init, Limiter!Init
<1>3. Bucket
  BY <1>2, BucketFacts DEF Bucket
<1>4. Control
  <2>1. 1 \in 1 .. Users + 1 /\ 0 \in 0 .. MaxRetries
    BY Constants
  <2> QED
    BY <1>2, <2>1, Zenon DEF Control
<1>5. Sums
  BY <1>2 DEF Sums
<1>6. Pool
  <2>1. InFlight = {}
    BY <1>2 DEF InFlight
  <2>2. Cardinality(pool) = 0
    BY <1>2, FS_EmptySet
  <2> QED
    BY <1>2, <2>1, <2>2, BatchesFacts, Constants DEF Pool
<1>7. Debt
  <2>1. Sleepers(wait) = {}
    BY <1>2 DEF Sleepers
  <2>2. ASSUME NEW P \in Nat PROVE tokens >= (1 - P) * Cost - Slack
    <3>1. (1 - P) * Cost <= Cost /\ (1 - P) * Cost \in Int /\ Cost \in Nat /\ Slack \in Nat
      BY Constants, Times
    <3> QED
      BY <1>2, <3>1, BucketFacts
  <2> QED
    BY <2>1, <2>2, Constants DEF Debt, Owes
<1>8. Counted
  <2>1. Over = {} /\ UsersOf(Over) = {} /\ UsersOf(thrown) = {}
    BY <1>2 DEF Over, UsersOf
  <2> QED
    BY <1>2, <2>1, FS_EmptySet DEF Counted
<1> QED
  BY <1>1, <1>3, <1>4, <1>5, <1>6, <1>7, <1>8, InvParts

LEMMA StepInv == Inv /\ [Next]_vars => Inv'
<1> SUFFICES ASSUME Inv, [Next]_vars PROVE Inv'
  OBVIOUS
<1>1. CASE Next
  BY <1>1, AbortKeeps, LaunchBatchKeeps, LoopEndsKeeps, ReturnsKeeps, TickKeeps, GetsTokenKeeps,
     SendSucceedsKeeps, SendFailsKeeps, RetriesKeeps DEF Next, BatchStep
<1>2. CASE UNCHANGED vars
  <2>1. Groups /\ Bucket /\ Control /\ Sums /\ Pool /\ Debt /\ Counted
    BY InvParts
  <2>2. Groups' /\ Batches' = Batches /\ Bucket' /\ Debt' /\ Sums'
    BY <1>2, <2>1, Untouched DEF vars
  <2>3. Control' /\ Pool' /\ Counted'
    BY <1>2, <2>1, <2>2 DEF vars, totals, limiter, Control, Pool, InFlight, Counted, Over, UsersOf
  <2> QED
    BY <2>2, <2>3, InvParts, PTL
<1> QED
  BY <1>1, <1>2

THEOREM PipelineInvariant == Spec => []Inv
  BY InitInv, StepInv, PTL DEF Spec

(* The type of the pipeline: batches are sets of users, an attempt never   *)
(* goes past maxRetries, no total is negative.                             *)
THEOREM PipelineTypeCorrect == Spec => []TypeOK
<1>1. Inv => TypeOK
  BY DEF Inv
<1> QED
  BY <1>1, PipelineInvariant, PTL

(* The batches processBatches sends are a partition of the users, none of  *)
(* them larger than batchSize, for every way to group the users.           *)
THEOREM BatchesPartition == Spec => [](Disjoint /\ Covers /\ Small)
<1>1. Inv => Disjoint /\ Covers /\ Small
  BY DEF Inv
<1> QED
  BY <1>1, PipelineInvariant, PTL

(* processBatches has at most `concurrency` batches on their way, and the  *)
(* rate limiter owes less than a token for each place and what the time a  *)
(* timer may fire early is worth, whatever the rate, however late the      *)
(* timers of acquire() fire, and in any order.                             *)
THEOREM PoolBoundsDebt == Spec => []DebtBoundedByPool
<1>1. Inv => DebtBoundedByPool
  BY DEF Inv, Pool, Debt, Owes, Slack, DebtBoundedByPool
<1> QED
  BY <1>1, PipelineInvariant, PTL

(* The totals processBatches returns add up, for every way to group the    *)
(* users and every size of batch, with retries, callbacks that throw and   *)
(* aborts; and without an abort every user was in a batch.                 *)
THEOREM TotalsAddUp == Spec => []TotalsExact
<1>1. Inv => TotalsExact
  <2> SUFFICES ASSUME Inv, main = "returned"
               PROVE  /\ sent = reached
                      /\ sent + errors = Cardinality(Launched) + Cardinality(UNION {members[b] : b \in thrown})
                      /\ ~aborted => Launched = User
    BY DEF TotalsExact
  <2>1. Groups /\ Control /\ Pool /\ Counted
    BY InvParts
  <2>2. Over = 1 .. next - 1
    <3>1. \A b \in Batch : pc[b] = "over" <=> b < next
      <4>1. InFlight = {}
        BY <2>1 DEF Pool, Counted
      <4>2. \A b \in Batch : pc[b] \in {"none", "over"}
        BY <2>1, <4>1 DEF InFlight, Control
      <4>3. next \in Nat
        BY <2>1, Constants DEF Control
      <4> QED
        BY <2>1, <4>2, <4>3, BatchesFacts DEF Pool
    <3>2. next \in 1 .. Users + 1
      BY <2>1 DEF Control
    <3> QED
      BY <3>1, <3>2, Constants DEF Over, Batch
  <2>3. Launched = UsersOf(Over)
    BY <2>2 DEF Launched, UsersOf
  <2>4. ~aborted => Launched = User
    <3>1. ASSUME ~aborted, NEW u \in User PROVE u \in Launched
      <4>1. PICK b \in Batch : b <= Batches /\ u \in members[b]
        BY <2>1 DEF Groups, Covers
      <4>2. next > Batches /\ next \in Nat
        BY <2>1, <3>1, Constants DEF Counted, Control
      <4>3. b \in 1 .. next - 1
        BY <4>1, <4>2, BatchesFacts
      <4> QED
        BY <4>1, <4>3 DEF Launched
    <3>2. Launched \subseteq User
      BY <2>1, <2>3, UsersFacts DEF Over
    <3> QED
      BY <3>1, <3>2
  <2> QED
    BY <2>1, <2>3, <2>4 DEF Counted, UsersOf
<1> QED
  BY <1>1, PipelineInvariant, PTL
=============================================================================
