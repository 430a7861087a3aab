--------------------------- MODULE BatchPipeline ---------------------------
(***************************************************************************)
(* functions/batchPipeline.js: processBatches cuts groups of users into    *)
(* batches and sends them through a pool of at most `concurrency` promises,*)
(* every attempt paying a token of a RateLimiter that all batches share.   *)
(*                                                                         *)
(* A batch is its number in launch order. The .then, .catch and .finally   *)
(* callbacks of one promise run without I/O between them and are one step  *)
(* here; the loop of processBatches waits in Promise.race or Promise.all.  *)
(***************************************************************************)
EXTENDS Integers, FiniteSets

CONSTANTS Users,          \* BOUND: number of users
          BatchSize,      \* options.batchSize
          Concurrency,    \* options.concurrency
          MaxRetries,     \* options.maxRetries
          Cost, Rate, MaxTokens, Early  \* of the rate limiter

User  == 1 .. Users
Batch == 1 .. Users   \* as many batches as users at most

ASSUME PipelineAssumption ==
    /\ Users \in Nat /\ BatchSize \in Nat \ {0} /\ Concurrency \in Nat \ {0}
    /\ MaxRetries \in Nat /\ Early \in Nat
    /\ {Cost, Rate, MaxTokens} \subseteq Nat \ {0}

VARIABLES members,    \* group[u]: the first user with the name and the count of u
          main,     \* processBatches: "loop", "race", "all", "returned", "threw"
          next,     \* the next batch the loops come to
          pc,       \* pc[b]: "none", "acquire", "send", "backoff", "over"
          attempt,  \* attempt[b] of sendBatchWithRetry
          pool,     \* the promises in `pool`
          sent,     \* totalSent
          errors,   \* totalErrors
          aborted,  \* signal.aborted
          reached,  \* users that sendBatch reported as sent (not in the code)
          thrown,   \* batches whose onBatchDone threw (not in the code)
          tokens, elapsed, wait  \* of the rate limiter

limiter == <<tokens, elapsed, wait>>
totals  == <<sent, errors, reached, thrown>>
vars    == <<members, main, next, pc, attempt, pool, totals, aborted, limiter>>

Limiter == INSTANCE RateLimiter WITH Caller <- Batch

Size(b) == Cardinality(members[b])
Batches == Cardinality({b \in Batch : members[b] # {}})

TypeOK ==
    /\ members \in [Batch -> SUBSET User]
    /\ Limiter!LimiterTypeOK
    /\ main \in {"loop", "race", "all", "returned", "threw"}
    /\ next \in 1 .. Users + 1
    /\ pc \in [Batch -> {"none", "acquire", "send", "backoff", "over"}]
    /\ attempt \in [Batch -> 0 .. MaxRetries]
    /\ pool \subseteq Batch /\ thrown \subseteq Batch
    /\ {sent, errors, reached} \subseteq Nat
    /\ aborted \in BOOLEAN

Rank(group, u) == Cardinality({v \in User : v < u /\ group[v] = group[u]})

(* MUTANT of Slice: the last slice is only taken when it is full.          *)
SliceFull(group, g, i) ==
    LET s == {u \in User : group[u] = g /\ Rank(group, u) \div BatchSize = i} IN
    IF i > 0 /\ Cardinality(s) < BatchSize THEN {} ELSE s

(* group[u] is the first user with the name and the count of u. Groups are *)
(* taken in the order of their first users, as groupByNameAndCount made    *)
(* them, and cut into slices of batchSize: Slice is slice i of group g.    *)
Slice(group, g, i) == {u \in User : group[u] = g /\ Rank(group, u) \div BatchSize = i}

Cut(group) ==
    LET slices == {s \in User \X (0 .. Users) : Slice(group, s[1], s[2]) # {}}
        before(s, t) == s[1] < t[1] \/ (s[1] = t[1] /\ s[2] < t[2])
    IN  [b \in Batch |-> UNION {Slice(group, s[1], s[2]) : s \in
            {s \in slices : Cardinality({t \in slices : before(t, s)}) = b - 1}}]

Init ==
    /\ \E group \in [User -> User] :
        /\ \A u \in User : group[u] <= u /\ group[group[u]] = group[u]
        /\ members = Cut(group)
    /\ main = "loop" /\ next = 1
    /\ pc = [b \in Batch |-> "none"]
    /\ attempt = [b \in Batch |-> 0]
    /\ pool = {}
    /\ sent = 0 /\ errors = 0 /\ reached = 0 /\ thrown = {}
    /\ aborted = FALSE
    /\ Limiter!Init

---------------------------------------------------------------------------
(* The signal is aborted, at any time.                                     *)
Abort ==
    /\ ~aborted
    /\ aborted' = TRUE
    /\ UNCHANGED <<members, main, next, pc, attempt, pool, totals, limiter>>

(* acquire() of an attempt of batch b takes a token at once, and sendBatch  *)
(* is called, or falls asleep.                                             *)
Acquires(b) ==
    \/ Limiter!TakesToken(b) /\ pc' = [pc EXCEPT ![b] = "send"]
    \/ Limiter!Sleeps(b) /\ pc' = [pc EXCEPT ![b] = "acquire"]

(* One turn of the loops: unless aborted, the next batch calls acquire()   *)
(* and enters the pool; a full pool makes the loop wait in Promise.race.   *)
LaunchBatch ==
    /\ main = "loop" /\ next <= Batches /\ ~aborted
    /\ Acquires(next)
    /\ pool' = pool \cup {next}
    /\ next' = next + 1
    /\ main' = IF Cardinality(pool') >= Concurrency THEN "race" ELSE "loop"
    /\ UNCHANGED <<members, attempt, totals, aborted>>

(* The loops are over, or left by the abort: Promise.all(pool).            *)
LoopEnds ==
    /\ main = "loop"
    /\ next > Batches \/ aborted
    /\ main' = "all"
    /\ UNCHANGED <<members, next, pc, attempt, pool, totals, aborted, limiter>>

(* Promise.all(pool) resolves, and processBatches returns the totals,      *)
(* unless the last onProgress throws.                                      *)
Returns ==
    /\ main = "all" /\ pool = {}
    /\ main' \in {"returned", "threw"}
    /\ UNCHANGED <<members, next, pc, attempt, pool, totals, aborted, limiter>>

---------------------------------------------------------------------------
(* acquire() resolves after its sleep, and sendBatch is called.            *)
GetsToken(b) ==
    /\ pc[b] = "acquire"
    /\ Limiter!WakesAndTakes(b)
    /\ pc' = [pc EXCEPT ![b] = "send"]
    /\ UNCHANGED <<members, main, next, attempt, pool, totals, aborted>>

(* The promise of batch b settles and leaves the pool. Main awakes if it   *)
(* waited for it; a rejection (onError or onProgress threw) ends it.       *)
Settles(b) ==
    /\ pc' = [pc EXCEPT ![b] = "over"]
    /\ pool' = pool \ {b}
    /\ \/ main \in {"race", "all"} /\ main' = "threw"
       \/ main' = IF main = "race" THEN "loop" ELSE main
    /\ UNCHANGED <<members, next, attempt, aborted, limiter>>

(* .catch: the whole batch is counted as errors, then onError is called.   *)
CountsAsError(b, base) == errors' = base + Size(b) /\ Settles(b)

(* sendBatch resolves; it may report that only n users of the batch were   *)
(* sent. An onBatchDone that throws sends the batch through .catch as well.*)
SendSucceeds(b) ==
    /\ pc[b] = "send"
    /\ \E n \in 0 .. Size(b) :
        /\ reached' = reached + n
        /\ sent' = sent + n
        /\ \/ /\ errors' = errors + (Size(b) - n)
              /\ Settles(b)
              /\ UNCHANGED thrown
           \/ /\ thrown' = thrown \cup {b}
              /\ CountsAsError(b, errors + (Size(b) - n))

(* MUTANT of SendFails: the last attempt is followed by one more.          *)
FailsOnceMore(b) ==
    /\ pc[b] = "send"
    /\ IF attempt[b] <= MaxRetries
       THEN /\ pc' = [pc EXCEPT ![b] = "backoff"]
            /\ UNCHANGED <<members, main, next, attempt, pool, totals, aborted, limiter>>
       ELSE CountsAsError(b, errors) /\ UNCHANGED <<sent, reached, thrown>>

(* sendBatch rejects: the last attempt, or an error with noRetry, gives    *)
(* the batch up; any other is followed by a pause and a new attempt.       *)
SendFails(b) ==
    /\ pc[b] = "send"
    /\ \/ /\ attempt[b] < MaxRetries
          /\ pc' = [pc EXCEPT ![b] = "backoff"]
          /\ UNCHANGED <<members, main, next, attempt, pool, totals, aborted, limiter>>
       \/ /\ CountsAsError(b, errors)
          /\ UNCHANGED <<sent, reached, thrown>>

(* MUTANT of Retries: the attempts are not counted.                        *)
RetriesUncounted(b) ==
    /\ pc[b] = "backoff"
    /\ Acquires(b)
    /\ UNCHANGED <<members, main, next, attempt, pool, totals, aborted>>

(* The pause is over: the next attempt, which pays a token again.          *)
Retries(b) ==
    /\ pc[b] = "backoff"
    /\ attempt' = [attempt EXCEPT ![b] = @ + 1]
    /\ Acquires(b)
    /\ UNCHANGED <<members, main, next, pool, totals, aborted>>

Tick == Limiter!Tick /\ UNCHANGED <<members, main, next, pc, attempt, pool, totals, aborted>>

BatchStep(b) == GetsToken(b) \/ SendSucceeds(b) \/ SendFails(b) \/ Retries(b)

Next ==
    \/ Abort \/ LaunchBatch \/ LoopEnds \/ Returns \/ Tick
    \/ \E b \in Batch : BatchStep(b)

Spec == Init /\ [][Next]_vars

(* Every sendBatch settles, timers fire, and time passes.                  *)
FairSpec == /\ Spec
            /\ WF_vars(LaunchBatch) /\ WF_vars(LoopEnds) /\ WF_vars(Returns)
            /\ WF_vars(Tick)
            /\ \A b \in Batch : WF_vars(BatchStep(b))

---------------------------------------------------------------------------
InFlight == {b \in Batch : pc[b] \in {"acquire", "send", "backoff"}}

(* Never more than `concurrency` batches are on their way, and so the debt *)
(* of the rate limiter is below one token per place in the pool, and what  *)
(* early timers add once, however many batches there are. (There is debt,  *)
(* though rateLimiter.js:6 says acquire() waits for an available token and *)
(* batchPipeline.js:14 that the real RPS does not exceed the limit.)       *)
DebtBoundedByPool ==
    /\ Cardinality(InFlight) <= Concurrency
    /\ tokens >= (1 - Concurrency) * Cost - Early * Rate

(* What processBatches returns adds up: every user of every launched batch *)
(* is counted once, sent or in error, but the users of a batch whose       *)
(* onBatchDone threw once more, as errors; who counts as sent was sent; and*)
(* without an abort every user of every group was in a batch.              *)
Launched == UNION {members[b] : b \in 1 .. next - 1}
TotalsExact ==
    main = "returned" =>
        /\ sent = reached
        /\ sent + errors = Cardinality(Launched) + Cardinality(UNION {members[b] : b \in thrown})
        /\ ~aborted => Launched = User

(* processBatches ends, aborted or not, whatever fails.                    *)
Ends == <>(main \in {"returned", "threw"})
============================================================================
