----------------------------- MODULE DailyJob -----------------------------
(***************************************************************************)
(* A daily notification: the timer of modules/notifier (#getDelayMs,       *)
(* #scheduleJob, the guard of #runJob, runJobNow) and the helpers of       *)
(* functions/notifierHelpers.js by which a job does not notify a user      *)
(* twice a day, filterNotSent before it sends and markSent after.          *)
(*                                                                         *)
(* Time is a number of ticks, a day Slots of them. The helpers take the    *)
(* key of the Redis set as a parameter; a job takes the date, once a run.  *)
(***************************************************************************)
EXTENDS Integers, FiniteSets

CONSTANTS User,
          Slots,    \* ticks in a day
          Target,   \* the tick of the day of job.daily
          Early,    \* setTimeout may fire that many ticks before its time
          Late,     \* BOUND: ticks a timer may be late
          LockTtl,  \* ticks until the lock of a run expires
          Days,     \* BOUND: days
          Manual,   \* BOUND: manual runs
          Faults    \* BOUND: crashes, jobs that throw, failures of Redis

(* A job for the first tick of the day that fires early runs on the day    *)
(* before, and is still at it when the timer it sets fires (see README).   *)
ASSUME DailyJobAssumption ==
    /\ IsFiniteSet(User)
    /\ {Slots, Target, Early, Late, LockTtl, Days, Manual, Faults} \subseteq Nat
    /\ Early <= Target /\ Target + Late < Slots

Day     == 0 .. Days - 1
Horizon == Days * Slots
Today(t) == t \div Slots

VARIABLES now,    \* the clock
          alive,  \* the notifier process runs
          due,    \* the time the timer is set for
          soon,   \* by a firing before that time
          job,    \* the run: "idle", "filter", "send", "mark"
          key,    \* the date of the run, which names its Redis set
          todo,   \* users the run still has to notify
          batch,  \* users notified and not yet marked
          locked, \* the run has set the lock, useLock
          redis,  \* Redis can be reached
          lock,   \* when the lock in Redis expires, 0 without one
          sets,   \* sets[d]: the Redis set of day d
          expiry, \* expiry[d]: when it expires
          got,    \* got[d][u]: notifications user u got in runs of day d
          manual, \* manual runs so far
          faults, \* faults so far
          hit,    \* days with a crash, a job that threw or a SETNX that failed,
                  \* or begun with a lock left behind
          dark    \* days without Redis, or with an eviction

run  == <<job, key, todo, batch, locked>>
vars == <<now, alive, due, soon, run, redis, lock, sets, expiry, got, manual, faults, hit, dark>>

TypeOK ==
    /\ now \in 0 .. Horizon /\ due \in 0 .. Horizon + Slots
    /\ {alive, soon, redis, locked} \subseteq BOOLEAN /\ lock \in 0 .. Horizon + LockTtl
    /\ job \in {"idle", "filter", "send", "mark"} /\ key \in 0 .. Days
    /\ todo \subseteq User /\ batch \subseteq todo
    /\ job = "mark" <=> batch # {}
    /\ sets \in [Day -> SUBSET User] /\ expiry \in [Day -> 0 .. Horizon + Slots]
    /\ got \in [Day -> [User -> Nat]]
    /\ manual \in 0 .. Manual /\ faults \in 0 .. Faults /\ hit \cup dark \subseteq Day

(* MUTANT of NextAt: today's time is never used.                           *)
NextAtTomorrow(t) == (Today(t) + 1) * Slots + Target

(* #getDelayMs: the next time the clock shows Target, strictly later.      *)
NextAt(t) == LET at == Today(t) * Slots + Target IN IF at <= t THEN at + Slots ELSE at

Init ==
    /\ now = 0 /\ alive = TRUE /\ due = NextAt(0) /\ soon = FALSE
    /\ job = "idle" /\ key = 0 /\ todo = {} /\ batch = {} /\ locked = FALSE
    /\ redis = TRUE /\ lock = 0 /\ sets = [d \in Day |-> {}] /\ expiry = [d \in Day |-> 0]
    /\ got = [d \in Day |-> [u \in User |-> 0]]
    /\ manual = 0 /\ faults = 0 /\ dark = {}
    /\ hit = IF Target = 0 THEN Day \cap {0} ELSE {}   \* started too late for today

---------------------------------------------------------------------------
(* BOUNDS: a timer fires at most Late ticks late, a run ends before the    *)
(* next day. The keys of Redis whose time has come expire.                 *)
Tick ==
    /\ now < Horizon
    /\ alive => now < due + Late
    /\ job # "idle" => Today(now + 1) = Today(now)
    /\ now' = now + 1
    /\ sets' = [d \in Day |-> IF expiry[d] <= now + 1 THEN {} ELSE sets[d]]
    /\ expiry' = [d \in Day |-> IF expiry[d] <= now + 1 THEN 0 ELSE expiry[d]]
    /\ lock' = IF lock <= now + 1 THEN 0 ELSE lock
    /\ hit' = IF alive THEN hit ELSE hit \cup (Day \cap {Today(now + 1)})
    /\ dark' = IF redis THEN dark ELSE dark \cup (Day \cap {Today(now + 1)})
    /\ UNCHANGED <<alive, due, soon, run, redis, got, manual, faults>>

Fault == faults < Faults /\ faults' = faults + 1

(* Today, and the days to come that a lock until t may disturb.            *)
ThisDay     == Day \cap {Today(now)}
LeftLock(t) == {d \in Day : t # 0 /\ Today(now) < d /\ d <= Today(t)}

(* #runJob begins a run, with the lock when there is Redis.                *)
RunBegins ==
    /\ job = "idle" /\ (redis => lock = 0)
    /\ job' = "filter"
    /\ locked' = redis
    /\ lock' = IF redis THEN now + LockTtl ELSE lock
    /\ UNCHANGED <<key, todo, batch, faults, hit>>

(* A run is going on here or, with Redis, the lock is there: it was left   *)
(* behind.                                                                 *)
TurnedAway ==
    /\ job # "idle" \/ (redis /\ lock # 0)
    /\ UNCHANGED <<run, lock, faults, hit>>

(* setnx returns false on an error too: the command was not carried out,   *)
(* or it was and its reply is lost. The run is skipped, and there may be a *)
(* lock that nobody holds.                                                 *)
SetnxFails ==
    /\ job = "idle" /\ redis /\ Fault
    /\ lock' \in {lock, IF lock = 0 THEN now + LockTtl ELSE lock}
    /\ hit' = hit \cup ThisDay \cup LeftLock(lock')
    /\ UNCHANGED run

Begin == RunBegins \/ TurnedAway \/ SetnxFails

(* The end of a run, in `finally`: it deletes its lock if it can.          *)
RunEnds ==
    /\ job' = "idle" /\ locked' = FALSE /\ key' = 0
    /\ lock' = IF locked /\ redis THEN 0 ELSE lock

(* The run goes on with users to notify, or ends.                          *)
Continue(today) ==
    IF todo' = {} THEN RunEnds ELSE job' = "send" /\ key' = today /\ UNCHANGED <<locked, lock>>

(* The timer fires; the next one is set when the run has begun. A timer    *)
(* waits a millisecond at least, and no timer is as early as that: one set *)
(* by an early firing is not early.                                        *)
Fire ==
    /\ alive /\ Today(now) \in Day
    /\ now >= IF soon THEN due ELSE due - Early
    /\ soon' = (now < due)
    /\ due' = NextAt(now)
    /\ Begin
    /\ UNCHANGED <<now, alive, redis, sets, expiry, got, manual, dark>>

(* runJobNow.                                                              *)
RunNow ==
    /\ alive /\ manual < Manual /\ Today(now) \in Day
    /\ manual' = manual + 1
    /\ Begin
    /\ UNCHANGED <<now, alive, due, soon, redis, sets, expiry, got, dark>>

(* filterNotSent: without Redis nobody is known to be notified.            *)
FilterNotSent ==
    /\ job = "filter"
    /\ todo' = IF redis THEN User \ sets[Today(now)] ELSE User
    /\ Continue(Today(now))
    /\ UNCHANGED <<now, alive, due, soon, batch, redis, sets, expiry, got, manual, faults, hit, dark>>

(* The job notifies a batch of users.                                      *)
Send ==
    /\ job = "send"
    /\ batch' \in (SUBSET todo) \ {{}}
    /\ got' = [got EXCEPT ![key] = [u \in User |-> @[u] + (IF u \in batch' THEN 1 ELSE 0)]]
    /\ job' = "mark"
    /\ UNCHANGED <<now, alive, due, soon, key, todo, locked, redis, lock, sets, expiry, manual, faults, hit, dark>>

(* MUTANT of Marked: the set expires after a minute.                       *)
MarkedShort ==
    /\ sets' = [sets EXCEPT ![key] = @ \cup batch]
    /\ expiry' = [expiry EXCEPT ![key] = now + 1]

(* MUTANT of Marked: 48 hours.                                             *)
MarkedLong ==
    /\ sets' = [sets EXCEPT ![key] = @ \cup batch]
    /\ expiry' = [expiry EXCEPT ![key] = now + 2 * Slots]

Marked ==
    /\ sets' = [sets EXCEPT ![key] = @ \cup batch]
    /\ expiry' = [expiry EXCEPT ![key] = now + Slots]

(* markSent, a no-op without Redis: the users and 24 hours for the set.    *)
MarkSent ==
    /\ job = "mark"
    /\ IF redis THEN Marked ELSE UNCHANGED <<sets, expiry>>
    /\ todo' = todo \ batch
    /\ batch' = {}
    /\ Continue(key)
    /\ UNCHANGED <<now, alive, due, soon, redis, got, manual, faults, hit, dark>>

---------------------------------------------------------------------------
(* The job throws, in any state: nothing more is sent or marked.           *)
JobThrows ==
    /\ job # "idle" /\ Fault
    /\ RunEnds /\ todo' = {} /\ batch' = {}
    /\ hit' = hit \cup ThisDay
    /\ UNCHANGED <<now, alive, due, soon, redis, sets, expiry, got, manual, dark>>

(* The process crashes or is stopped in the middle of a run; a new one     *)
(* plans the job anew.                                                     *)
Crash ==
    /\ alive /\ Fault
    /\ alive' = FALSE
    /\ job' = "idle" /\ todo' = {} /\ batch' = {} /\ locked' = FALSE /\ key' = 0
    /\ hit' = hit \cup ThisDay \cup LeftLock(lock)
    /\ UNCHANGED <<now, due, soon, redis, lock, sets, expiry, got, manual, dark>>

Restart ==
    /\ ~alive
    /\ alive' = TRUE
    /\ due' = NextAt(now) /\ soon' = FALSE
    /\ UNCHANGED <<now, run, redis, lock, sets, expiry, got, manual, faults, hit, dark>>

(* Redis goes and comes back; with allkeys-lru it may evict any key.       *)
Redis ==
    /\ \/ ~redis /\ redis' = TRUE /\ UNCHANGED <<lock, sets, expiry, faults>>
       \/ redis /\ redis' = FALSE /\ Fault /\ UNCHANGED <<lock, sets, expiry>>
       \/ lock # 0 /\ lock' = 0 /\ Fault /\ UNCHANGED <<redis, sets, expiry>>
       \/ \E d \in Day : /\ sets[d] # {}
                         /\ sets' = [sets EXCEPT ![d] = {}] /\ expiry' = [expiry EXCEPT ![d] = 0]
                         /\ Fault
                         /\ UNCHANGED <<redis, lock>>
    /\ dark' = dark \cup ThisDay
    /\ hit' = IF redis' THEN hit ELSE hit \cup LeftLock(lock)
    /\ UNCHANGED <<now, alive, due, soon, run, got, manual>>

Next ==
    \/ Tick \/ Fire \/ RunNow \/ FilterNotSent \/ Send \/ MarkSent
    \/ JobThrows \/ Crash \/ Restart \/ Redis

Spec == Init /\ [][Next]_vars

---------------------------------------------------------------------------
(* notifierHelpers.js:12-34 - on a day without a crash, with a job that    *)
(* does not throw and with Redis up no user is notified twice, however     *)
(* often the job runs: its timer fires early and is set for the same day   *)
(* again, or it is run by hand.                                            *)
NeverTwice == \A d \in Day \ (hit \cup dark), u \in User : got[d][u] <= 1

(* notifier/index.js:87-116 - on a day without a crash and with a job that *)
(* does not throw, Redis or not, every user is notified: the timer finds   *)
(* every day, also when it fires early or late or while the job runs. Not  *)
(* so when SETNX fails that day, or a crash, a run that lost Redis or a    *)
(* SETNX whose reply was lost has left its lock behind.                    *)
NeverMissed == \A d \in Day \ hit, u \in User : Today(now) > d => got[d][u] >= 1
===========================================================================
