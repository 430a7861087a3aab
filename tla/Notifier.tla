----------------------------- MODULE Notifier -----------------------------
(***************************************************************************)
(* modules/notifier: the scheduler of background jobs, run by any number   *)
(* of notifier processes that share one Redis.                             *)
(*                                                                         *)
(* A call of runJob skips when the process already runs the job            *)
(* (#runningJobs); otherwise it takes a lock `notifier:lock:<job>` in      *)
(* Redis when the cache is connected and runs without one when it is not.  *)
(* Between the look at #runningJobs and the moment the job is added to it  *)
(* lies an await (the SETNX), and the DEL that returns the lock does not   *)
(* look at its owner; both are kept as separate steps here.                *)
(*                                                                         *)
(* The lock's value (the pid) is never read by the code, so `lock` records *)
(* instead the call whose SETNX created it.                                *)
(***************************************************************************)
EXTENDS Naturals, FiniteSets

CONSTANTS Process,      \* notifier processes (PM2 instances, replicas)
          Job,          \* names of the jobs in modules/notifier/jobs
          IntervalJob,  \* jobs with interval_minutes: first run at start
          DailyJob,     \* jobs with `daily`; the others have no timer
          Slot,         \* BOUND: simultaneous calls of runJob of a job in a process
          FirstSlot,    \* the call made by scheduleInterval at start
          NoCall,       \* "the key does not exist"
          Faults        \* which faults the environment may show

ASSUME NotifierAssumption ==
    /\ IntervalJob \subseteq Job
    /\ DailyJob \subseteq Job
    /\ FirstSlot \in Slot
    /\ NoCall \notin Process \X Job \X Slot
    /\ Faults \subseteq {"degraded",  \* Redis may be unreachable at start
                         "drop",      \* an open connection may be lost
                         "overrun",   \* a job may outlive its lock's TTL
                         "crash"}     \* a process may die at any step

Call == Process \X Job \X Slot
ProcOf(c) == c[1]
JobOf(c)  == c[2]
CallsOf(p) == {c \in Call : ProcOf(c) = p}

VARIABLES phase,    \* phase[p]: "down", "on", "stopped" (timers cleared), "cacheOff"
          ready,    \* ready[p]: cache.client is not null
          running,  \* running[p]: #runningJobs
          pc,       \* pc[c]: where call c of runJob is
          useLock,  \* useLock[c]: the constant of that name in runJob
          lock      \* lock[j]: the key notifier:lock:<j> in Redis

vars == <<phase, ready, running, pc, useLock, lock>>

PC == {"idle", "setnxSent", "setnxOK", "setnxNil", "run", "delSent", "delDone"}

TypeOK ==
    /\ phase \in [Process -> {"down", "on", "stopped", "cacheOff"}]
    /\ ready \in [Process -> BOOLEAN]
    /\ running \in [Process -> SUBSET Job]
    /\ pc \in [Call -> PC]
    /\ useLock \in [Call -> BOOLEAN]
    /\ lock \in [Job -> Call \cup {NoCall}]

Init ==
    /\ phase = [p \in Process |-> "down"]
    /\ ready = [p \in Process |-> FALSE]
    /\ running = [p \in Process |-> {}]
    /\ pc = [c \in Call |-> "idle"]
    /\ useLock = [c \in Call |-> FALSE]
    /\ lock = [j \in Job |-> NoCall]

---------------------------------------------------------------------------
(* Start: the cache connects (or starts degraded), then startFunction      *)
(* schedules the jobs and calls runJob for every interval job at once.     *)
FirstCalls(p) == {c \in CallsOf(p) : JobOf(c) \in IntervalJob /\ c[3] = FirstSlot}

Start(p) ==
    /\ phase[p] = "down"
    /\ phase' = [phase EXCEPT ![p] = "on"]
    /\ \E connected \in BOOLEAN :
        /\ connected \/ "degraded" \in Faults
        /\ ready' = [ready EXCEPT ![p] = connected]
        /\ useLock' = [c \in Call |-> IF c \in FirstCalls(p) THEN connected ELSE useLock[c]]
        /\ pc' = [c \in Call |-> IF c \notin FirstCalls(p) THEN pc[c]
                                 ELSE IF connected THEN "setnxSent" ELSE "run"]
        /\ running' = [running EXCEPT ![p] = IF connected THEN @ ELSE IntervalJob]
    /\ UNCHANGED lock

(* MUTANT of EnterRunJob: the look at #runningJobs is forgotten.           *)
EnterUnguarded(c) ==
    LET p == ProcOf(c) IN
    /\ pc[c] = "idle"
    /\ useLock' = [useLock EXCEPT ![c] = ready[p]]
    /\ pc' = [pc EXCEPT ![c] = IF ready[p] THEN "setnxSent" ELSE "run"]
    /\ running' = [running EXCEPT ![p] = IF ready[p] THEN @ ELSE @ \cup {JobOf(c)}]
    /\ UNCHANGED <<phase, ready, lock>>

(* runJob up to its first await: the guard, then SETNX or, without Redis,  *)
(* the job itself. A call that finds the job in #runningJobs does nothing. *)
EnterRunJob(c) ==
    LET p == ProcOf(c) IN
    /\ pc[c] = "idle"
    /\ JobOf(c) \notin running[p]
    /\ useLock' = [useLock EXCEPT ![c] = ready[p]]
    /\ \/ /\ ready[p]
          /\ pc' = [pc EXCEPT ![c] = "setnxSent"]
          /\ UNCHANGED running
       \/ /\ ~ready[p]
          /\ pc' = [pc EXCEPT ![c] = "run"]
          /\ running' = [running EXCEPT ![p] = @ \cup {JobOf(c)}]
    /\ UNCHANGED <<phase, ready, lock>>

(* A setInterval or setTimeout callback; stopFunction clears the timers.   *)
TimerFires(c) ==
    /\ phase[ProcOf(c)] = "on"
    /\ JobOf(c) \in IntervalJob \cup DailyJob
    /\ EnterRunJob(c)

(* A manual run, which may name any job, also a disabled one.              *)
RunJobNow(c) ==
    /\ phase[ProcOf(c)] = "on"
    /\ EnterRunJob(c)

(* MUTANT of RedisSetnx: SET without NX overwrites the other's lock.       *)
SetnxOverwrites(c) ==
    /\ pc[c] = "setnxSent"
    /\ ready[ProcOf(c)]
    /\ lock' = [lock EXCEPT ![JobOf(c)] = c]
    /\ pc' = [pc EXCEPT ![c] = "setnxOK"]
    /\ UNCHANGED <<phase, ready, running, useLock>>

(* Redis executes SET key pid EX 7200 NX of call c.                        *)
RedisSetnx(c) ==
    /\ pc[c] = "setnxSent"
    /\ ready[ProcOf(c)]
    /\ \/ /\ lock[JobOf(c)] = NoCall
          /\ lock' = [lock EXCEPT ![JobOf(c)] = c]
          /\ pc' = [pc EXCEPT ![c] = "setnxOK"]
       \/ /\ lock[JobOf(c)] # NoCall
          /\ pc' = [pc EXCEPT ![c] = "setnxNil"]
          /\ UNCHANGED lock
    /\ UNCHANGED <<phase, ready, running, useLock>>

(* MUTANTS of SetnxResolves: the lock's key instead of the name, or        *)
(* nothing, is added to #runningJobs.                                      *)
AddsTheKey(c) ==
    /\ pc[c] = "setnxOK"
    /\ pc' = [pc EXCEPT ![c] = "run"]
    /\ running' = [running EXCEPT ![ProcOf(c)] = @ \cup {<<"notifier:lock", JobOf(c)>>}]
    /\ UNCHANGED <<phase, ready, useLock, lock>>
AddsNothing(c) ==
    /\ pc[c] = "setnxOK"
    /\ pc' = [pc EXCEPT ![c] = "run"]
    /\ UNCHANGED <<phase, ready, running, useLock, lock>>

(* The await of setnx returns true: the job is added to #runningJobs       *)
(* without a second look, and runs.                                        *)
SetnxResolves(c) ==
    /\ pc[c] = "setnxOK"
    /\ pc' = [pc EXCEPT ![c] = "run"]
    /\ running' = [running EXCEPT ![ProcOf(c)] = @ \cup {JobOf(c)}]
    /\ UNCHANGED <<phase, ready, useLock, lock>>

(* MUTANT of SetnxRefused: the finally block covers the refusal too, and a *)
(* call that did not get the lock deletes it.                              *)
RefusedDeletes(c) ==
    /\ pc[c] = "setnxNil"
    /\ pc' = [pc EXCEPT ![c] = "delSent"]
    /\ UNCHANGED <<phase, ready, running, useLock, lock>>

(* It returns false, because the key existed or (Cache.setnx catches the   *)
(* error) because the connection is gone: the call skips the job.          *)
SetnxRefused(c) ==
    /\ \/ pc[c] = "setnxNil"
       \/ pc[c] = "setnxSent" /\ ~ready[ProcOf(c)]
    /\ pc' = [pc EXCEPT ![c] = "idle"]
    /\ UNCHANGED <<phase, ready, running, useLock, lock>>

(* MUTANTS of JobEnds: the lock is deleted but the guard is not freed; or  *)
(* a job that fails leaves both (no finally).                              *)
KeepsGuard(c) ==
    /\ pc[c] = "run"
    /\ pc' = [pc EXCEPT ![c] = IF useLock[c] /\ ready[ProcOf(c)] THEN "delSent" ELSE "idle"]
    /\ UNCHANGED <<phase, ready, running, useLock, lock>>
ThrowsPastCleanup(c) ==
    /\ pc[c] = "run"
    /\ pc' = [pc EXCEPT ![c] = "idle"]
    /\ UNCHANGED <<phase, ready, running, useLock, lock>>

(* The job ends, with or without an error; the finally block frees the     *)
(* guard and sends DEL. Without a connection Cache.del swallows the error. *)
JobEnds(c) ==
    LET p == ProcOf(c) IN
    /\ pc[c] = "run"
    /\ running' = [running EXCEPT ![p] = @ \ {JobOf(c)}]
    /\ pc' = [pc EXCEPT ![c] = IF useLock[c] /\ ready[p] THEN "delSent" ELSE "idle"]
    /\ UNCHANGED <<phase, ready, useLock, lock>>

(* Redis executes DEL: the key goes, whoever created it.                   *)
RedisDel(c) ==
    /\ pc[c] = "delSent"
    /\ ready[ProcOf(c)]
    /\ lock' = [lock EXCEPT ![JobOf(c)] = NoCall]
    /\ pc' = [pc EXCEPT ![c] = "delDone"]
    /\ UNCHANGED <<phase, ready, running, useLock>>

(* The await of del returns; an error is swallowed.                        *)
DelReturns(c) ==
    /\ \/ pc[c] = "delDone"
       \/ pc[c] = "delSent" /\ ~ready[ProcOf(c)]
    /\ pc' = [pc EXCEPT ![c] = "idle"]
    /\ UNCHANGED <<phase, ready, running, useLock, lock>>

---------------------------------------------------------------------------
(* The connection to Redis breaks. A command whose reply has not been read *)
(* is sent again by ioredis after it reconnects (SetnxRefused, DelReturns: *)
(* or is rejected before that).                                            *)
ConnectionLost(p) ==
    /\ "drop" \in Faults
    /\ ready[p]
    /\ ready' = [ready EXCEPT ![p] = FALSE]
    /\ pc' = [c \in Call |->
                IF ProcOf(c) # p THEN pc[c]
                ELSE CASE pc[c] \in {"setnxOK", "setnxNil"} -> "setnxSent"
                       [] pc[c] = "delDone" -> "delSent"
                       [] OTHER -> pc[c]]
    /\ UNCHANGED <<phase, running, useLock, lock>>

(* retryStrategy has not given up and Redis answers again.                 *)
Reconnect(p) ==
    /\ phase[p] \in {"on", "stopped"}
    /\ ~ready[p]
    /\ ready' = [ready EXCEPT ![p] = TRUE]
    /\ UNCHANGED <<phase, running, pc, useLock, lock>>

(* Call c still needs the lock it took.                                    *)
Holds(c) == useLock[c] /\ lock[JobOf(c)] = c /\ pc[c] \in {"setnxOK", "run", "delSent"}

(* MUTANT of Expire: SET without EX, a lock never expires.                 *)
NeverExpires(j) ==
    /\ lock[j] # NoCall
    /\ FALSE
    /\ UNCHANGED vars

(* The TTL of the lock runs out: of one that no call needs any more, or,   *)
(* with the fault "overrun", of one whose job still runs. The TTL is hours,*)
(* a round trip to Redis is not: a SETNX that the same process sent before *)
(* the job began has been answered by then.                                *)
Expire(j) ==
    /\ lock[j] # NoCall
    /\ \/ ~Holds(lock[j])
       \/ /\ "overrun" \in Faults
          /\ pc[lock[j]] = "run"
          /\ \A c \in CallsOf(ProcOf(lock[j])) : JobOf(c) = j => pc[c] # "setnxSent"
    /\ lock' = [lock EXCEPT ![j] = NoCall]
    /\ UNCHANGED <<phase, ready, running, pc, useLock>>

---------------------------------------------------------------------------
(* The graceful stop of a notifier process: the notifier clears its timers *)
(* and does not wait for jobs; the cache quits after the replies to the    *)
(* commands sent before; the process exits.                                *)
Stop(p) ==
    /\ phase[p] = "on"
    /\ phase' = [phase EXCEPT ![p] = "stopped"]
    /\ UNCHANGED <<ready, running, pc, useLock, lock>>

CacheStop(p) ==
    /\ phase[p] = "stopped"
    /\ ready[p] => \A c \in CallsOf(p) : pc[c] \in {"idle", "run"}
    /\ phase' = [phase EXCEPT ![p] = "cacheOff"]
    /\ ready' = [ready EXCEPT ![p] = FALSE]
    /\ UNCHANGED <<running, pc, useLock, lock>>

(* The memory of process p is gone, with the calls under way in it.        *)
GoDown(p) ==
    /\ phase' = [phase EXCEPT ![p] = "down"]
    /\ ready' = [ready EXCEPT ![p] = FALSE]
    /\ running' = [running EXCEPT ![p] = {}]
    /\ pc' = [c \in Call |-> IF ProcOf(c) = p THEN "idle" ELSE pc[c]]
    /\ useLock' = [c \in Call |-> IF ProcOf(c) = p THEN FALSE ELSE useLock[c]]
    /\ UNCHANGED lock

Exit(p)  == phase[p] = "cacheOff" /\ GoDown(p)
Crash(p) == "crash" \in Faults /\ phase[p] # "down" /\ GoDown(p)

---------------------------------------------------------------------------
CallStep(c) ==
    \/ RedisSetnx(c) \/ SetnxResolves(c) \/ SetnxRefused(c)
    \/ JobEnds(c) \/ RedisDel(c) \/ DelReturns(c)

Next ==
    \/ \E c \in Call : TimerFires(c) \/ RunJobNow(c) \/ CallStep(c)
    \/ \E p \in Process :
        \/ Start(p) \/ ConnectionLost(p) \/ Reconnect(p)
        \/ Stop(p) \/ CacheStop(p) \/ Exit(p) \/ Crash(p)
    \/ \E j \in Job : Expire(j)

Spec == Init /\ [][Next]_vars

(* Jobs end, Redis answers or the client gives the command up, timers fire *)
(* and TTLs run out. Nothing else has to happen.                           *)
Fairness ==
    /\ \A c \in Call : WF_vars(CallStep(c))
    /\ \A p \in Process, j \in Job : WF_vars(\E s \in Slot : TimerFires(<<p, j, s>>))
    /\ \A j \in Job : WF_vars(Expire(j))

FairSpec == Spec /\ Fairness

---------------------------------------------------------------------------
Runs(j) == {c \in Call : JobOf(c) = j /\ pc[c] = "run"}

(* The runs that took the lock. When every process reaches Redis, all do.  *)
LockedRuns(j) == {c \in Runs(j) : useLock[c]}

(* notifier/index.js:19 - one run of a job at a time over all processes    *)
(* that reach Redis, whatever runs without a lock in those that do not.    *)
MutualExclusion == \A j \in Job : Cardinality(LockedRuns(j)) <= 1

(* The same promise inside one process, which the #runningJobs guard is to *)
(* keep even when Redis is not there.                                      *)
InProcessExclusion ==
    \A p \in Process, j \in Job : Cardinality(Runs(j) \cap CallsOf(p)) <= 1

(* A job in #runningJobs really runs: no call returns without freeing the  *)
(* guard, which would keep the job from running until a restart.           *)
GuardSound ==
    \A p \in Process : \A j \in running[p] : Runs(j) \cap CallsOf(p) # {}

(* While Redis is not lost in the middle of a call, a job that runs is in  *)
(* #runningJobs, so that a second call of it skips.                        *)
GuardComplete ==
    \A c \in Call : pc[c] = "run" => JobOf(c) \in running[ProcOf(c)]

(* While no connection breaks and no lock expires under its owner, whoever *)
(* is between a granted SETNX and the end of its DEL has the key: nobody   *)
(* else's DEL, SETNX or exit takes it away.                                *)
LockOwned ==
    \A c \in Call : useLock[c] /\ pc[c] \in {"setnxOK", "run", "delSent"}
                     => lock[JobOf(c)] = c

(* No lock outlives its use for ever: the finally block returns it, and    *)
(* the TTL does when the process died, quit or lost Redis first.           *)
LockReleased ==
    \A j \in Job, c \in Call : (lock[j] = c) ~> (lock[j] # c)

(* Once the processes have settled, each up or not for good, and one is    *)
(* up, a scheduled job goes on running, whatever locks dead processes left.*)
Settled(p) ==
    /\ <>[](phase[p] = "on") \/ <>[](phase[p] = "down")
    /\ <>[]ready[p] \/ <>[]~ready[p]
JobKeepsRunning ==
    (/\ \A p \in Process : Settled(p)
     /\ \E p \in Process : <>[](phase[p] = "on"))
    => \A j \in IntervalJob \cup DailyJob : []<>(Runs(j) # {})

---------------------------------------------------------------------------
Abstract == INSTANCE ExclusiveJob WITH Runner <- Call,
                                       runners <- [j \in Job |-> LockedRuns(j)]

(* The runs under the lock implement the promise of ExclusiveJob.          *)
ImplementsExclusiveJob == Abstract!Spec
===========================================================================
